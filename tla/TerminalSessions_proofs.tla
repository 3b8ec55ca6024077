----------------------- MODULE TerminalSessions_proofs -----------------------
(***************************************************************************)
(* Proofs about TerminalSessions, for any number of sessions, sockets and  *)
(* requests: what the hub holds, and what a session that is over has let   *)
(* go of, whatever the order in which the channel, the sockets, the timer, *)
(* the watcher, an administrator and a crash come to a session.  Then, of  *)
(* what the code does not ensure, which step at which moment it takes.     *)
(***************************************************************************)
EXTENDS TerminalSessions, TLAPS

\* What hub.create adds and hub.end removes.
HubIsLive == \A s \in Sessions : s \in hub <=> phase[s] = "live"

ChannelHasShell ==
    \A s \in Sessions : channel[s] => phase[s] \in {"row", "shell", "live"}

\* The sockets of a record belong to it and are wired.
AttachedAreWired ==
    \A s \in Sessions : \A k \in attached[s] :
        s \in hub /\ target[k] = s /\ k \notin joining

\* An open socket leads somewhere: to a session being opened, or to a live
\* one that knows of it, or it is on its way to hub.attach.
OpenLeadsSomewhere ==
    \A k \in open \cup joining :
        /\ target[k] \in Sessions
        /\ \/ k \in joining
           \/ phase[target[k]] \in Opening
           \/ k \in attached[target[k]]

\* hub.create finds the socket the session was opened for.
OpenerIsKnown ==
    \A s \in Sessions : phase[s] \in Opening =>
        \E k \in Sockets : target[k] = s /\ k \notin joining

Core ==
    /\ HubIsLive /\ ChannelHasShell /\ AttachedAreWired
    /\ OpenLeadsSomewhere /\ OpenerIsKnown /\ TimerIffDetached

Inv == TypeOK /\ Core

coreVars == <<phase, channel, hub, attached, timer, open, joining, target>>

-----------------------------------------------------------------------------
(***************************************************************************)
(* Types.                                                                  *)
(***************************************************************************)
LEMMA EndingTypes ==
    ASSUME TypeOK, NEW S \in SUBSET Sessions,
           NEW final \in {"ENDED", "TERMINATED"}, HubEnd(S, final)
    PROVE  /\ phase' \in [Sessions -> Phases]
           /\ channel' \in [Sessions -> BOOLEAN]
           /\ hub' \subseteq Sessions /\ timer' \subseteq hub'
           /\ attached' \in [Sessions -> SUBSET Sockets]
           /\ ending' \in [Sessions -> {"no", "ENDED", "TERMINATED"}]
           /\ open' \subseteq Sockets
  BY DEF TypeOK, HubEnd, TimersLeft, Phases

LEMMA ConnectionTypes ==
    ASSUME TypeOK, NEW s \in Sessions, Connection(s)
    PROVE  TypeOK'
<1> USE DEF TypeOK, userVars, requestVars, socketVars, bootVars
<1>1. CASE \E k \in Sockets, r \in Requests \cup {NoRequest} :
              OpenTerminal(k, s, r)
  BY <1>1 DEF OpenTerminal, Phases
<1>2. CASE ConnectFails(s)
  BY <1>2 DEF ConnectFails, CloseOpener, Phases
<1>3. CASE CreateRow(s)
  BY <1>3 DEF CreateRow, Phases, RowStatuses
<1>4. CASE ShellFails(s)
  BY <1>4 DEF ShellFails, CloseOpener, Phases
<1>5. CASE ShellOpens(s)
  BY <1>5 DEF ShellOpens, Phases
<1>6. CASE HubCreate(s)
  BY <1>6 DEF HubCreate, Phases
<1>7. CASE ChannelCloses(s)
  <2>1. CASE s \in hub /\ HubEnd({s}, "ENDED")
    BY <1>7, <2>1, EndingTypes DEF ChannelCloses
  <2>2. CASE ~(s \in hub /\ HubEnd({s}, "ENDED"))
    BY <1>7, <2>2 DEF ChannelCloses
  <2> QED
    BY <2>1, <2>2
<1> QED
  BY <1>1, <1>2, <1>3, <1>4, <1>5, <1>6, <1>7 DEF Connection

LEMMA HubTypes ==
    ASSUME TypeOK, NEW s \in Sessions, HubStep(s)
    PROVE  TypeOK'
<1> USE DEF userVars, requestVars, socketVars, bootVars
<1>1. CASE EndWrite(s)
  BY <1>1 DEF EndWrite, RowWritten, TypeOK, RowStatuses
<1>2. CASE DetachTimeout(s) \/ CloseOwned(s) \/ CheckExpiries(s)
  <2>1. /\ HubEnd({s}, "ENDED")
        /\ UNCHANGED <<userVars, requestVars, reqOf, row, target, joining,
                       bootVars>>
    BY <1>2 DEF DetachTimeout, CloseOwned, CheckExpiries
  <2> QED
    BY <2>1, EndingTypes DEF TypeOK
<1>3. CASE \E k \in Sockets : Rejoin(k, s)
  BY <1>3 DEF Rejoin, TypeOK, hubUnchanged
<1> QED
  BY <1>1, <1>2, <1>3 DEF HubStep

LEMMA SocketTypes ==
    ASSUME TypeOK, NEW k \in Sockets, Socket(k)
    PROVE  TypeOK'
<1> USE DEF TypeOK, userVars, requestVars, socketVars, bootVars
<1>1. CASE Attach(k)
  <2>1. CASE target[k] \in hub
    BY <1>1, <2>1 DEF Attach, TimerCleared
  <2>2. CASE target[k] \notin hub
    BY <1>1, <2>2 DEF Attach, Refused
  <2> QED
    BY <2>1, <2>2
<1>2. CASE SocketCloses(k)
  BY <1>2 DEF SocketCloses
<1> QED
  BY <1>1, <1>2 DEF Socket

LEMMA OutsideTypes ==
    ASSUME TypeOK, Outside
    PROVE  TypeOK'
<1> USE DEF userVars, requestVars, socketVars, bootVars, hubUnchanged
<1>1. ASSUME NEW r \in Requests,
             Lapse(r) \/ Revoke(r) \/ MarkExpired(r) \/ FindActive(r)
      PROVE  TypeOK'
  BY <1>1 DEF Lapse, Revoke, MarkExpired, Withdraw, FindActive, TypeOK,
              RequestStatuses
<1>2. ASSUME NEW s \in Sessions, Condemn(s) \/ MarkStale(s)
      PROVE  TypeOK'
  BY <1>2 DEF Condemn, MarkStale, IsStale, TypeOK, RowStatuses
<1>3. ASSUME NEW s \in Sessions, TerminateSession(s)
      PROVE  TypeOK'
  <2>1. CASE s \in hub
    BY <1>3, <2>1, EndingTypes DEF TerminateSession, TypeOK
  <2>2. CASE s \notin hub
    BY <1>3, <2>2 DEF TerminateSession, RowWritten, TypeOK, RowStatuses
  <2> QED
    BY <2>1, <2>2
<1>4. CASE DisableAccount \/ DisableRequests
  BY <1>4 DEF DisableAccount, DisableRequests, TypeOK, RequestStatuses,
              DisableSteps
<1>5. CASE EndAllForUser
  BY <1>5, EndingTypes DEF EndAllForUser, TypeOK
<1> QED
  BY <1>1, <1>2, <1>3, <1>4, <1>5 DEF Outside

LEMMA ProcessTypes ==
    ASSUME TypeOK, Process
    PROVE  TypeOK'
<1> USE DEF userVars, requestVars, socketVars, bootVars, hubUnchanged
<1>1. CASE Shutdown
  BY <1>1, EndingTypes DEF Shutdown, TypeOK
<1>2. CASE Crash
  <2>1. crashes' \in 0..MaxCrashes
    BY <1>2, TerminalAssumption DEF Crash, TypeOK
  <2> QED
    BY <1>2, <2>1 DEF Crash, TypeOK, Phases
<1>3. CASE ReconcileFind
  BY <1>3 DEF ReconcileFind, TypeOK
<1>4. CASE \E s \in Sessions : ReconcileOne(s)
  BY <1>4 DEF ReconcileOne, RowWritten, TypeOK, RowStatuses
<1> QED
  BY <1>1, <1>2, <1>3, <1>4 DEF Process

LEMMA TypeStep == ASSUME TypeOK, [Next]_vars PROVE TypeOK'
<1>1. CASE UNCHANGED vars
  BY <1>1 DEF vars, userVars, requestVars, socketVars, bootVars, TypeOK
<1> QED
  BY <1>1, ConnectionTypes, HubTypes, SocketTypes, OutsideTypes,
     ProcessTypes DEF Next

-----------------------------------------------------------------------------
(***************************************************************************)
(* Ending sessions of the hub keeps what is known of the others: the       *)
(* sockets of those that end are closed, all but the ones still on their   *)
(* way to them.                                                            *)
(***************************************************************************)
LEMMA EndingKeepsCore ==
    ASSUME Inv, NEW S \in SUBSET Sessions, S \subseteq hub, NEW final,
           HubEnd(S, final), UNCHANGED <<target, joining>>
    PROVE  Core'
<1> DEFINE gone == UNION {attached[s] : s \in S}
<1>1. /\ hub' = hub \ S /\ timer' = timer \ S /\ open' = open \ gone
      /\ \A s \in Sessions :
            /\ attached'[s] = IF s \in S THEN {} ELSE attached[s]
            /\ channel'[s] = (s \notin S /\ channel[s])
            /\ phase'[s] = IF s \in S THEN "over" ELSE phase[s]
  BY DEF HubEnd, TimersLeft
<1>2. HubIsLive' /\ ChannelHasShell' /\ AttachedAreWired'
  BY <1>1 DEF Inv, Core, HubIsLive, ChannelHasShell, AttachedAreWired
<1>3. OpenLeadsSomewhere'
  <2> SUFFICES ASSUME NEW k \in open' \cup joining'
               PROVE  /\ target'[k] \in Sessions
                      /\ \/ k \in joining'
                         \/ phase'[target'[k]] \in Opening
                         \/ k \in attached'[target'[k]]
    BY DEF OpenLeadsSomewhere
  <2>1. k \in open \cup joining /\ target'[k] = target[k]
    BY <1>1
  <2>2. /\ target[k] \in Sessions
        /\ \/ k \in joining
           \/ phase[target[k]] \in Opening
           \/ k \in attached[target[k]]
    BY <2>1 DEF Inv, Core, OpenLeadsSomewhere
  <2>3. CASE k \in joining
    BY <2>1, <2>2, <2>3
  <2>4. CASE k \notin joining /\ target[k] \in S
    <3>1. phase[target[k]] \notin Opening
      BY <2>2, <2>4 DEF Inv, Core, HubIsLive, Opening
    <3>2. k \in gone
      BY <2>2, <2>4, <3>1
    <3> QED
      BY <1>1, <2>4, <3>2
  <2>5. CASE k \notin joining /\ target[k] \notin S
    BY <1>1, <2>1, <2>2, <2>5
  <2> QED
    BY <2>3, <2>4, <2>5
<1>4. OpenerIsKnown'
  BY <1>1 DEF Inv, Core, OpenerIsKnown, Opening
<1>5. TimerIffDetached'
  BY <1>1 DEF Inv, Core, TimerIffDetached, TypeOK
<1> QED
  BY <1>2, <1>3, <1>4, <1>5 DEF Core

LEMMA CoreFrame == ASSUME Core, UNCHANGED coreVars PROVE Core'
  BY DEF coreVars, Core, HubIsLive, ChannelHasShell, AttachedAreWired,
         OpenLeadsSomewhere, OpenerIsKnown, TimerIffDetached

(***************************************************************************)
(* A socket that is not accepted yet is nowhere.                           *)
(***************************************************************************)
LEMMA FreshIsNowhere ==
    ASSUME Inv, NEW k \in Sockets, Fresh(k)
    PROVE  /\ k \notin open /\ k \notin joining
           /\ \A s \in Sessions : k \notin attached[s] /\ target[k] # s
  BY TerminalAssumption
     DEF Inv, Core, OpenLeadsSomewhere, AttachedAreWired, Fresh

LEMMA OpenTerminalStep ==
    ASSUME Inv, NEW k \in Sockets, NEW s \in Sessions,
           NEW r \in Requests \cup {NoRequest}, OpenTerminal(k, s, r)
    PROVE  Core'
<1>1. /\ Fresh(k) /\ phase[s] = "unused"
      /\ target' = [target EXCEPT ![k] = s] /\ open' = open \cup {k}
      /\ phase' = [phase EXCEPT ![s] = "checked"]
      /\ UNCHANGED <<channel, hub, attached, timer, joining>>
  BY DEF OpenTerminal
<1>2. /\ k \notin open /\ k \notin joining
      /\ \A t \in Sessions : k \notin attached[t] /\ target[k] # t
  BY <1>1, FreshIsNowhere
<1>3. /\ \A t \in Sessions :
            phase'[t] = IF t = s THEN "checked" ELSE phase[t]
      /\ \A j \in Sockets : target'[j] = IF j = k THEN s ELSE target[j]
  BY <1>1 DEF Inv, TypeOK
<1>4. HubIsLive' /\ ChannelHasShell'
  BY <1>1, <1>3 DEF Inv, Core, HubIsLive, ChannelHasShell
<1>5. AttachedAreWired' /\ TimerIffDetached'
  BY <1>1, <1>2, <1>3
     DEF Inv, Core, AttachedAreWired, TimerIffDetached, TypeOK
<1>6. OpenLeadsSomewhere'
  BY <1>1, <1>2, <1>3
     DEF Inv, Core, OpenLeadsSomewhere, Opening, TypeOK
<1>7. OpenerIsKnown'
  <2> SUFFICES ASSUME NEW t \in Sessions, phase'[t] \in Opening
               PROVE  \E j \in Sockets : target'[j] = t /\ j \notin joining'
    BY DEF OpenerIsKnown
  <2>1. CASE t = s
    BY <1>1, <1>2, <1>3, <2>1
  <2>2. CASE t # s
    <3>1. PICK j \in Sockets : target[j] = t /\ j \notin joining
      BY <1>3, <2>2 DEF Inv, Core, OpenerIsKnown
    <3> QED
      BY <1>1, <1>2, <1>3, <3>1
  <2> QED
    BY <2>1, <2>2
<1> QED
  BY <1>4, <1>5, <1>6, <1>7 DEF Core

(***************************************************************************)
(* The other steps of a connection.                                        *)
(***************************************************************************)
LEMMA ConnectionStep ==
    ASSUME Inv, NEW s \in Sessions, Connection(s)
    PROVE  Core'
<1> USE DEF bootVars
<1>1. CASE ConnectFails(s) \/ ShellFails(s)
  <2>1. /\ phase[s] \in Opening /\ phase' = [phase EXCEPT ![s] = "over"]
        /\ \A j : j \in open' <=>
                    j \in open /\ (target[j] # s \/ j \in joining)
        /\ UNCHANGED <<hub, attached, timer, target, joining>>
    BY <1>1 DEF ConnectFails, ShellFails, CloseOpener, Opening
  <2>2. \A t \in Sessions :
           /\ phase'[t] = IF t = s THEN "over" ELSE phase[t]
           /\ channel'[t] => channel[t] /\ t # s
    BY <1>1, <2>1
       DEF ConnectFails, ShellFails, Inv, Core, ChannelHasShell, TypeOK
  <2>3. HubIsLive' /\ ChannelHasShell' /\ OpenerIsKnown'
    BY <2>1, <2>2
       DEF Inv, Core, HubIsLive, ChannelHasShell, OpenerIsKnown, Opening
  <2>4. AttachedAreWired' /\ TimerIffDetached'
    BY <2>1 DEF Inv, Core, AttachedAreWired, TimerIffDetached
  <2>5. OpenLeadsSomewhere'
    BY <2>1, <2>2
       DEF Inv, Core, OpenLeadsSomewhere, AttachedAreWired, HubIsLive, Opening
  <2> QED
    BY <2>3, <2>4, <2>5 DEF Core
<1>2. CASE CreateRow(s) \/ ShellOpens(s)
  <2>1. /\ phase[s] \in Opening /\ phase'[s] \in {"row", "shell"}
        /\ \A t \in Sessions : t # s =>
              phase'[t] = phase[t] /\ channel'[t] = channel[t]
        /\ UNCHANGED <<hub, attached, timer, open, target, joining>>
    BY <1>2 DEF CreateRow, ShellOpens, Opening, Inv, TypeOK, socketVars
  <2>2. HubIsLive' /\ ChannelHasShell' /\ OpenerIsKnown'
    BY <2>1
       DEF Inv, Core, HubIsLive, ChannelHasShell, OpenerIsKnown, Opening
  <2>3. AttachedAreWired' /\ TimerIffDetached'
    BY <2>1 DEF Inv, Core, AttachedAreWired, TimerIffDetached
  <2>4. OpenLeadsSomewhere'
    BY <2>1 DEF Inv, Core, OpenLeadsSomewhere, Opening
  <2> QED
    BY <2>2, <2>3, <2>4 DEF Core
<1>3. CASE HubCreate(s)
  <2>1. /\ phase[s] = "shell" /\ hub' = hub \cup {s}
        /\ \A t \in Sessions :
              /\ phase'[t] = IF t = s THEN "live" ELSE phase[t]
              /\ attached'[t] =
                    IF t = s THEN {k \in Sockets : target[k] = s
                                                     /\ k \notin joining}
                    ELSE attached[t]
        /\ UNCHANGED <<channel, timer, open, target, joining>>
    BY <1>3 DEF HubCreate, Inv, TypeOK, socketVars
  <2>2. HubIsLive' /\ ChannelHasShell' /\ OpenerIsKnown'
    BY <2>1
       DEF Inv, Core, HubIsLive, ChannelHasShell, OpenerIsKnown, Opening
  <2>3. AttachedAreWired'
    BY <2>1 DEF Inv, Core, AttachedAreWired
  <2>4. TimerIffDetached'
    <3>1. s \notin hub /\ s \notin timer
      BY <2>1 DEF Inv, Core, HubIsLive, TypeOK
    <3>2. attached'[s] # {}
      BY <2>1 DEF Inv, Core, OpenerIsKnown, Opening
    <3> QED
      BY <2>1, <3>1, <3>2 DEF Inv, Core, TimerIffDetached, TypeOK
  <2>5. OpenLeadsSomewhere'
    <3> SUFFICES ASSUME NEW k \in open \cup joining, k \notin joining
                 PROVE  /\ target[k] \in Sessions
                        /\ \/ phase'[target[k]] \in Opening
                           \/ k \in attached'[target[k]]
      BY <2>1 DEF OpenLeadsSomewhere, Inv, Core
    <3>1. k \in Sockets
      BY DEF Inv, TypeOK
    <3> QED
      BY <2>1, <3>1 DEF Inv, Core, OpenLeadsSomewhere
  <2> QED
    BY <2>2, <2>3, <2>4, <2>5 DEF Core
<1>4. CASE ChannelCloses(s)
  <2>1. CASE s \in hub /\ HubEnd({s}, "ENDED")
    BY <1>4, <2>1, EndingKeepsCore DEF ChannelCloses
  <2>2. CASE ~(s \in hub /\ HubEnd({s}, "ENDED"))
    <3>1. /\ \A t \in Sessions : channel'[t] => channel[t]
          /\ UNCHANGED <<hub, timer, open, attached, phase, target, joining>>
      BY <1>4, <2>2 DEF ChannelCloses, Inv, TypeOK
    <3> QED
      BY <3>1 DEF Inv, Core, HubIsLive, ChannelHasShell, AttachedAreWired,
                  OpenLeadsSomewhere, OpenerIsKnown, TimerIffDetached
  <2> QED
    BY <2>1, <2>2
<1> QED
  BY <1>1, <1>2, <1>3, <1>4, OpenTerminalStep DEF Connection

(***************************************************************************)
(* Sockets that come back, and sockets that drop.                          *)
(***************************************************************************)
LEMMA RejoinStep ==
    ASSUME Inv, NEW k \in Sockets, NEW s \in Sessions, Rejoin(k, s)
    PROVE  Core'
<1>1. /\ Fresh(k) /\ open' = open \cup {k} /\ joining' = joining \cup {k}
      /\ \A j \in Sockets : target'[j] = IF j = k THEN s ELSE target[j]
      /\ UNCHANGED <<phase, channel, hub, attached, timer>>
  BY DEF Rejoin, hubUnchanged, Inv, TypeOK
<1>2. /\ k \notin open /\ k \notin joining
      /\ \A t \in Sessions : k \notin attached[t] /\ target[k] # t
  BY <1>1, FreshIsNowhere
<1>3. HubIsLive' /\ ChannelHasShell' /\ TimerIffDetached'
  BY <1>1 DEF Inv, Core, HubIsLive, ChannelHasShell, TimerIffDetached
<1>4. AttachedAreWired'
  BY <1>1, <1>2 DEF Inv, Core, AttachedAreWired, TypeOK
<1>5. OpenLeadsSomewhere'
  BY <1>1, <1>2 DEF Inv, Core, OpenLeadsSomewhere, TypeOK
<1>6. OpenerIsKnown'
  <2> SUFFICES ASSUME NEW t \in Sessions, phase[t] \in Opening
               PROVE  \E j \in Sockets : target'[j] = t /\ j \notin joining'
    BY <1>1 DEF OpenerIsKnown
  <2>1. PICK j \in Sockets : target[j] = t /\ j \notin joining
    BY DEF Inv, Core, OpenerIsKnown
  <2> QED
    BY <1>1, <1>2, <2>1
<1> QED
  BY <1>3, <1>4, <1>5, <1>6 DEF Core

LEMMA AttachStep ==
    ASSUME Inv, NEW k \in Sockets, Attach(k)
    PROVE  Core'
<1> DEFINE s == target[k]
<1>1. /\ k \in joining /\ joining' = joining \ {k} /\ s \in Sessions
      /\ UNCHANGED <<phase, channel, hub, target>>
  BY DEF Attach, Inv, Core, OpenLeadsSomewhere
<1>2. HubIsLive' /\ ChannelHasShell' /\ OpenerIsKnown'
  BY <1>1 DEF Inv, Core, HubIsLive, ChannelHasShell, OpenerIsKnown
<1>3. CASE s \in hub
  <2>1. /\ timer' = timer \ {s} /\ open' = open
        /\ \A t \in Sessions :
              attached'[t] = IF t = s THEN attached[t] \cup {k}
                             ELSE attached[t]
    BY <1>1, <1>3 DEF Attach, TimerCleared, Inv, TypeOK
  <2>2. AttachedAreWired'
    <3> SUFFICES ASSUME NEW t \in Sessions, NEW j \in attached'[t]
                 PROVE  t \in hub /\ target[j] = t /\ j \notin joining'
      BY <1>1 DEF AttachedAreWired
    <3>1. CASE t = s /\ j = k
      BY <1>1, <1>3, <3>1
    <3>2. CASE ~(t = s /\ j = k)
      <4>1. j \in attached[t]
        BY <2>1, <3>2
      <4> QED
        BY <1>1, <4>1 DEF Inv, Core, AttachedAreWired
    <3> QED
      BY <3>1, <3>2
  <2>3. OpenLeadsSomewhere'
    BY <1>1, <2>1 DEF Inv, Core, OpenLeadsSomewhere
  <2>4. TimerIffDetached'
    BY <1>1, <2>1 DEF Inv, Core, TimerIffDetached, TypeOK
  <2> QED
    BY <1>2, <2>2, <2>3, <2>4 DEF Core
<1>4. CASE s \notin hub
  <2>1. open' = open \ {k} /\ UNCHANGED <<attached, timer>>
    BY <1>4 DEF Attach, Refused
  <2>2. AttachedAreWired' /\ OpenLeadsSomewhere' /\ TimerIffDetached'
    BY <1>1, <2>1 DEF Inv, Core, AttachedAreWired, OpenLeadsSomewhere,
                      TimerIffDetached
  <2> QED
    BY <1>2, <2>2 DEF Core
<1> QED
  BY <1>3, <1>4

LEMMA SocketClosesStep ==
    ASSUME Inv, NEW k \in Sockets, SocketCloses(k)
    PROVE  Core'
<1> DEFINE s == target[k]
<1>1. /\ open' = open \ {k} /\ s \in Sessions
      /\ UNCHANGED <<phase, channel, hub, target, joining>>
  BY DEF SocketCloses, Inv, Core, OpenLeadsSomewhere
<1>2. HubIsLive' /\ ChannelHasShell' /\ OpenerIsKnown'
  BY <1>1 DEF Inv, Core, HubIsLive, ChannelHasShell, OpenerIsKnown
<1>3. CASE s \in hub /\ k \in attached[s]
  <2>1. /\ \A t \in Sessions :
              attached'[t] = IF t = s THEN attached[t] \ {k}
                             ELSE attached[t]
        /\ timer' = IF attached[s] = {k} THEN timer \cup {s} ELSE timer
    BY <1>1, <1>3 DEF SocketCloses, Inv, TypeOK
  <2>2. AttachedAreWired'
    BY <1>1, <2>1 DEF Inv, Core, AttachedAreWired
  <2>3. OpenLeadsSomewhere'
    <3> SUFFICES ASSUME NEW j \in open' \cup joining'
                 PROVE  /\ target[j] \in Sessions
                        /\ \/ j \in joining
                           \/ phase[target[j]] \in Opening
                           \/ j \in attached'[target[j]]
      BY <1>1 DEF OpenLeadsSomewhere
    <3>1. /\ j \in open \cup joining
          /\ target[j] \in Sessions
          /\ \/ j \in joining
             \/ phase[target[j]] \in Opening
             \/ j \in attached[target[j]]
      BY <1>1 DEF Inv, Core, OpenLeadsSomewhere
    <3> QED
      BY <1>1, <2>1, <3>1
  <2>4. TimerIffDetached'
    <3> SUFFICES ASSUME NEW t \in hub, t \in Sessions
                 PROVE  t \in timer' <=> attached'[t] = {}
      BY <1>1 DEF TimerIffDetached, Inv, TypeOK
    <3>1. t \in timer <=> attached[t] = {}
      BY DEF Inv, Core, TimerIffDetached
    <3>2. t = s => t \notin timer
      BY <1>3, <3>1
    <3>3. t = s => (attached'[t] = {} <=> attached[s] = {k})
      BY <1>1, <1>3, <2>1
    <3> QED
      BY <1>1, <2>1, <3>1, <3>2, <3>3
  <2> QED
    BY <1>2, <2>2, <2>3, <2>4 DEF Core
<1>4. CASE ~(s \in hub /\ k \in attached[s])
  <2>1. UNCHANGED <<attached, timer>>
    BY <1>4 DEF SocketCloses
  <2>2. AttachedAreWired' /\ OpenLeadsSomewhere' /\ TimerIffDetached'
    BY <1>1, <2>1 DEF Inv, Core, AttachedAreWired, OpenLeadsSomewhere,
                      TimerIffDetached
  <2> QED
    BY <1>2, <2>2 DEF Core
<1> QED
  BY <1>3, <1>4

(***************************************************************************)
(* The hub's own steps, the rest of the program and the process.           *)
(***************************************************************************)
LEMMA HubStepKeeps ==
    ASSUME Inv, NEW s \in Sessions, HubStep(s)
    PROVE  Core'
<1>1. CASE DetachTimeout(s) \/ CloseOwned(s) \/ CheckExpiries(s)
  <2>1. s \in hub /\ HubEnd({s}, "ENDED") /\ UNCHANGED <<target, joining>>
    BY <1>1 DEF DetachTimeout, CloseOwned, CheckExpiries, Inv, TypeOK
  <2> QED
    BY <2>1, EndingKeepsCore
<1>2. CASE EndWrite(s)
  BY <1>2, CoreFrame DEF EndWrite, coreVars, socketVars, Inv
<1> QED
  BY <1>1, <1>2, RejoinStep DEF HubStep

LEMMA OutsideKeeps ==
    ASSUME Inv, Outside
    PROVE  Core'
<1> USE DEF hubUnchanged, socketVars, coreVars
<1>1. ASSUME NEW r \in Requests,
             Lapse(r) \/ Revoke(r) \/ MarkExpired(r) \/ FindActive(r)
      PROVE  Core'
  BY <1>1, CoreFrame
     DEF Lapse, Revoke, MarkExpired, Withdraw, FindActive, Inv
<1>2. ASSUME NEW s \in Sessions, Condemn(s) \/ MarkStale(s)
      PROVE  Core'
  BY <1>2, CoreFrame DEF Condemn, MarkStale, Inv
<1>3. ASSUME NEW s \in Sessions, TerminateSession(s)
      PROVE  Core'
  <2>1. CASE s \in hub
    BY <1>3, <2>1, EndingKeepsCore DEF TerminateSession
  <2>2. CASE s \notin hub
    BY <1>3, <2>2, CoreFrame DEF TerminateSession, Inv
  <2> QED
    BY <2>1, <2>2
<1>4. CASE DisableAccount \/ DisableRequests
  BY <1>4, CoreFrame DEF DisableAccount, DisableRequests, Inv
<1>5. CASE EndAllForUser
  BY <1>5, EndingKeepsCore DEF EndAllForUser, Inv, TypeOK
<1> QED
  BY <1>1, <1>2, <1>3, <1>4, <1>5 DEF Outside

LEMMA ProcessKeeps ==
    ASSUME Inv, Process
    PROVE  Core'
<1> USE DEF hubUnchanged, socketVars, coreVars
<1>1. CASE Shutdown
  BY <1>1, EndingKeepsCore DEF Shutdown, Inv, TypeOK
<1>2. CASE Crash
  <2>1. /\ hub' = {} /\ timer' = {} /\ open' = {} /\ joining' = {}
        /\ \A s \in Sessions : /\ attached'[s] = {} /\ ~channel'[s]
                               /\ phase'[s] \in {"unused", "over"}
    BY <1>2 DEF Crash
  <2> QED
    BY <2>1 DEF Core, HubIsLive, ChannelHasShell, AttachedAreWired,
                OpenLeadsSomewhere, OpenerIsKnown, TimerIffDetached, Opening
<1>3. CASE ReconcileFind \/ \E s \in Sessions : ReconcileOne(s)
  BY <1>3, CoreFrame DEF ReconcileFind, ReconcileOne, Inv
<1> QED
  BY <1>1, <1>2, <1>3 DEF Process

LEMMA InvStep == ASSUME Inv, [Next]_vars PROVE Inv'
<1>1. TypeOK'
  BY TypeStep DEF Inv
<1>2. CASE UNCHANGED vars
  BY <1>1, <1>2, CoreFrame DEF vars, coreVars, socketVars, Inv
<1>3. CASE Next
  BY <1>1, <1>3, ConnectionStep, HubStepKeeps, AttachStep, SocketClosesStep,
     OutsideKeeps, ProcessKeeps DEF Next, Socket, Inv
<1> QED
  BY <1>2, <1>3

LEMMA InitInv == Init => Inv
<1> SUFFICES ASSUME Init PROVE Inv
  OBVIOUS
<1>1. TypeOK
  <2>1. 0 \in 0..MaxCrashes
    BY TerminalAssumption
  <2> QED
    BY <2>1
       DEF Init, TypeOK, RequestStatuses, Phases, RowStatuses, DisableSteps
<1>2. Core
  BY DEF Init, Core, HubIsLive, ChannelHasShell, AttachedAreWired,
         OpenLeadsSomewhere, OpenerIsKnown, TimerIffDetached, Opening
<1> QED
  BY <1>1, <1>2 DEF Inv

-----------------------------------------------------------------------------
(***************************************************************************)
(* Every variable keeps its type; no timer is armed for a session that the *)
(* hub does not hold.                                                      *)
(***************************************************************************)
THEOREM TypeCorrect == Spec => []TypeOK
<1>1. Init => Inv
  BY InitInv
<1>2. Inv /\ [Next]_vars => Inv'
  BY InvStep
<1>3. Inv => TypeOK
  BY DEF Inv
<1> QED
  BY <1>1, <1>2, <1>3, PTL DEF Spec

(***************************************************************************)
(* terminalHub.js: a live session runs its detach timer exactly while no   *)
(* socket is attached to it.                                               *)
(***************************************************************************)
THEOREM TimerTellsDetached == Spec => []TimerIffDetached
<1>1. Init => Inv
  BY InitInv
<1>2. Inv /\ [Next]_vars => Inv'
  BY InvStep
<1>3. Inv => TimerIffDetached
  BY DEF Inv, Core
<1> QED
  BY <1>1, <1>2, <1>3, PTL DEF Spec

(***************************************************************************)
(* hub.end and the failure paths of runSsh2Session let go of everything:   *)
(* a session that is over has no channel, and no socket but one that will  *)
(* be refused.                                                             *)
(***************************************************************************)
THEOREM OverLetsGo == Spec => []EndedHoldsNothing
<1>1. Init => Inv
  BY InitInv
<1>2. Inv /\ [Next]_vars => Inv'
  BY InvStep
<1>3. Inv => EndedHoldsNothing
  BY DEF Inv, Core, HubIsLive, ChannelHasShell, AttachedAreWired,
         OpenLeadsSomewhere, EndedHoldsNothing, Opening, TypeOK
<1> QED
  BY <1>1, <1>2, <1>3, PTL DEF Spec

-----------------------------------------------------------------------------
(***************************************************************************)
(* What the refuting configurations show needs one overlap each.  A step   *)
(* is one of these, as far as the hub, the channels and the sockets go.    *)
(***************************************************************************)
HubEnds ==
    \E S \in SUBSET hub, final \in {"ENDED", "TERMINATED"} :
        HubEnd(S, final) /\ UNCHANGED <<target, joining>>

Attempt(s) ==
    \/ \E k \in Sockets, r \in Requests \cup {NoRequest} :
          OpenTerminal(k, s, r)
    \/ ConnectFails(s) \/ CreateRow(s) \/ ShellFails(s) \/ ShellOpens(s)
    \/ HubCreate(s)

LEMMA StepKinds ==
    ASSUME Inv, [Next]_vars
    PROVE  \/ UNCHANGED coreVars
           \/ HubEnds
           \/ Crash
           \/ \E s \in Sessions : Attempt(s)
           \/ \E s \in Sessions : /\ ChannelCloses(s) /\ s \notin hub
                                  /\ UNCHANGED <<hub, open, attached, phase,
                                                 target, joining>>
           \/ \E k \in Sockets, s \in Sessions : Rejoin(k, s)
           \/ \E k \in Sockets : Socket(k)
<1> USE DEF coreVars, socketVars, hubUnchanged
<1>1. ASSUME NEW s \in Sessions, s \in hub, HubEnd({s}, "ENDED"),
             UNCHANGED <<target, joining>>
      PROVE  HubEnds
  BY <1>1 DEF HubEnds
<1>2. ASSUME NEW s \in Sessions, ChannelCloses(s)
      PROVE  \/ HubEnds
             \/ /\ s \notin hub
                /\ UNCHANGED <<hub, open, attached, phase, target, joining>>
  BY <1>1, <1>2 DEF ChannelCloses, Inv, Core, HubIsLive
<1>3. ASSUME NEW s \in Sessions, HubStep(s)
      PROVE  \/ UNCHANGED coreVars \/ HubEnds
             \/ \E k \in Sockets : Rejoin(k, s)
  <2>1. CASE EndWrite(s)
    BY <2>1 DEF EndWrite
  <2>2. CASE DetachTimeout(s) \/ CloseOwned(s) \/ CheckExpiries(s)
    BY <1>1, <2>2 DEF DetachTimeout, CloseOwned, CheckExpiries, Inv, TypeOK
  <2> QED
    BY <1>3, <2>1, <2>2 DEF HubStep
<1>4. ASSUME Outside
      PROVE  UNCHANGED coreVars \/ HubEnds
  <2>1. ASSUME NEW r \in Requests,
               Lapse(r) \/ Revoke(r) \/ MarkExpired(r) \/ FindActive(r)
        PROVE  UNCHANGED coreVars
    BY <2>1 DEF Lapse, Revoke, MarkExpired, Withdraw, FindActive
  <2>2. ASSUME NEW s \in Sessions, Condemn(s) \/ MarkStale(s)
        PROVE  UNCHANGED coreVars
    BY <2>2 DEF Condemn, MarkStale
  <2>3. ASSUME NEW s \in Sessions, TerminateSession(s)
        PROVE  UNCHANGED coreVars \/ HubEnds
    BY <2>3 DEF TerminateSession, HubEnds
  <2>4. CASE DisableAccount \/ DisableRequests
    BY <2>4 DEF DisableAccount, DisableRequests
  <2>5. CASE EndAllForUser
    BY <2>5 DEF EndAllForUser, HubEnds
  <2> QED
    BY <1>4, <2>1, <2>2, <2>3, <2>4, <2>5 DEF Outside
<1>5. ASSUME Process
      PROVE  UNCHANGED coreVars \/ HubEnds \/ Crash
  <2>1. CASE Shutdown
    BY <2>1 DEF Shutdown, HubEnds
  <2>2. CASE ReconcileFind \/ \E s \in Sessions : ReconcileOne(s)
    BY <2>2 DEF ReconcileFind, ReconcileOne
  <2> QED
    BY <1>5, <2>1, <2>2 DEF Process
<1>6. CASE UNCHANGED vars
  BY <1>6 DEF vars
<1>7. CASE \E s \in Sessions : Connection(s)
  BY <1>2, <1>7 DEF Connection, Attempt
<1> QED
  BY <1>3, <1>4, <1>5, <1>6, <1>7 DEF Next

(***************************************************************************)
(* While no drop goes unheard, every socket that is attached, on its way   *)
(* to a session or waiting for one to be opened is up.                     *)
(***************************************************************************)
Heard == \A k \in Sockets : SocketCloses(k) => \E s \in hub : k \in attached[s]

WiredAreOpen ==
    /\ \A s \in Sessions : attached[s] \subseteq open
    /\ \A k \in joining : k \in open /\ phase[target[k]] \in {"live", "over"}
    /\ \A k \in Sockets \ joining, s \in Sessions :
          target[k] = s /\ phase[s] \in Opening => k \in open
    /\ \A k \in Sockets, s \in Sessions :
          target[k] = s => phase[s] # "unused"

LEMMA AttemptKeepsWired ==
    ASSUME Inv, WiredAreOpen, NEW s \in Sessions, Attempt(s)
    PROVE  WiredAreOpen'
<1> USE DEF bootVars, socketVars
<1>1. CASE \E k \in Sockets, r \in Requests \cup {NoRequest} :
              OpenTerminal(k, s, r)
  <2>1. PICK k \in Sockets : \E r \in Requests \cup {NoRequest} :
                                OpenTerminal(k, s, r)
    BY <1>1
  <2>2. /\ Fresh(k) /\ phase[s] = "unused" /\ open' = open \cup {k}
        /\ UNCHANGED <<attached, joining>>
        /\ \A t \in Sessions :
              phase'[t] = IF t = s THEN "checked" ELSE phase[t]
        /\ \A j \in Sockets : target'[j] = IF j = k THEN s ELSE target[j]
    BY <2>1 DEF OpenTerminal, Inv, TypeOK
  <2>3. k \notin open /\ k \notin joining
    BY <2>2, FreshIsNowhere
  <2>4. \A j \in joining : j \in Sockets /\ target[j] \in Sessions
    BY DEF Inv, Core, OpenLeadsSomewhere, TypeOK
  <2>5. \A j \in joining : target'[j] = target[j] /\ target[j] # s
    BY <2>2, <2>3, <2>4 DEF WiredAreOpen
  <2>6. \A j \in joining' : /\ j \in open'
                            /\ phase'[target'[j]] \in {"live", "over"}
    BY <2>2, <2>4, <2>5 DEF WiredAreOpen
  <2>7. ASSUME NEW j \in Sockets \ joining', NEW t \in Sessions,
               target'[j] = t, phase'[t] \in Opening
        PROVE  j \in open'
    <3>1. CASE j = k
      BY <2>2, <3>1
    <3>2. CASE j # k
      <4>1. target[j] = t /\ t # s
        BY <2>2, <2>7, <3>2 DEF WiredAreOpen
      <4> QED
        BY <2>2, <2>7, <4>1 DEF WiredAreOpen
    <3> QED
      BY <3>1, <3>2
  <2>8. \A j \in Sockets, t \in Sessions :
           target'[j] = t => phase'[t] # "unused"
    BY <2>2 DEF WiredAreOpen
  <2> QED
    BY <2>2, <2>6, <2>7, <2>8 DEF WiredAreOpen
<1>2. CASE ConnectFails(s) \/ ShellFails(s)
  <2>1. /\ phase[s] \in Opening
        /\ \A t \in Sessions : phase'[t] = IF t = s THEN "over" ELSE phase[t]
        /\ \A j : j \in open' <=>
                    j \in open /\ (target[j] # s \/ j \in joining)
        /\ UNCHANGED <<hub, attached, target, joining>>
    BY <1>2 DEF ConnectFails, ShellFails, CloseOpener, Opening, Inv, TypeOK
  <2>2. s \notin hub
    BY <2>1 DEF Inv, Core, HubIsLive, Opening
  <2>3. \A t \in Sessions : attached'[t] \subseteq open'
    BY <2>1, <2>2 DEF Inv, Core, AttachedAreWired, WiredAreOpen
  <2>4. \A j \in joining : target[j] \in Sessions
    BY DEF Inv, Core, OpenLeadsSomewhere
  <2>5. \A j \in joining' : /\ j \in open'
                            /\ phase'[target'[j]] \in {"live", "over"}
    BY <2>1, <2>4 DEF WiredAreOpen
  <2>6. \A j \in Sockets \ joining', t \in Sessions :
           target'[j] = t /\ phase'[t] \in Opening => j \in open'
    BY <2>1 DEF WiredAreOpen, Opening
  <2>7. \A j \in Sockets, t \in Sessions :
           target'[j] = t => phase'[t] # "unused"
    BY <2>1 DEF WiredAreOpen
  <2> QED
    BY <2>3, <2>5, <2>6, <2>7 DEF WiredAreOpen
<1>3. CASE CreateRow(s) \/ ShellOpens(s)
  <2>1. /\ phase[s] \in Opening /\ phase'[s] # "unused"
        /\ \A t \in Sessions : t # s => phase'[t] = phase[t]
        /\ UNCHANGED <<attached, open, target, joining>>
    BY <1>3 DEF CreateRow, ShellOpens, Opening, Inv, TypeOK
  <2>2. \A j \in joining : target[j] \in Sessions /\ target[j] # s
    BY <2>1 DEF Inv, Core, OpenLeadsSomewhere, WiredAreOpen, Opening
  <2>3. \A j \in joining' : /\ j \in open'
                            /\ phase'[target'[j]] \in {"live", "over"}
    BY <2>1, <2>2 DEF WiredAreOpen
  <2>4. \A j \in Sockets \ joining', t \in Sessions :
           target'[j] = t /\ phase'[t] \in Opening => j \in open'
    BY <2>1 DEF WiredAreOpen
  <2>5. \A j \in Sockets, t \in Sessions :
           target'[j] = t => phase'[t] # "unused"
    BY <2>1 DEF WiredAreOpen
  <2>6. \A t \in Sessions : attached'[t] \subseteq open'
    BY <2>1 DEF WiredAreOpen
  <2> QED
    BY <2>3, <2>4, <2>5, <2>6 DEF WiredAreOpen
<1>4. CASE HubCreate(s)
  <2>1. /\ phase[s] = "shell"
        /\ \A t \in Sessions :
              /\ phase'[t] = IF t = s THEN "live" ELSE phase[t]
              /\ attached'[t] =
                    IF t = s THEN {k \in Sockets : target[k] = s
                                                     /\ k \notin joining}
                    ELSE attached[t]
        /\ UNCHANGED <<open, target, joining>>
    BY <1>4 DEF HubCreate, Inv, TypeOK
  <2>2. \A j \in joining : target[j] \in Sessions
    BY DEF Inv, Core, OpenLeadsSomewhere
  <2>3. ASSUME NEW t \in Sessions
        PROVE  attached'[t] \subseteq open'
    <3>1. CASE t = s
      <4>1. \A k \in Sockets \ joining : target[k] = s => k \in open
        BY <2>1 DEF WiredAreOpen, Opening
      <4> QED
        BY <2>1, <3>1, <4>1
    <3>2. CASE t # s
      BY <2>1, <3>2 DEF WiredAreOpen
    <3> QED
      BY <3>1, <3>2
  <2>4. \A j \in joining' : /\ j \in open'
                            /\ phase'[target'[j]] \in {"live", "over"}
    BY <2>1, <2>2 DEF WiredAreOpen
  <2>5. \A j \in Sockets \ joining', t \in Sessions :
           target'[j] = t /\ phase'[t] \in Opening => j \in open'
    BY <2>1 DEF WiredAreOpen, Opening
  <2>6. \A j \in Sockets, t \in Sessions :
           target'[j] = t => phase'[t] # "unused"
    BY <2>1 DEF WiredAreOpen
  <2> QED
    BY <2>3, <2>4, <2>5, <2>6 DEF WiredAreOpen
<1> QED
  BY <1>1, <1>2, <1>3, <1>4 DEF Attempt

LEMMA WiredStep ==
    ASSUME Inv, WiredAreOpen, [Next]_vars, [Heard]_vars
    PROVE  WiredAreOpen'
<1>0. Inv'
  BY InvStep
<1>1. CASE UNCHANGED coreVars
  BY <1>1 DEF coreVars, WiredAreOpen
<1>2. CASE HubEnds
  <2>1. PICK S \in SUBSET hub, final \in {"ENDED", "TERMINATED"} :
           HubEnd(S, final) /\ UNCHANGED <<target, joining>>
    BY <1>2 DEF HubEnds
  <2>2. S \subseteq Sessions
    BY DEF Inv, TypeOK
  <2>3. /\ \A j : j \in open' <=> j \in open /\ \A t \in S : j \notin attached[t]
        /\ UNCHANGED <<target, joining>>
        /\ \A t \in Sessions :
              /\ attached'[t] = IF t \in S THEN {} ELSE attached[t]
              /\ phase'[t] = IF t \in S THEN "over" ELSE phase[t]
    BY <2>1 DEF HubEnd
  <2>4. \A t \in S : \A j \in attached[t] : target[j] = t /\ j \notin joining
    BY <2>2 DEF Inv, Core, AttachedAreWired
  <2>5. \A t \in Sessions : \A j \in attached[t] : target[j] = t
    BY DEF Inv, Core, AttachedAreWired
  <2>6. \A t \in S : phase[t] = "live"
    BY <2>2 DEF Inv, Core, HubIsLive
  <2>7. \A j \in joining : target[j] \in Sessions
    BY DEF Inv, Core, OpenLeadsSomewhere
  <2>8. \A t \in Sessions : attached'[t] \subseteq open'
    BY <2>3, <2>4, <2>5 DEF WiredAreOpen
  <2>9. \A j \in joining' : /\ j \in open'
                            /\ phase'[target'[j]] \in {"live", "over"}
    BY <2>3, <2>4, <2>7 DEF WiredAreOpen
  <2>10. \A j \in Sockets \ joining', t \in Sessions :
            target'[j] = t /\ phase'[t] \in Opening => j \in open'
    BY <2>3, <2>4, <2>6 DEF WiredAreOpen, Opening
  <2>11. \A j \in Sockets, t \in Sessions :
            target'[j] = t => phase'[t] # "unused"
    BY <2>3 DEF WiredAreOpen
  <2> QED
    BY <2>8, <2>9, <2>10, <2>11 DEF WiredAreOpen
<1>3. CASE Crash
  <2>1. /\ joining' = {} /\ target' = target
        /\ \A t \in Sessions :
              /\ attached'[t] = {}
              /\ phase'[t] = IF phase[t] = "unused" THEN "unused" ELSE "over"
    BY <1>3 DEF Crash
  <2> QED
    BY <2>1 DEF WiredAreOpen, Opening
<1>4. CASE \E s \in Sessions : Attempt(s)
  BY <1>4, AttemptKeepsWired
<1>5. CASE UNCHANGED <<hub, open, attached, phase, target, joining>>
  BY <1>5 DEF WiredAreOpen
<1>6. CASE \E k \in Sockets, s \in Sessions : Rejoin(k, s)
  <2>1. PICK k \in Sockets, s \in Sessions : Rejoin(k, s)
    BY <1>6
  <2>2. /\ Fresh(k) /\ open' = open \cup {k} /\ joining' = joining \cup {k}
        /\ \A j \in Sockets : target'[j] = IF j = k THEN s ELSE target[j]
        /\ phase[s] \in {"live", "over"}
        /\ UNCHANGED <<phase, attached>>
    BY <2>1 DEF Rejoin, hubUnchanged, Inv, TypeOK
  <2>3. \A j \in joining : j \in Sockets
    BY DEF Inv, TypeOK
  <2>4. k \notin joining
    BY <2>2, FreshIsNowhere
  <2> QED
    BY <2>2, <2>3, <2>4 DEF WiredAreOpen
<1>7. CASE \E k \in Sockets : Attach(k)
  <2>1. PICK k \in Sockets : Attach(k)
    BY <1>7
  <2>2. /\ k \in joining /\ joining' = joining \ {k}
        /\ target[k] \in Sessions
        /\ UNCHANGED <<phase, target>>
    BY <2>1 DEF Attach, Inv, Core, OpenLeadsSomewhere
  <2>3. /\ k \in open /\ phase[target[k]] \in {"live", "over"}
    BY <2>2 DEF WiredAreOpen
  <2>4. CASE target[k] \in hub
    <3>1. /\ open' = open
          /\ \A t \in Sessions : attached'[t] \subseteq attached[t] \cup {k}
      BY <2>1, <2>4 DEF Attach, Inv, TypeOK
    <3> QED
      BY <2>2, <2>3, <3>1 DEF WiredAreOpen, Opening
  <2>5. CASE target[k] \notin hub
    <3>1. open' = open \ {k} /\ attached' = attached
      BY <2>1, <2>5 DEF Attach, Refused
    <3>2. \A t \in Sessions : k \notin attached[t]
      BY <2>2 DEF Inv, Core, AttachedAreWired
    <3> QED
      BY <2>2, <2>3, <3>1, <3>2 DEF WiredAreOpen, Opening
  <2> QED
    BY <2>4, <2>5
<1>8. CASE \E k \in Sockets : SocketCloses(k)
  <2>1. PICK k \in Sockets : SocketCloses(k)
    BY <1>8
  <2>2. k \in open /\ open' = open \ {k}
    BY <2>1 DEF SocketCloses
  <2>3. Heard
    BY <2>2 DEF vars, socketVars
  <2>4. PICK s \in hub : k \in attached[s]
    BY <2>1, <2>3 DEF Heard
  <2>5. /\ s \in Sessions /\ target[k] = s /\ k \notin joining
        /\ phase[s] = "live"
    BY <2>4 DEF Inv, Core, AttachedAreWired, HubIsLive, TypeOK
  <2>6. /\ \A t \in Sessions :
              attached'[t] = IF t = s THEN attached[t] \ {k} ELSE attached[t]
        /\ UNCHANGED <<phase, target, joining>>
    BY <2>1, <2>4, <2>5 DEF SocketCloses, Inv, TypeOK
  <2>7. \A t \in Sessions : t # s => k \notin attached[t]
    BY <2>5 DEF Inv, Core, AttachedAreWired
  <2> QED
    BY <2>2, <2>5, <2>6, <2>7 DEF WiredAreOpen, Opening
<1> QED
  BY <1>1, <1>2, <1>3, <1>4, <1>5, <1>6, <1>7, <1>8, StepKinds DEF Socket

(***************************************************************************)
(* docs/terminal-workspace.md, "a socket drop is a detach": where every    *)
(* drop finds its listener wired, a live session without a connection has  *)
(* its timer running.  So the drop that TerminalUnattended shows, before   *)
(* the listeners are wired, is the only way to lose it.                    *)
(***************************************************************************)
THEOREM UnattendedIsTimedWhenHeard ==
    Spec /\ DropsAreHeard => []UnattendedIsTimed
<1>1. Init => Inv /\ WiredAreOpen
  BY InitInv, TerminalAssumption DEF Init, WiredAreOpen
<1>2. Inv /\ WiredAreOpen /\ [Next]_vars /\ [Heard]_vars
         => (Inv /\ WiredAreOpen)'
  BY InvStep, WiredStep
<1>3. Inv /\ WiredAreOpen => UnattendedIsTimed
  BY DEF Inv, Core, TypeOK, TimerIffDetached, WiredAreOpen, UnattendedIsTimed
<1> QED
  BY <1>1, <1>2, <1>3, PTL DEF Spec, DropsAreHeard, Heard

(***************************************************************************)
(* While the channel closes only where hub.create has wired a listener,    *)
(* every session with a shell has its channel.                             *)
(***************************************************************************)
Listened == \A s \in Sessions : ChannelCloses(s) => s \in hub

ShellHasChannel ==
    \A s \in Sessions : phase[s] \in {"row", "shell", "live"} => channel[s]

LEMMA ShellHasChannelStep ==
    ASSUME Inv, ShellHasChannel, [Next]_vars, [Listened]_vars
    PROVE  ShellHasChannel'
<1>1. CASE UNCHANGED <<phase, channel>>
  BY <1>1 DEF ShellHasChannel
<1>2. CASE HubEnds
  <2>1. \E S \in SUBSET hub : \A t \in Sessions :
           /\ phase'[t] = IF t \in S THEN "over" ELSE phase[t]
           /\ channel'[t] = (t \notin S /\ channel[t])
    BY <1>2 DEF HubEnds, HubEnd
  <2> QED
    BY <2>1 DEF ShellHasChannel
<1>3. CASE Crash
  BY <1>3 DEF Crash, ShellHasChannel
<1>4. CASE \E s \in Sessions : Attempt(s)
  <2>1. PICK s \in Sessions : Attempt(s)
    BY <1>4
  <2>2. /\ \A t \in Sessions : t # s =>
              phase'[t] = phase[t] /\ channel'[t] = channel[t]
        /\ phase'[s] \in {"row", "shell", "live"} => channel'[s]
    <3>1. CASE \E k \in Sockets, r \in Requests \cup {NoRequest} :
                  OpenTerminal(k, s, r)
      BY <3>1 DEF OpenTerminal, Inv, TypeOK
    <3>2. CASE ConnectFails(s) \/ ShellFails(s)
      BY <3>2 DEF ConnectFails, ShellFails, Inv, TypeOK
    <3>3. CASE CreateRow(s) \/ ShellOpens(s) \/ HubCreate(s)
      BY <3>3 DEF CreateRow, ShellOpens, HubCreate, ShellHasChannel, Inv,
                  TypeOK
    <3> QED
      BY <2>1, <3>1, <3>2, <3>3 DEF Attempt
  <2> QED
    BY <2>2 DEF ShellHasChannel
<1>5. ASSUME NEW s \in Sessions, ChannelCloses(s), s \notin hub
      PROVE  ShellHasChannel'
  <2>1. CASE UNCHANGED channel
    <3>1. UNCHANGED phase
      BY <1>5 DEF ChannelCloses
    <3> QED
      BY <1>1, <2>1, <3>1
  <2>2. CASE channel' # channel
    BY <1>5, <2>2 DEF Listened, vars
  <2> QED
    BY <2>1, <2>2
<1>6. CASE \E k \in Sockets, s \in Sessions : Rejoin(k, s)
  BY <1>1, <1>6 DEF Rejoin, hubUnchanged
<1>7. CASE \E k \in Sockets : Socket(k)
  BY <1>1, <1>7 DEF Socket, Attach, SocketCloses
<1> QED
  BY <1>1, <1>2, <1>3, <1>4, <1>5, <1>6, <1>7, StepKinds DEF coreVars

(***************************************************************************)
(* terminalService.js, "the hub owns ending the session": a session with a *)
(* dead channel in the hub, like the one that TerminalDeadChannel shows    *)
(* never to end, can only come from a close between the shell callback and *)
(* hub.create; without one the hub holds none.                             *)
(***************************************************************************)
THEOREM ChannelsLiveWhenHeard == Spec /\ ClosesAreHeard => []HubHasChannels
<1>1. Init => Inv /\ ShellHasChannel
  BY InitInv DEF Init, ShellHasChannel
<1>2. Inv /\ ShellHasChannel /\ [Next]_vars /\ [Listened]_vars
         => (Inv /\ ShellHasChannel)'
  BY InvStep, ShellHasChannelStep
<1>3. Inv /\ ShellHasChannel => HubHasChannels
  BY DEF Inv, Core, TypeOK, HubIsLive, ShellHasChannel, HubHasChannels
<1> QED
  BY <1>1, <1>2, <1>3, PTL DEF Spec, ClosesAreHeard, Listened

(***************************************************************************)
(* While no terminal is opened before the boot sweep has looked, the rows  *)
(* it finds are all of sessions that are over: a session not opened yet    *)
(* has no row, and an end that is still to be written is of one that is    *)
(* over.                                                                   *)
(***************************************************************************)
SweptFirst ==
    \A s \in Sessions, k \in Sockets, r \in Requests \cup {NoRequest} :
        OpenTerminal(k, s, r) => reconcile = "done"

SweepInv ==
    /\ \A s \in Sessions : phase[s] = "unused" => row[s] = "NONE"
    /\ \A s \in Sessions : ending[s] # "no" => phase[s] = "over"
    /\ reconcile = "todo" => \A s \in Sessions : phase[s] \in {"unused", "over"}
    /\ \A s \in orphans : phase[s] = "over"

LEMMA EndingKeepsSweepInv ==
    ASSUME Inv, SweepInv, NEW S \in SUBSET hub, NEW final, HubEnd(S, final),
           UNCHANGED <<row, reconcile, orphans>>
    PROVE  SweepInv'
<1>1. \A t \in Sessions :
         /\ phase'[t] = IF t \in S THEN "over" ELSE phase[t]
         /\ ending'[t] # "no" => t \in S \/ ending[t] # "no"
  BY DEF HubEnd
<1>2. \A t \in S : phase[t] = "live"
  BY DEF Inv, Core, HubIsLive, TypeOK
<1>3. orphans \subseteq Sessions
  BY DEF Inv, TypeOK
<1> QED
  BY <1>1, <1>2, <1>3 DEF SweepInv

LEMMA SweepStep ==
    ASSUME Inv, SweepInv, [Next]_vars, [SweptFirst]_vars
    PROVE  SweepInv'
<1> USE DEF bootVars, hubUnchanged
<1>0. orphans \subseteq Sessions
  BY DEF Inv, TypeOK
<1>1. ASSUME UNCHANGED <<phase, row, ending, reconcile, orphans>>
      PROVE  SweepInv'
  BY <1>1 DEF SweepInv
<1>2. ASSUME NEW s \in Sessions, s \in hub, HubEnd({s}, "ENDED"),
             UNCHANGED <<row, reconcile, orphans>>
      PROVE  SweepInv'
  BY <1>2, EndingKeepsSweepInv
<1>3. ASSUME NEW s \in Sessions, Attempt(s)
      PROVE  SweepInv'
  <2>1. CASE \E k \in Sockets, r \in Requests \cup {NoRequest} :
                OpenTerminal(k, s, r)
    <3>1. /\ phase[s] = "unused"
          /\ \A t \in Sessions :
                phase'[t] = IF t = s THEN "checked" ELSE phase[t]
          /\ UNCHANGED <<row, ending, reconcile, orphans>>
      BY <2>1 DEF OpenTerminal, Inv, TypeOK
    <3>2. reconcile = "done"
      <4>1. phase' # phase
        BY <3>1
      <4> QED
        BY <2>1, <4>1 DEF SweptFirst, vars
    <3> QED
      BY <1>0, <3>1, <3>2 DEF SweepInv
  <2>2. CASE ConnectFails(s) \/ ShellFails(s)
    <3>1. /\ \A t \in Sessions :
                /\ phase'[t] = IF t = s THEN "over" ELSE phase[t]
                /\ t # s => ending'[t] = ending[t]
          /\ UNCHANGED <<row, reconcile, orphans>>
      BY <2>2 DEF ConnectFails, ShellFails, Inv, TypeOK
    <3> QED
      BY <1>0, <3>1 DEF SweepInv
  <2>3. CASE CreateRow(s) \/ ShellOpens(s) \/ HubCreate(s)
    <3>1. /\ phase[s] \in Opening /\ phase'[s] \in {"row", "shell", "live"}
          /\ \A t \in Sessions :
                t # s => phase'[t] = phase[t] /\ row'[t] = row[t]
          /\ UNCHANGED <<ending, reconcile, orphans>>
      BY <2>3 DEF CreateRow, ShellOpens, HubCreate, Opening, Inv, TypeOK
    <3> QED
      BY <1>0, <3>1 DEF SweepInv, Opening
  <2> QED
    BY <1>3, <2>1, <2>2, <2>3 DEF Attempt
<1>4. ASSUME NEW s \in Sessions, ChannelCloses(s)
      PROVE  SweepInv'
  <2>1. CASE s \in hub /\ HubEnd({s}, "ENDED")
    BY <1>2, <1>4, <2>1 DEF ChannelCloses
  <2>2. CASE ~(s \in hub /\ HubEnd({s}, "ENDED"))
    BY <1>1, <1>4, <2>2 DEF ChannelCloses
  <2> QED
    BY <2>1, <2>2
<1>5. ASSUME NEW s \in Sessions, HubStep(s)
      PROVE  SweepInv'
  <2>1. CASE EndWrite(s)
    <3>1. /\ phase[s] = "over"
          /\ \A t \in Sessions :
                /\ t # s => row'[t] = row[t]
                /\ ending'[t] # "no" => ending[t] # "no"
          /\ UNCHANGED <<phase, reconcile, orphans>>
      BY <2>1 DEF EndWrite, RowWritten, SweepInv, Inv, TypeOK
    <3> QED
      BY <3>1 DEF SweepInv
  <2>2. CASE DetachTimeout(s) \/ CloseOwned(s) \/ CheckExpiries(s)
    BY <1>2, <2>2 DEF DetachTimeout, CloseOwned, CheckExpiries, Inv, TypeOK
  <2>3. CASE \E k \in Sockets : Rejoin(k, s)
    BY <1>1, <2>3 DEF Rejoin
  <2> QED
    BY <1>5, <2>1, <2>2, <2>3 DEF HubStep
<1>6. ASSUME NEW k \in Sockets, Socket(k)
      PROVE  SweepInv'
  BY <1>1, <1>6 DEF Socket, Attach, SocketCloses
<1>7. ASSUME Outside
      PROVE  SweepInv'
  <2>1. ASSUME NEW r \in Requests,
               Lapse(r) \/ Revoke(r) \/ MarkExpired(r) \/ FindActive(r)
        PROVE  SweepInv'
    BY <1>1, <2>1 DEF Lapse, Revoke, MarkExpired, Withdraw, FindActive
  <2>2. ASSUME NEW s \in Sessions, Condemn(s)
        PROVE  SweepInv'
    BY <1>1, <2>2 DEF Condemn
  <2>3. ASSUME NEW s \in Sessions, row[s] = "ACTIVE",
               \A t \in Sessions : t # s => row'[t] = row[t],
               UNCHANGED <<phase, ending, reconcile, orphans>>
        PROVE  SweepInv'
    BY <2>3 DEF SweepInv
  <2>4. ASSUME NEW s \in Sessions, MarkStale(s)
        PROVE  SweepInv'
    BY <2>3, <2>4 DEF MarkStale, IsStale, Inv, TypeOK
  <2>5. ASSUME NEW s \in Sessions, TerminateSession(s)
        PROVE  SweepInv'
    <3>1. CASE s \in hub
      BY <2>5, <3>1, EndingKeepsSweepInv DEF TerminateSession
    <3>2. CASE s \notin hub /\ row[s] = "ACTIVE"
      <4>1. /\ RowWritten(s, "TERMINATED")
            /\ UNCHANGED <<phase, ending, reconcile, orphans>>
        BY <2>5, <3>2 DEF TerminateSession
      <4>2. \A t \in Sessions : t # s => row'[t] = row[t]
        BY <4>1 DEF RowWritten, Inv, TypeOK
      <4> QED
        BY <2>3, <3>2, <4>1, <4>2
    <3>3. CASE s \notin hub /\ row[s] # "ACTIVE"
      BY <1>1, <2>5, <3>3 DEF TerminateSession
    <3> QED
      BY <3>1, <3>2, <3>3
  <2>6. CASE DisableAccount \/ DisableRequests
    BY <1>1, <2>6 DEF DisableAccount, DisableRequests
  <2>7. CASE EndAllForUser
    BY <2>7, EndingKeepsSweepInv DEF EndAllForUser
  <2> QED
    BY <1>7, <2>1, <2>2, <2>4, <2>5, <2>6, <2>7 DEF Outside
<1>8. ASSUME Process
      PROVE  SweepInv'
  <2>1. CASE Shutdown
    BY <2>1, EndingKeepsSweepInv DEF Shutdown
  <2>2. CASE Crash
    <3>1. /\ orphans' = {} /\ row' = row
          /\ \A t \in Sessions :
                /\ ending'[t] = "no"
                /\ phase'[t] = IF phase[t] = "unused" THEN "unused"
                               ELSE "over"
      BY <2>2 DEF Crash
    <3> QED
      BY <3>1 DEF SweepInv
  <2>3. CASE ReconcileFind
    BY <2>3 DEF ReconcileFind, SweepInv
  <2>4. ASSUME NEW s \in Sessions, ReconcileOne(s)
        PROVE  SweepInv'
    <3>1. /\ phase[s] = "over" /\ orphans' = orphans \ {s}
          /\ \A t \in Sessions : t # s => row'[t] = row[t]
          /\ UNCHANGED <<phase, ending, reconcile>>
      BY <2>4 DEF ReconcileOne, RowWritten, SweepInv, Inv, TypeOK
    <3> QED
      BY <3>1 DEF SweepInv
  <2> QED
    BY <1>8, <2>1, <2>2, <2>3, <2>4 DEF Process
<1>9. CASE UNCHANGED vars
  BY <1>1, <1>9 DEF vars
<1>10. CASE \E s \in Sessions : Connection(s)
  BY <1>3, <1>4, <1>10 DEF Connection, Attempt
<1> QED
  BY <1>5, <1>6, <1>7, <1>8, <1>9, <1>10 DEF Next

(***************************************************************************)
(* terminalService.js, reconcileOrphanedSessions, "left open by a previous *)
(* run": were the sweep to look before server.js listens, it would close   *)
(* the rows of sessions that are over and of no other.                     *)
(***************************************************************************)
THEOREM OnlyOrphansWhenSweptFirst ==
    Spec /\ SweepBeforeOpening => OnlyOrphansReconciled
<1>1. Init => Inv /\ SweepInv
  BY InitInv DEF Init, SweepInv
<1>2. Inv /\ SweepInv /\ [Next]_vars /\ [SweptFirst]_vars
         => (Inv /\ SweepInv)'
  BY InvStep, SweepStep
<1>3. Inv /\ SweepInv
         => [\A s \in Sessions :
                ReconcileOne(s) /\ row'[s] # row[s] => phase[s] = "over"]_vars
  BY DEF SweepInv, ReconcileOne
<1> QED
  BY <1>1, <1>2, <1>3, PTL
     DEF Spec, SweepBeforeOpening, SweptFirst, OnlyOrphansReconciled

(***************************************************************************)
(* While the account is disabled only when none of its terminals is being  *)
(* opened, none is opened later; the cascade cannot be through before it   *)
(* has emptied the hub.                                                    *)
(***************************************************************************)
NoneOpening == DisableAccount => \A s \in Sessions : phase[s] \notin Opening

CutInv ==
    /\ disabling \in {{}, {"sessions"}, DisableSteps}
    /\ active => disabling = {}
    /\ ~active => \A s \in Sessions : phase[s] \notin Opening
    /\ CutOffHasNoShell

LEMMA CutStep ==
    ASSUME Inv, CutInv, [Next]_vars, [NoneOpening]_vars
    PROVE  CutInv'
<1> USE DEF userVars, hubUnchanged
<1>1. ASSUME UNCHANGED userVars, UNCHANGED <<phase, hub>>
      PROVE  CutInv'
  BY <1>1 DEF CutInv, CutOffHasNoShell
<1>2. ASSUME UNCHANGED userVars, NEW S \in SUBSET hub, NEW final,
             HubEnd(S, final)
      PROVE  CutInv'
  <2>1. /\ hub' \subseteq hub
        /\ \A t \in Sessions : phase'[t] \in Opening => phase[t] \in Opening
    BY <1>2 DEF HubEnd, Opening
  <2> QED
    BY <1>2, <2>1 DEF CutInv, CutOffHasNoShell
<1>3. ASSUME NEW s \in Sessions, Connection(s)
      PROVE  CutInv'
  <2>1. CASE \E k \in Sockets, r \in Requests \cup {NoRequest} :
                OpenTerminal(k, s, r)
    BY <2>1 DEF OpenTerminal, CutInv, CutOffHasNoShell
  <2>2. CASE ConnectFails(s) \/ ShellFails(s) \/ CreateRow(s) \/ ShellOpens(s)
             \/ HubCreate(s)
    <3>1. phase[s] \in Opening /\ UNCHANGED userVars
      BY <2>2 DEF ConnectFails, ShellFails, CreateRow, ShellOpens, HubCreate,
                  Opening
    <3> QED
      BY <3>1 DEF CutInv, CutOffHasNoShell
  <2>3. CASE ChannelCloses(s)
    <3>1. CASE s \in hub /\ HubEnd({s}, "ENDED")
      BY <1>2, <2>3, <3>1 DEF ChannelCloses
    <3>2. CASE ~(s \in hub /\ HubEnd({s}, "ENDED"))
      BY <1>1, <2>3, <3>2 DEF ChannelCloses
    <3> QED
      BY <3>1, <3>2
  <2> QED
    BY <1>3, <2>1, <2>2, <2>3 DEF Connection
<1>4. ASSUME NEW s \in Sessions, HubStep(s)
      PROVE  CutInv'
  <2>1. CASE EndWrite(s) \/ \E k \in Sockets : Rejoin(k, s)
    BY <1>1, <2>1 DEF EndWrite, Rejoin
  <2>2. CASE DetachTimeout(s) \/ CloseOwned(s) \/ CheckExpiries(s)
    <3>1. s \in hub /\ HubEnd({s}, "ENDED") /\ UNCHANGED userVars
      BY <2>2 DEF DetachTimeout, CloseOwned, CheckExpiries, Inv, TypeOK
    <3> QED
      BY <1>2, <3>1
  <2> QED
    BY <1>4, <2>1, <2>2 DEF HubStep
<1>5. ASSUME NEW k \in Sockets, Socket(k)
      PROVE  CutInv'
  BY <1>1, <1>5 DEF Socket, Attach, SocketCloses
<1>6. ASSUME Outside
      PROVE  CutInv'
  <2>1. ASSUME NEW r \in Requests,
               Lapse(r) \/ Revoke(r) \/ MarkExpired(r) \/ FindActive(r)
        PROVE  CutInv'
    BY <1>1, <2>1 DEF Lapse, Revoke, MarkExpired, Withdraw, FindActive
  <2>2. ASSUME NEW s \in Sessions, Condemn(s) \/ MarkStale(s)
        PROVE  CutInv'
    BY <1>1, <2>2 DEF Condemn, MarkStale
  <2>3. ASSUME NEW s \in Sessions, TerminateSession(s)
        PROVE  CutInv'
    BY <1>1, <1>2, <2>3 DEF TerminateSession
  <2>4. CASE DisableAccount
    <3>1. ~active' /\ disabling' = DisableSteps /\ UNCHANGED <<phase, hub>>
      BY <2>4 DEF DisableAccount
    <3>2. \A s \in Sessions : phase[s] \notin Opening
      BY <2>4 DEF DisableAccount, NoneOpening, vars
    <3>3. DisableSteps # {}
      BY DEF DisableSteps
    <3> QED
      BY <3>1, <3>2, <3>3 DEF CutInv, CutOffHasNoShell
  <2>5. CASE DisableRequests
    <3>1. "requests" \in disabling /\ disabling' = disabling \ {"requests"}
      BY <2>5 DEF DisableRequests
    <3>2. disabling' = {"sessions"} /\ disabling # {}
      BY <3>1 DEF CutInv, DisableSteps
    <3>3. UNCHANGED <<active, phase, hub>>
      BY <2>5 DEF DisableRequests
    <3> QED
      BY <3>2, <3>3 DEF CutInv, CutOffHasNoShell
  <2>6. CASE EndAllForUser
    <3>1. /\ disabling = {"sessions"} /\ disabling' = {} /\ active' = active
          /\ hub' = {}
          /\ \A t \in Sessions : phase'[t] \in Opening => phase[t] \in Opening
      BY <2>6 DEF EndAllForUser, HubEnd, Opening
    <3> QED
      BY <3>1 DEF CutInv, CutOffHasNoShell
  <2> QED
    BY <1>6, <2>1, <2>2, <2>3, <2>4, <2>5, <2>6 DEF Outside
<1>7. ASSUME Process
      PROVE  CutInv'
  <2>1. CASE Shutdown
    BY <1>2, <2>1 DEF Shutdown
  <2>2. CASE Crash
    BY <2>2 DEF Crash, CutInv, CutOffHasNoShell, Opening
  <2>3. CASE ReconcileFind \/ \E s \in Sessions : ReconcileOne(s)
    BY <1>1, <2>3 DEF ReconcileFind, ReconcileOne
  <2> QED
    BY <1>7, <2>1, <2>2, <2>3 DEF Process
<1>8. CASE UNCHANGED vars
  BY <1>1, <1>8 DEF vars
<1> QED
  BY <1>3, <1>4, <1>5, <1>6, <1>7, <1>8 DEF Next

(***************************************************************************)
(* userService.js, "a disabled account must not keep an open shell": the   *)
(* terminal that TerminalDeadChannel lets through is being opened while    *)
(* the cascade runs; without one the cascade leaves nothing in the hub.    *)
(***************************************************************************)
THEOREM CutOffBetweenOpenings ==
    Spec /\ DisabledBetweenOpenings => []CutOffHasNoShell
<1>1. Init => Inv /\ CutInv
  BY InitInv DEF Init, CutInv, CutOffHasNoShell
<1>2. Inv /\ CutInv /\ [Next]_vars /\ [NoneOpening]_vars => (Inv /\ CutInv)'
  BY InvStep, CutStep
<1>3. CutInv => CutOffHasNoShell
  BY DEF CutInv
<1> QED
  BY <1>1, <1>2, <1>3, PTL DEF Spec, DisabledBetweenOpenings, NoneOpening
=============================================================================
