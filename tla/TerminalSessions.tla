-------------------------- MODULE TerminalSessions --------------------------
(***************************************************************************)
(* Live SSH terminals of one user: terminalService.js opens a connection   *)
(* in several awaited steps, terminalHub.js keeps the live sessions in the *)
(* memory of the process (attach, detach with a timer, end, the watcher of *)
(* access requests), sessionService.js keeps their rows, and revocation,   *)
(* expiry, account disabling, shutdown and crashes end them from outside.  *)
(*                                                                         *)
(* Clock times are abstracted: an armed timer may fire, an approved        *)
(* request may lapse, at any moment.                                       *)
(***************************************************************************)
EXTENDS Naturals, FiniteSets

CONSTANTS
    Sessions,     \* Session rows, one per terminal ever opened (a bound)
    Sockets,      \* WebSockets, one per upgrade ever accepted (a bound)
    Requests,     \* the access requests of the user
    NoRequest,    \* a Quick Connect session has none
    NoSession,    \* a socket that has not been accepted yet
    MaxCrashes    \* bound on process crashes

ASSUME TerminalAssumption ==
    /\ NoRequest \notin Requests
    /\ NoSession \notin Sessions
    /\ MaxCrashes \in Nat

VARIABLES
    active,      \* the user's account is active
    disabling,   \* steps left of revokeAllAccessFor for this user
    request,     \* AccessRequest.status, with LAPSED: APPROVED past expiresAt
    cutting,     \* requests whose endSessionsForRequest has still to look
    condemned,   \* sessions found by it, still to be terminated
    phase,       \* where runSsh2Session is for the session
    reqOf,       \* Session.accessRequestId
    row,         \* Session.status, "NONE" for a row not yet created
    channel,     \* whether the ssh2 channel of the session is open
    hub,         \* the keys of the hub's map `sessions`
    attached,    \* rec.sockets of a hub session
    timer,       \* hub sessions whose rec.detachTimer is armed
    ending,      \* status that an `end` under way will write, or "no"
    target,      \* the session a socket opens or joins
    open,        \* sockets whose connection is up
    joining,     \* sockets on their way to hub.attach
    stopping,    \* graceful shutdown has begun
    reconcile,   \* the boot sweep: "todo" until it has looked
    orphans,     \* rows it found ACTIVE and has still to look at
    crashes      \* counter for MaxCrashes

requestVars == <<request, cutting, condemned>>
socketVars == <<target, open, joining>>
bootVars == <<stopping, reconcile, orphans, crashes>>
userVars == <<active, disabling>>
vars == <<userVars, requestVars, phase, reqOf, row, channel, hub, attached,
          timer, ending, socketVars, bootVars>>

RowStatuses == {"NONE", "ACTIVE", "ENDED", "TERMINATED"}
Phases == {"unused", "checked", "row", "shell", "live", "over"}
RequestStatuses == {"APPROVED", "LAPSED", "EXPIRED", "REVOKED"}
DisableSteps == {"requests", "sessions"}

\* Every variable holds what the column or the field behind it may hold.
TypeOK ==
    /\ active \in BOOLEAN /\ disabling \subseteq DisableSteps
    /\ request \in [Requests -> RequestStatuses]
    /\ cutting \subseteq Requests /\ condemned \subseteq Sessions
    /\ phase \in [Sessions -> Phases]
    /\ reqOf \in [Sessions -> Requests \cup {NoRequest}]
    /\ row \in [Sessions -> RowStatuses]
    /\ channel \in [Sessions -> BOOLEAN]
    /\ hub \subseteq Sessions /\ timer \subseteq hub
    /\ attached \in [Sessions -> SUBSET Sockets]
    /\ ending \in [Sessions -> {"no", "ENDED", "TERMINATED"}]
    /\ target \in [Sockets -> Sessions \cup {NoSession}]
    /\ open \subseteq Sockets /\ joining \subseteq Sockets
    /\ stopping \in BOOLEAN /\ reconcile \in {"todo", "done"}
    /\ orphans \subseteq Sessions /\ crashes \in 0..MaxCrashes

Init ==
    /\ active = TRUE /\ disabling = {}
    /\ request = [r \in Requests |-> "APPROVED"]
    /\ cutting = {} /\ condemned = {}
    /\ phase = [s \in Sessions |-> "unused"]
    /\ reqOf = [s \in Sessions |-> NoRequest]
    /\ row = [s \in Sessions |-> "NONE"]
    /\ channel = [s \in Sessions |-> FALSE]
    /\ hub = {} /\ timer = {}
    /\ attached = [s \in Sessions |-> {}]
    /\ ending = [s \in Sessions |-> "no"]
    /\ target = [k \in Sockets |-> NoSession]
    /\ open = {} /\ joining = {}
    /\ stopping = FALSE /\ reconcile = "done"
    /\ orphans = {} /\ crashes = 0

-----------------------------------------------------------------------------
(***************************************************************************)
(* hub.end: the synchronous part takes the sessions out of the map, clears *)
(* their timers, closes their sockets and channels; the row is written     *)
(* later, after the recording is uploaded (EndWrite).  Reasons terminated  *)
(* and error give TERMINATED, every other reason ENDED.                    *)
(***************************************************************************)
\* Mutant: ending a session forgets its detach timer.
TimersLeftArmed(S) == timer

TimersLeft(S) == timer \ S

HubEnd(S, final) ==
    LET gone == UNION {attached[s] : s \in S} IN
    /\ hub' = hub \ S
    /\ timer' = TimersLeft(S)
    /\ open' = open \ gone
    /\ attached' = [s \in Sessions |-> IF s \in S THEN {} ELSE attached[s]]
    /\ channel' = [s \in Sessions |-> s \notin S /\ channel[s]]
    /\ phase' = [s \in Sessions |-> IF s \in S THEN "over" ELSE phase[s]]
    /\ ending' = [s \in Sessions |-> IF s \in S THEN final ELSE ending[s]]

hubUnchanged == UNCHANGED <<phase, channel, hub, attached, timer, ending>>

\* sessionService.end and terminate: every caller catches and logs a failure.
RowWritten(s, final) == row' \in {row, [row EXCEPT ![s] = final]}

EndWrite(s) ==
    /\ ending[s] # "no"
    /\ RowWritten(s, ending[s])
    /\ ending' = [ending EXCEPT ![s] = "no"]
    /\ UNCHANGED <<userVars, requestVars, phase, reqOf, channel, hub, attached,
                   timer, socketVars, bootVars>>

(***************************************************************************)
(* handleConnection and runSsh2Session.  The account and the request are   *)
(* checked first; connecting, creating the row, opening the shell and      *)
(* opening the recording are awaited; the socket's close listener is wired *)
(* only at the end, together with hub.create.                              *)
(***************************************************************************)
Fresh(k) == target[k] = NoSession

OpenTerminal(k, s, r) ==
    /\ Fresh(k) /\ phase[s] = "unused" /\ active
    /\ r # NoRequest => request[r] = "APPROVED"
    /\ target' = [target EXCEPT ![k] = s]
    /\ open' = open \cup {k}
    /\ phase' = [phase EXCEPT ![s] = "checked"]
    /\ reqOf' = [reqOf EXCEPT ![s] = r]
    /\ UNCHANGED <<userVars, requestVars, row, channel, hub, attached, timer,
                   ending, joining, bootVars>>

CloseOpener(s) == open' = {k \in open : target[k] # s \/ k \in joining}

ConnectFails(s) ==
    /\ phase[s] = "checked"
    /\ phase' = [phase EXCEPT ![s] = "over"]
    /\ CloseOpener(s)
    /\ UNCHANGED <<userVars, requestVars, reqOf, row, channel, hub, attached,
                   timer, ending, target, joining, bootVars>>

CreateRow(s) ==
    /\ phase[s] = "checked"
    /\ phase' = [phase EXCEPT ![s] = "row"]
    /\ row' = [row EXCEPT ![s] = "ACTIVE"]
    /\ channel' = [channel EXCEPT ![s] = TRUE]
    /\ UNCHANGED <<userVars, requestVars, reqOf, hub, attached, timer, ending,
                   socketVars, bootVars>>

\* shell() reports an error, or the client closes before its callback: the row
\* is closed.  Or the client closed while the row was being created, before its
\* listener was wired: then shell() throws, handleConnection's catch closes the
\* socket, and nothing closes the row.
ShellFails(s) ==
    /\ phase[s] = "row"
    /\ phase' = [phase EXCEPT ![s] = "over"]
    /\ channel' = [channel EXCEPT ![s] = FALSE]
    /\ \E final \in {"TERMINATED", "no"} : ending' = [ending EXCEPT ![s] = final]
    /\ CloseOpener(s)
    /\ UNCHANGED <<userVars, requestVars, reqOf, row, hub, attached, timer,
                   target, joining, bootVars>>

\* shellStarted = true; the recording is being opened.
ShellOpens(s) ==
    /\ phase[s] = "row"
    /\ phase' = [phase EXCEPT ![s] = "shell"]
    /\ UNCHANGED <<userVars, requestVars, reqOf, row, channel, hub, attached,
                   timer, ending, socketVars, bootVars>>

\* hub.create, hub.addSocket and wireAttachedSocket, without an await.
HubCreate(s) ==
    /\ phase[s] = "shell"
    /\ phase' = [phase EXCEPT ![s] = "live"]
    /\ hub' = hub \cup {s}
    /\ attached' = [attached EXCEPT ![s] =
                       {k \in Sockets : target[k] = s /\ k \notin joining}]
    /\ UNCHANGED <<userVars, requestVars, reqOf, row, channel, timer, ending,
                   socketVars, bootVars>>

(***************************************************************************)
(* The far end or the network closes the channel.  Only the listeners that *)
(* hub.create wires end the session; the pre-shell listener is a no-op     *)
(* from the moment shellStarted is set.                                    *)
(***************************************************************************)
ChannelCloses(s) ==
    /\ channel[s]
    /\ \/ /\ s \in hub
          /\ HubEnd({s}, "ENDED")
       \/ /\ phase[s] = "shell"
          /\ channel' = [channel EXCEPT ![s] = FALSE]
          /\ UNCHANGED <<hub, timer, open, attached, phase, ending>>
    /\ UNCHANGED <<userVars, requestVars, reqOf, row, target, joining,
                   bootVars>>

(***************************************************************************)
(* Reattaching: the ticket and the account are looked up, then hub.attach  *)
(* joins the session if it is still there; otherwise the socket is closed. *)
(***************************************************************************)
Rejoin(k, s) ==
    /\ Fresh(k) /\ phase[s] \in {"live", "over"} /\ active
    /\ target' = [target EXCEPT ![k] = s]
    /\ open' = open \cup {k}
    /\ joining' = joining \cup {k}
    /\ hubUnchanged
    /\ UNCHANGED <<userVars, requestVars, reqOf, row, bootVars>>

\* Mutant: a reattach forgets to clear the detach timer.
TimerKept(s) == timer

TimerCleared(s) == timer \ {s}

\* Mutant: a refused reattach leaves its socket open.
RefusedKept(k) == open

Refused(k) == open \ {k}

Attach(k) ==
    /\ k \in joining
    /\ joining' = joining \ {k}
    /\ LET s == target[k] IN
          IF s \in hub
          THEN /\ attached' = [attached EXCEPT ![s] = @ \cup {k}]
               /\ timer' = TimerCleared(s)
               /\ UNCHANGED open
          ELSE /\ open' = Refused(k)
               /\ UNCHANGED <<attached, timer>>
    /\ UNCHANGED <<userVars, requestVars, phase, reqOf, row, channel, hub,
                   ending, target, bootVars>>

(***************************************************************************)
(* A socket drops.  Where its listener is wired the hub detaches it, and   *)
(* arms the timer when it was the last one; a socket still connecting has  *)
(* no listener, so its close goes unnoticed.                               *)
(***************************************************************************)
SocketCloses(k) ==
    /\ k \in open
    /\ open' = open \ {k}
    /\ LET s == target[k] IN
          IF s \in hub /\ k \in attached[s]
          THEN /\ attached' = [attached EXCEPT ![s] = @ \ {k}]
               /\ timer' = IF attached[s] = {k} THEN timer \cup {s} ELSE timer
          ELSE UNCHANGED <<attached, timer>>
    /\ UNCHANGED <<userVars, requestVars, phase, reqOf, row, channel, hub,
                   ending, target, joining, bootVars>>

DetachTimeout(s) ==
    /\ s \in timer
    /\ HubEnd({s}, "ENDED")
    /\ UNCHANGED <<userVars, requestVars, reqOf, row, target, joining,
                   bootVars>>

\* The close frame, or POST /terminal/sessions/:id/close.
CloseOwned(s) ==
    /\ s \in hub
    /\ HubEnd({s}, "ENDED")
    /\ UNCHANGED <<userVars, requestVars, reqOf, row, target, joining,
                   bootVars>>

(***************************************************************************)
(* checkExpiries, every 30 s: end the sessions whose request has lapsed    *)
(* (from the cached expiry time) or is revoked or expired in the database. *)
(***************************************************************************)
\* Mutant: only the cached expiry time is looked at, not the status.
LapsedOnly(r) == request[r] = "LAPSED"

NoLongerValid(r) == request[r] \in {"LAPSED", "EXPIRED", "REVOKED"}

CheckExpiries(s) ==
    /\ ~stopping
    /\ s \in hub /\ reqOf[s] # NoRequest
    /\ NoLongerValid(reqOf[s])
    /\ HubEnd({s}, "ENDED")
    /\ UNCHANGED <<userVars, requestVars, reqOf, row, target, joining,
                   bootVars>>

-----------------------------------------------------------------------------
(***************************************************************************)
(* What happens to the request elsewhere, each change being followed by    *)
(* endSessionsForRequest: terminateActiveSessionsFor looks for ACTIVE rows *)
(* and terminates each in turn, through the hub if the session is there,   *)
(* else in the database only.                                              *)
(***************************************************************************)
Lapse(r) ==
    /\ request[r] = "APPROVED"
    /\ request' = [request EXCEPT ![r] = "LAPSED"]
    /\ hubUnchanged
    /\ UNCHANGED <<userVars, cutting, condemned, reqOf, row, socketVars,
                   bootVars>>

Withdraw(r, from, to) ==
    /\ request[r] \in from
    /\ request' = [request EXCEPT ![r] = to]
    /\ cutting' = cutting \cup {r}
    /\ hubUnchanged
    /\ UNCHANGED <<userVars, condemned, reqOf, row, socketVars, bootVars>>

Revoke(r) == Withdraw(r, {"APPROVED", "LAPSED", "EXPIRED"}, "REVOKED")

MarkExpired(r) == Withdraw(r, {"LAPSED"}, "EXPIRED")

\* A look-up that throws finds nothing, and only a log line says so.
FindActive(r) ==
    /\ r \in cutting
    /\ cutting' = cutting \ {r}
    /\ LET found == {s \in Sessions : row[s] = "ACTIVE" /\ reqOf[s] = r} IN
          condemned' \in {condemned, condemned \cup found}
    /\ hubUnchanged
    /\ UNCHANGED <<userVars, request, reqOf, row, socketVars, bootVars>>

\* POST /sessions/:id/terminate by an administrator starts here as well.
Condemn(s) ==
    /\ row[s] = "ACTIVE" /\ s \notin condemned
    /\ condemned' = condemned \cup {s}
    /\ hubUnchanged
    /\ UNCHANGED <<userVars, request, cutting, reqOf, row, socketVars,
                   bootVars>>

TerminateSession(s) ==
    /\ s \in condemned
    /\ condemned' = condemned \ {s}
    /\ IF s \in hub
       THEN HubEnd({s}, "TERMINATED") /\ UNCHANGED row
       ELSE /\ IF row[s] = "ACTIVE" THEN RowWritten(s, "TERMINATED")
               ELSE UNCHANGED row
            /\ hubUnchanged
            /\ UNCHANGED open
    /\ UNCHANGED <<userVars, request, cutting, reqOf, target, joining,
                   bootVars>>

(***************************************************************************)
(* Disabling the account: revokeAllAccessFor revokes the requests, then    *)
(* endAllForUser ends whatever is in the hub.                              *)
(***************************************************************************)
DisableAccount ==
    /\ active
    /\ active' = FALSE
    /\ disabling' = DisableSteps
    /\ hubUnchanged
    /\ UNCHANGED <<requestVars, reqOf, row, socketVars, bootVars>>

DisableRequests ==
    /\ "requests" \in disabling
    /\ disabling' = disabling \ {"requests"}
    /\ request' = [r \in Requests |->
                      IF request[r] \in {"APPROVED", "LAPSED"} THEN "REVOKED"
                      ELSE request[r]]
    /\ hubUnchanged
    /\ UNCHANGED <<active, cutting, condemned, reqOf, row, socketVars,
                   bootVars>>

EndAllForUser ==
    /\ disabling = {"sessions"}
    /\ disabling' = {}
    /\ HubEnd(hub, "ENDED")
    /\ UNCHANGED <<active, requestVars, reqOf, row, target, joining, bootVars>>

-----------------------------------------------------------------------------
(***************************************************************************)
(* The process.  A shutdown stops the watcher and ends every hub session;  *)
(* it, or a crash, then loses everything that was only in memory.  At the  *)
(* next start reconcileOrphanedSessions looks for ACTIVE rows and closes   *)
(* those that are not in the hub, while connections are already accepted.  *)
(***************************************************************************)
Shutdown ==
    /\ ~stopping /\ crashes < MaxCrashes
    /\ stopping' = TRUE
    /\ HubEnd(hub, "ENDED")
    /\ UNCHANGED <<userVars, requestVars, reqOf, row, target, joining,
                   reconcile, orphans, crashes>>

Crash ==
    /\ crashes < MaxCrashes
    /\ crashes' = crashes + 1
    /\ stopping' = FALSE
    /\ hub' = {} /\ timer' = {} /\ open' = {} /\ joining' = {}
    /\ attached' = [s \in Sessions |-> {}]
    /\ channel' = [s \in Sessions |-> FALSE]
    /\ ending' = [s \in Sessions |-> "no"]
    /\ phase' = [s \in Sessions |->
                    IF phase[s] = "unused" THEN "unused" ELSE "over"]
    /\ cutting' = {} /\ condemned' = {} /\ disabling' = {}
    /\ reconcile' = "todo" /\ orphans' = {}
    /\ UNCHANGED <<active, request, reqOf, row, target>>

ReconcileFind ==
    /\ reconcile = "todo"
    /\ reconcile' = "done"
    /\ orphans' = {s \in Sessions : row[s] = "ACTIVE"}
    /\ hubUnchanged
    /\ UNCHANGED <<userVars, requestVars, reqOf, row, socketVars, stopping,
                   crashes>>

ReconcileOne(s) ==
    /\ s \in orphans
    /\ orphans' = orphans \ {s}
    /\ IF s \notin hub THEN RowWritten(s, "ENDED") ELSE UNCHANGED row
    /\ hubUnchanged
    /\ UNCHANGED <<userVars, requestVars, reqOf, socketVars, stopping,
                   reconcile, crashes>>

(***************************************************************************)
(* sessionCleanup, every hour: an ACTIVE row older than 24 h is closed,    *)
(* its terminal live or not.  A write that fails is tried again by the     *)
(* next run, which finds the row again.                                    *)
(***************************************************************************)
\* Mutant: the job goes by the live sessions instead of by the rows.
StaleInHub(s) == row[s] = "ACTIVE" /\ s \in hub

IsStale(s) == row[s] = "ACTIVE"

MarkStale(s) ==
    /\ IsStale(s)
    /\ row' = [row EXCEPT ![s] = "ENDED"]
    /\ hubUnchanged
    /\ UNCHANGED <<userVars, requestVars, reqOf, socketVars, bootVars>>

-----------------------------------------------------------------------------
Connection(s) ==
    \/ \E k \in Sockets, r \in Requests \cup {NoRequest} :
          OpenTerminal(k, s, r)
    \/ ConnectFails(s) \/ CreateRow(s) \/ ShellFails(s) \/ ShellOpens(s)
    \/ HubCreate(s) \/ ChannelCloses(s)

HubStep(s) ==
    \/ EndWrite(s) \/ DetachTimeout(s) \/ CloseOwned(s) \/ CheckExpiries(s)
    \/ \E k \in Sockets : Rejoin(k, s)

Socket(k) == Attach(k) \/ SocketCloses(k)

Outside ==
    \/ \E r \in Requests : Lapse(r) \/ Revoke(r) \/ MarkExpired(r)
                           \/ FindActive(r)
    \/ \E s \in Sessions : Condemn(s) \/ TerminateSession(s) \/ MarkStale(s)
    \/ DisableAccount \/ DisableRequests \/ EndAllForUser

Process ==
    \/ Shutdown \/ Crash \/ ReconcileFind
    \/ \E s \in Sessions : ReconcileOne(s)

Next ==
    \/ \E s \in Sessions : Connection(s) \/ HubStep(s)
    \/ \E k \in Sockets : Socket(k)
    \/ Outside
    \/ Process

Spec == Init /\ [][Next]_vars

(***************************************************************************)
(* Fairness: a connection attempt comes to an end one way or the other,    *)
(* timers and the 30 s watcher fire, the writes and sweeps under way are   *)
(* carried out or fail, a shutdown leads to the exit (at the latest by the *)
(* forced exit after 10 s).  BullMQ repeats the clean-up job every hour;   *)
(* its write of a row does not fail for ever.  Users, administrators and   *)
(* the network are under no obligation to act.                             *)
(***************************************************************************)
Fairness ==
    /\ \A s \in Sessions :
          /\ WF_vars(ConnectFails(s) \/ CreateRow(s))
          /\ WF_vars(ShellFails(s) \/ ShellOpens(s))
          /\ WF_vars(HubCreate(s))
          /\ WF_vars(EndWrite(s))
          /\ WF_vars(DetachTimeout(s))
          /\ WF_vars(CheckExpiries(s))
          /\ WF_vars(TerminateSession(s))
          /\ WF_vars(ReconcileOne(s))
          /\ WF_vars(MarkStale(s))
    /\ \A k \in Sockets : WF_vars(Attach(k))
    /\ \A r \in Requests : WF_vars(FindActive(r))
    /\ WF_vars(DisableRequests) /\ WF_vars(EndAllForUser)
    /\ WF_vars(ReconcileFind)
    /\ WF_vars(stopping /\ Crash)

FairSpec == Spec /\ Fairness

-----------------------------------------------------------------------------
(***************************************************************************)
(* The detach timer runs exactly while a live session has no socket: the   *)
(* last detach arms it, a reattach cancels it, and no timer survives its   *)
(* session.                                                                *)
(***************************************************************************)
TimerIffDetached == \A s \in hub : s \in timer <=> attached[s] = {}

(***************************************************************************)
(* A session that has ended holds nothing any more: no channel to the host *)
(* and no socket that is still open, except one on its way to a reattach   *)
(* that will be refused.                                                   *)
(***************************************************************************)
EndedHoldsNothing ==
    \A s \in Sessions : phase[s] = "over" =>
        /\ ~channel[s] /\ s \notin hub /\ attached[s] = {}
        /\ \A k \in open : target[k] = s => k \in joining

(***************************************************************************)
(* Once a request is revoked its terminals end for good: sessions in the   *)
(* hub, and those still connecting when the revocation looked for them.    *)
(***************************************************************************)
RevokedStaysClosed ==
    \A r \in Requests :
        <>(request[r] = "REVOKED")
            => <>[](\A s \in Sessions : reqOf[s] = r => s \notin hub)

(***************************************************************************)
(* A session that is over does not stay ACTIVE in the database for good,   *)
(* whatever became of the writes that should have recorded its end: not    *)
(* made because shell() threw, failed and only logged, lost with the       *)
(* process, missed or failed again in the boot sweep.                      *)
(***************************************************************************)
OverIsRecorded ==
    \A s \in Sessions : phase[s] = "over" ~> row[s] # "ACTIVE"

(***************************************************************************)
(* userService.js: "a disabled account must not keep an open shell".       *)
(***************************************************************************)
DisabledHasNoShell == ~active ~> hub = {}

(***************************************************************************)
(* terminalService.js: once the shell callback has fired, the hub owns     *)
(* ending the session; so a session whose channel is closed ends.          *)
(***************************************************************************)
DeadChannelEnds ==
    \A s \in Sessions : (s \in hub /\ ~channel[s]) ~> s \notin hub

(***************************************************************************)
(* hub.create takes over a session whose channel is up, and every later    *)
(* close of it is heard: the hub holds no session with a dead channel.     *)
(***************************************************************************)
HubHasChannels == \A s \in hub : channel[s]

(***************************************************************************)
(* docs/terminal-workspace.md: a socket drop is a detach, and with the     *)
(* last one the timer starts; so a session nobody is connected to has it   *)
(* running.                                                                *)
(***************************************************************************)
UnattendedIsTimed ==
    \A s \in hub : attached[s] \cap open = {} => s \in timer

(***************************************************************************)
(* reconcileOrphanedSessions closes rows of "sessions that can no longer   *)
(* exist", never one that is being opened in this run.                     *)
(***************************************************************************)
OnlyOrphansReconciled ==
    [][\A s \in Sessions :
          ReconcileOne(s) /\ row'[s] # row[s] => phase[s] = "over"]_vars

(***************************************************************************)
(* revokeAllAccessFor together with endAllForUser: once the cascade of a   *)
(* disabled account is through, the hub holds nothing of that user.        *)
(***************************************************************************)
CutOffHasNoShell == ~active /\ disabling = {} => hub = {}

-----------------------------------------------------------------------------
(***************************************************************************)
(* Orders of events that nothing in the code rules out, each the negation  *)
(* of one overlap; TerminalSessions_proofs takes them as hypotheses.       *)
(***************************************************************************)
\* A session that runSsh2Session is still setting up.
Opening == {"checked", "row", "shell"}

\* No socket drops before its close listener is wired.
DropsAreHeard ==
    [][\A k \in Sockets :
          SocketCloses(k) => \E s \in hub : k \in attached[s]]_vars

\* The channel does not close between the shell callback and hub.create.
ClosesAreHeard == [][\A s \in Sessions : ChannelCloses(s) => s \in hub]_vars

\* server.js would look for orphans before it listens, not after.
SweepBeforeOpening ==
    [][\A s \in Sessions, k \in Sockets, r \in Requests \cup {NoRequest} :
          OpenTerminal(k, s, r) => reconcile = "done"]_vars

\* No terminal of the user is being opened when the account is disabled.
DisabledBetweenOpenings ==
    [][DisableAccount => \A s \in Sessions : phase[s] \notin Opening]_vars
=============================================================================
