---------------------------- MODULE BrowserOwner ----------------------------
(***************************************************************************)
(* The long-lived owner of a marketplace's browser window: the process of  *)
(* scripts/run_ebay_owner.py, which answers on a Unix socket, one request  *)
(* at a time; scripts/ensure_ebay_owner.py, which starts it or finds it    *)
(* answering, under a lock of its own; and the refresh, which asks for it, *)
(* has pages read through it, and asks it to close the window at the end.  *)
(* The scripts of Buyee's owner are the same but for the jobs.             *)
(*                                                                         *)
(* A client that stops waiting leaves its request behind in the backlog    *)
(* of the socket.  An owner removes the socket's file when it ends, and so *)
(* does whoever takes the file for stale, whoever's the file is.           *)
(***************************************************************************)
EXTENDS Integers, Sequences

CONSTANTS
  MaxRefreshes,  \* bound: refreshes ever run, each starts one owner at most
  Backlog,       \* connections the socket holds that nobody has accepted
  MaxTries,      \* OWNER_SOCKET_RECOVERY_RETRIES + 1
  MaxFaults      \* bound: processes that die, signals, closed windows, slow starts

ASSUME OwnerAssumption ==
  /\ {MaxRefreshes, MaxFaults} \subseteq Nat
  /\ {Backlog, MaxTries} \subseteq Nat \ {0}

Refresh == 1 .. MaxRefreshes

\* The owner that refresh r starts is owner r; neither is 0.
Owner == Refresh
Nobody == 0

\* A connection; from nobody when its client has stopped waiting.  A probe sends nothing.
Request == [from : Refresh \cup {Nobody}, what : {"health", "probe", "job", "shutdown"}]

Ensuring == {"ensure", "first", "probe", "remove", "spawn", "wait"}
Holding == Ensuring \ {"ensure"}

NoOwner == [at |-> "none", stop |-> FALSE, window |-> FALSE, busy |-> FALSE, queue |-> <<>>]
GoneOwner == [NoOwner EXCEPT !.at = "gone"]
NoRun == [at |-> "new", asked |-> FALSE, main |-> FALSE, tries |-> 0, saw |-> "nothing"]
RunOver == [NoRun EXCEPT !.at = "over"]

VARIABLES
  sock,     \* whose socket is at the path, Nobody if there is no file
  owner,    \* each owner: a job is at the head of its queue while it is busy
  run,      \* each refresh, and the ensure script it runs; main: it holds its own lock
  left,     \* owners that nobody waits for any more, though they had not answered yet
  faults

ownerVars == <<sock, owner, run, left, faults>>

OwnerTypeOK ==
  /\ sock \in Owner \cup {Nobody}
  /\ owner \in [Owner -> [at : {"none", "starting", "launching", "serving", "closing", "gone"},
                          stop : BOOLEAN, window : BOOLEAN, busy : BOOLEAN, queue : Seq(Request)]]
  /\ run \in [Refresh -> [at : Ensuring \cup {"new", "ready", "job", "read", "close", "over"},
                          asked : BOOLEAN, main : BOOLEAN, tries : 0 .. MaxTries - 1,
                          saw : {"nothing", "absent", "refused", "full"}]]
  /\ left \subseteq Owner
  /\ faults \in 0 .. MaxFaults

OwnerInit ==
  /\ sock = Nobody
  /\ owner = [o \in Owner |-> NoOwner]
  /\ run = [r \in Refresh |-> NoRun]
  /\ left = {}
  /\ faults = 0

Fault == faults < MaxFaults /\ faults' = faults + 1

-----------------------------------------------------------------------------
(* The socket *)

Listening == sock # Nobody /\ owner[sock].at = "serving"

\* Connections that wait to be accepted
Pending(o) == Len(owner[o].queue) - (IF owner[o].busy THEN 1 ELSE 0)

Connects == Listening /\ Pending(sock) < Backlog

\* Whoever asked now would be answered at once.
Answering == Listening /\ owner[sock].queue = <<>> /\ ~owner[sock].stop

Send(from, what) ==
  owner' = [owner EXCEPT ![sock].queue = Append(@, [from |-> from, what |-> what])]

InLine(r, o) == \E i \in DOMAIN owner[o].queue : owner[o].queue[i].from = r

\* The client closes its connection; what it sent stays.
HangUp(r) ==
  owner' = [o \in Owner |-> [owner[o] EXCEPT !.queue =
              [i \in DOMAIN @ |-> IF @[i].from = r THEN [@[i] EXCEPT !.from = Nobody] ELSE @[i]]]]

-----------------------------------------------------------------------------
(* A refresh *)

\* r goes on to at.  An ensure script whose refresh is gone has nobody to report to.
Moved(r, at) ==
  [run EXCEPT ![r] = IF at = "over" \/ (at = "ready" /\ ~run[r].main)
                     THEN RunOver
                     ELSE [@ EXCEPT !.at = at, !.asked = FALSE]]

\* Where an answer leads to, and an error, a timeout or a closed connection
Onward == [first |-> "ready", wait |-> "ready", job |-> "read", close |-> "over"]
Otherwise == [first |-> "probe", wait |-> "wait", job |-> "read", close |-> "over"]

\* The refresh takes its lock, and asks for an owner.
Start(r) ==
  /\ run[r].at = "new" /\ \A q \in Refresh : ~run[q].main /\ (q < r => run[q].at # "new")
  /\ run' = [run EXCEPT ![r].at = "ensure", ![r].main = TRUE]
  /\ UNCHANGED <<sock, owner, left, faults>>

\* The slip: a lock that several may share.
TakeLock_Shared(r) ==
  /\ run[r].at = "ensure"
  /\ run' = [run EXCEPT ![r].at = "first"]
  /\ UNCHANGED <<sock, owner, left, faults>>

TakeLock(r) ==
  /\ run[r].at = "ensure" /\ \A q \in Refresh : run[q].at \notin Holding
  /\ run' = [run EXCEPT ![r].at = "first"]
  /\ UNCHANGED <<sock, owner, left, faults>>

\* owner_health, for one second; who waits for a starting owner polls.
AskHealth(r) ==
  /\ run[r].at \in {"first", "wait"} /\ ~run[r].asked
  /\ \/ /\ Connects
        /\ Send(r, "health")
        /\ run' = [run EXCEPT ![r].asked = TRUE]
     \/ /\ ~Connects
        /\ run' = IF run[r].at = "first" THEN Moved(r, "probe") ELSE run
        /\ UNCHANGED owner
  /\ UNCHANGED <<sock, left, faults>>

\* socket_is_connectable: somebody listens, so that main tries again later, or the
\* socket is taken for stale.
Probe(r) ==
  /\ run[r].at = "probe"
  /\ \/ /\ Connects
        /\ Send(Nobody, "probe")
        /\ run' = IF run[r].tries + 1 < MaxTries
                  THEN [Moved(r, "ensure") EXCEPT ![r].tries = @ + 1]
                  ELSE Moved(r, "over")
     \/ /\ ~Connects
        /\ run' = [run EXCEPT ![r].at = "remove",
                     ![r].saw = IF sock = Nobody THEN "absent"
                                ELSE IF Listening THEN "full" ELSE "refused"]
        /\ UNCHANGED owner
  /\ UNCHANGED <<sock, left, faults>>

Remove(r) ==
  /\ run[r].at = "remove"
  /\ sock' = Nobody
  /\ run' = [run EXCEPT ![r] = [@ EXCEPT !.at = "spawn", !.tries = 0, !.saw = "nothing"]]
  /\ UNCHANGED <<owner, left, faults>>

Spawn(r) ==
  /\ run[r].at = "spawn"
  /\ owner' = [owner EXCEPT ![r].at = "starting", ![r].window = TRUE]
  /\ run' = [run EXCEPT ![r].at = "wait"]
  /\ UNCHANGED <<sock, left, faults>>

\* The slip: only the exit of the owner ends the waiting.
GiveUp_Waits(r) ==
  /\ run[r].at = "wait" /\ ~run[r].asked /\ ~Answering
  /\ owner[r].at = "gone"
  /\ UNCHANGED faults
  /\ run' = Moved(r, "over")
  /\ left' = left \cup {r}
  /\ UNCHANGED <<sock, owner>>

\* The owner has exited, or the sixty seconds are over; an owner that is still
\* launching then is slow.
GiveUp(r) ==
  /\ run[r].at = "wait" /\ ~run[r].asked /\ ~Answering
  /\ IF owner[r].at \in {"starting", "launching"} THEN Fault ELSE UNCHANGED faults
  /\ run' = Moved(r, "over")
  /\ left' = left \cup {r}
  /\ UNCHANGED <<sock, owner>>

\* No answer in time, for the owner is at a job
TimesOut(r) ==
  /\ run[r].asked /\ \E o \in Owner : owner[o].busy /\ InLine(r, o)
  /\ HangUp(r)
  /\ run' = Moved(r, Otherwise[run[r].at])
  /\ UNCHANGED <<sock, left, faults>>

\* The owner has ended with the request in its backlog, or at it.
Broken(r) ==
  /\ run[r].asked /\ \A o \in Owner : ~InLine(r, o)
  /\ run' = Moved(r, Otherwise[run[r].at])
  /\ UNCHANGED <<sock, owner, left, faults>>

\* A page is read through the owner; one stands for all.
AskJob(r) ==
  /\ run[r].at = "ready" /\ Connects
  /\ Send(r, "job")
  /\ run' = [run EXCEPT ![r].at = "job", ![r].asked = TRUE]
  /\ UNCHANGED <<sock, left, faults>>

\* close_marketplace_browsers
CloseBrowser(r) ==
  /\ run[r].at \in {"ready", "read"} /\ Connects
  /\ Send(r, "shutdown")
  /\ run' = [run EXCEPT ![r].at = "close", ![r].asked = TRUE]
  /\ UNCHANGED <<sock, left, faults>>

\* The refresh ends without asking, after an exception or while a sign-in is
\* required; or nobody answers when it asks.
End(r) ==
  /\ run[r].at \in {"ready", "read"}
  /\ run' = Moved(r, "over")
  /\ UNCHANGED <<sock, owner, left, faults>>

\* A refresh is killed, together with its ensure script or without it.
KillRefresh(r) ==
  /\ run[r].main /\ Fault
  /\ \/ /\ run' = Moved(r, "over")
        /\ HangUp(r)
        /\ left' = IF run[r].at = "wait" THEN left \cup {r} ELSE left
     \/ /\ run[r].at \in Ensuring
        /\ run' = [run EXCEPT ![r].main = FALSE]
        /\ UNCHANGED <<owner, left>>
  /\ UNCHANGED sock

-----------------------------------------------------------------------------
(* An owner *)

\* main refuses a path that is taken.
Check(o) ==
  /\ owner[o].at = "starting"
  /\ owner' = [owner EXCEPT ![o] = IF sock = Nobody THEN [@ EXCEPT !.at = "launching"]
                                                   ELSE GoneOwner]
  /\ UNCHANGED <<sock, run, left, faults>>

\* The window is open.  The server binds the path, or finds it taken after all.
Bind(o) ==
  /\ owner[o].at = "launching"
  /\ IF sock = Nobody
     THEN sock' = o /\ owner' = [owner EXCEPT ![o].at = "serving"]
     ELSE owner' = [owner EXCEPT ![o].at = "closing"] /\ UNCHANGED sock
  /\ UNCHANGED <<run, left, faults>>

\* The client of request q, if one still waits, has the answer of o.  A script that waits
\* for its own owner takes the answer of any.
Reply(o, q, good) ==
  IF q.from = Nobody THEN UNCHANGED <<run, left>>
  ELSE LET r == q.from
       IN  /\ run' = Moved(r, IF good THEN Onward[run[r].at] ELSE Otherwise[run[r].at])
           /\ left' = IF good /\ run[r].at = "wait" /\ r # o THEN left \cup {r} ELSE left

\* handle_request, until a job
Accept(o) ==
  /\ owner[o].at = "serving" /\ ~owner[o].stop /\ ~owner[o].busy /\ owner[o].queue # <<>>
  /\ LET q == Head(owner[o].queue)
         lost == q.what \in {"health", "job"} /\ ~owner[o].window
     IN  \/ /\ q.what # "job" \/ lost
            /\ Reply(o, q, ~lost)
            /\ owner' = [owner EXCEPT ![o].queue = Tail(@),
                                     ![o].stop = lost \/ q.what = "shutdown"]
         \/ /\ q.what = "job" /\ ~lost
            /\ owner' = [owner EXCEPT ![o].busy = TRUE]
            /\ UNCHANGED <<run, left>>
  /\ UNCHANGED <<sock, faults>>

FinishJob(o) ==
  /\ owner[o].busy
  /\ \E good \in BOOLEAN : Reply(o, Head(owner[o].queue), good)
  /\ owner' = [owner EXCEPT ![o].queue = Tail(@), ![o].busy = FALSE]
  /\ UNCHANGED <<sock, faults>>

\* The server is closed, with the connections it has not accepted.
CloseServer(o) ==
  /\ owner[o].at = "serving" /\ owner[o].stop /\ ~owner[o].busy
  /\ owner' = [owner EXCEPT ![o] = [@ EXCEPT !.at = "closing", !.queue = <<>>]]
  /\ UNCHANGED <<sock, run, left, faults>>

\* The window is closed, then the path is removed.
Cleanup(o) ==
  /\ owner[o].at = "closing"
  /\ owner' = [owner EXCEPT ![o] = GoneOwner]
  /\ sock' = Nobody
  /\ UNCHANGED <<run, left, faults>>

\* A signal, an operator who closes the window (which the owner notices when it is next
\* asked), or the end of the process, by a failed launch for one.
OwnerFault(o) ==
  /\ Fault
  /\ \/ owner[o].at = "serving" /\ owner' = [owner EXCEPT ![o].stop = TRUE]
     \/ owner[o].at = "serving" /\ owner' = [owner EXCEPT ![o].window = FALSE]
     \/ /\ owner[o].at \in {"starting", "launching", "serving", "closing"}
        /\ owner' = [owner EXCEPT ![o] = GoneOwner]
  /\ UNCHANGED <<sock, run, left>>

-----------------------------------------------------------------------------

Ensure(r) ==
  \/ TakeLock(r) \/ AskHealth(r) \/ Probe(r) \/ Remove(r) \/ Spawn(r) \/ TimesOut(r) \/ Broken(r)
  \/ GiveUp(r)

Work(o) == Check(o) \/ Bind(o) \/ Accept(o) \/ FinishJob(o) \/ CloseServer(o) \/ Cleanup(o)

\* Nobody is left to ask; owners may serve on.
AllOver == (\A r \in Refresh : run[r].at = "over") /\ UNCHANGED ownerVars

OwnerNext ==
  \/ \E r \in Refresh :
       \/ Start(r) \/ Ensure(r) \/ AskJob(r) \/ CloseBrowser(r) \/ End(r)
       \/ KillRefresh(r)
  \/ \E o \in Owner : Work(o) \/ OwnerFault(o)
  \/ AllOver

\* Scripts and owners run, jobs end (they have timeouts), and time passes.
OwnerSpec ==
  /\ OwnerInit /\ [][OwnerNext]_ownerVars
  /\ \A r \in Refresh : WF_ownerVars(Ensure(r))
  /\ \A o \in Owner : WF_ownerVars(Work(o))

-----------------------------------------------------------------------------
(* Properties *)

Serving(o) == owner[o].at = "serving" /\ owner[o].window /\ ~owner[o].stop

\* What the lock, the question and the probe are worth: the socket of an owner that
\* serves is removed only by another owner that ends; by a script that found the
\* backlog full; or by one that looked before an owner came up whose own script had
\* stopped waiting for it.  An owner at a job is otherwise left alone, whoever asks.
ServingOwnerIsKept ==
  [][\A o \in Owner : Serving(o) /\ sock = o /\ sock' # o =>
       \/ \E q \in Owner \ {o} : owner[q].at = "closing" /\ owner'[q].at = "gone"
       \/ \E r \in Refresh :
            run[r].at = "remove" /\ run'[r].at = "spawn" /\ (run[r].saw = "full" \/ o \in left)]_ownerVars

\* A script that asks for an owner ends, with one that answers or without, whatever
\* owner is at the path, busy, ending or out of reach: its lock is never kept for good.
EnsureEnds == \A r \in Refresh : run[r].at \in Ensuring ~> run[r].at \notin Ensuring

\* "Start the owner once and reuse it on later refreshes.", says the script; it is not
\* so even if nothing fails: an owner that ends removes the socket of its successor,
\* which then serves on unreachable beside the next one.
OwnerStartedOnce ==
  [][\A o \in Owner : owner[o].at = "none" /\ owner'[o].at # "none" =>
       \A q \in Owner : ~Serving(q)]_ownerVars
=============================================================================
