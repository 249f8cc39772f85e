------------------------ MODULE ObservationService ------------------------
(***************************************************************************)
(* The service that owns the single storage observation in flight          *)
(* (internal/observe/service.go), as cmd/page-hub/main.go wires it: Start  *)
(* runs before the HTTP server exists, requests call Refresh, the schedule *)
(* calls it too, and a signal cancels the service's context.               *)
(*                                                                         *)
(* A step is a critical section of Service.mu, or what a goroutine does    *)
(* between two of them: the code never blocks while it holds the mutex.    *)
(*                                                                         *)
(* Covered: NewService, Start and its schedule, Refresh, cancellation of   *)
(* the service's context and of a request's.  A scan is the outcome it     *)
(* ends with (module Scan has the rest).  Not covered: how long the delays *)
(* are, only which of the two the schedule picks.                          *)
(***************************************************************************)
EXTENDS FiniteSets

CONSTANTS
    Requests,   \* goroutines that serve POST /api/refresh
    Schedule,   \* the goroutine Start launches
    Chans,      \* done channels; one is collected when nobody refers to it
    NoChan,     \* Service.running is nil
    Failures    \* the Outcomes of a failed scan, all treated alike

Callers == Requests \cup {Schedule}

ASSUME ScheduleAssumption == Schedule \notin Requests
ASSUME NoChanAssumption == NoChan \notin Chans

ASSUME FailuresAssumption ==
    Failures \subseteq {"unavailable", "misconfigured", "failed"} /\ "failed" \in Failures

\* OutcomeOf, over the errors a scan may return.
Results == Failures \cup {"succeeded"}

VARIABLES
    started,        \* serviceCtx is set
    shutdown,       \* serviceCtx is cancelled
    gone,           \* requests whose client has disconnected
    running,        \* Service.running: the done channel of the scan in flight
    closed,         \* done channels that have been closed
    lastOutcome,    \* Service.lastOutcome
    pc,             \* where each goroutine is
    done,           \* done[g]: the channel g made, or waits on
    scanCtx,        \* scanCtx[g]: the context g's scan runs on
    outcome,        \* outcome[g]: Refresh's local variable, then its result
    delay,          \* the delay the schedule's timer was set to
    fired,          \* that timer has fired
    \* History, for the properties only:
    fresh,          \* fresh[g]: outcomes of the scans that ended since g's call
    theirs,         \* theirs[g]: outcome of the scan g led or joined
    aborted         \* the scan about to end was cut short by its context

control == <<started, shutdown, gone>>
service == <<running, closed, lastOutcome>>
history == <<fresh, theirs, aborted>>
vars == <<control, service, pc, done, scanCtx, outcome, delay, fired, history>>

InRefresh(g) == pc[g] \in {"leading", "scanning", "scanned", "waiting"}
Leading(g) == pc[g] \in {"leading", "scanning", "scanned"}

TypeOK ==
    /\ started \in BOOLEAN /\ shutdown \in BOOLEAN /\ fired \in BOOLEAN
    /\ aborted \in BOOLEAN
    /\ gone \subseteq Requests
    /\ running \in Chans \cup {NoChan}
    /\ closed \subseteq Chans
    /\ lastOutcome \in Results \cup {"never"}
    /\ pc \in [Callers -> {"idle", "leading", "scanning", "scanned", "waiting",
                           "returned", "sleeping", "stopped"}]
    /\ done \in [Callers -> Chans \cup {NoChan}]
    /\ scanCtx \in [Callers -> {"none", "service", "caller"}]
    /\ outcome \in [Callers -> Results \cup {"never"}]
    /\ delay \in {"daily", "retry"}
    /\ fresh \in [Callers -> SUBSET Results]
    /\ theirs \in [Callers -> Results \cup {"never"}]

\* NewService.
Init ==
    /\ started = FALSE /\ shutdown = FALSE /\ gone = {}
    /\ running = NoChan /\ closed = {} /\ lastOutcome = "never"
    /\ pc = [g \in Callers |-> "idle"]
    /\ done = [g \in Callers |-> NoChan]
    /\ scanCtx = [g \in Callers |-> "none"]
    /\ outcome = [g \in Callers |-> "never"]
    /\ delay = "daily" /\ fired = FALSE
    /\ fresh = [g \in Callers |-> {}]
    /\ theirs = [g \in Callers |-> "never"]
    /\ aborted = FALSE

(***************************************************************************)
(* Start, and the contexts                                                 *)
(***************************************************************************)

Start ==
    /\ ~started
    /\ started' = TRUE
    /\ UNCHANGED <<shutdown, gone, service, pc, done, scanCtx, outcome, delay,
                   fired, history>>

\* SIGINT or SIGTERM, after main has wired the service.
Shutdown ==
    /\ started /\ ~shutdown
    /\ shutdown' = TRUE
    /\ UNCHANGED <<started, gone, service, pc, done, scanCtx, outcome, delay,
                   fired, history>>

\* The browser closes the connection of a request in progress.
Disconnect(g) ==
    /\ g \in Requests \ gone /\ InRefresh(g)
    /\ gone' = gone \cup {g}
    /\ UNCHANGED <<started, shutdown, service, pc, done, scanCtx, outcome, delay,
                   fired, history>>

Cancelled(g) ==
    \/ scanCtx[g] = "service" /\ shutdown
    \/ scanCtx[g] = "caller" /\ g \in gone
    \/ scanCtx[g] = "caller" /\ g = Schedule /\ shutdown

(***************************************************************************)
(* Refresh                                                                 *)
(***************************************************************************)

\* A request reaches serveRefresh, or the schedule's loop comes round.
MayCall(g) == started /\ pc[g] = "idle"

\* A channel is free again once no goroutine refers to it.
Unreferenced(c) == \A g \in Callers : done[g] # c

\* g returns from Refresh: its locals go out of scope, and the channel is
\* collected unless others still wait on it.
Awaited(c, g) == \E h \in Callers \ {g} : done[h] = c
Leave(g) ==
    /\ pc' = [pc EXCEPT ![g] = "returned"]
    /\ done' = [done EXCEPT ![g] = NoChan]
    /\ scanCtx' = [scanCtx EXCEPT ![g] = "none"]

\* g has used what Refresh returned, and its history with it.
Idle(g) ==
    /\ pc' = [pc EXCEPT ![g] = "idle"]
    /\ outcome' = [outcome EXCEPT ![g] = "never"]
    /\ fresh' = [fresh EXCEPT ![g] = {}]
    /\ theirs' = [theirs EXCEPT ![g] = "never"]

\* Faulty variant of Join: the outcome is read before the wait.
Join_ReadsEarly(g) ==
    /\ MayCall(g)
    /\ running # NoChan
    /\ outcome' = [outcome EXCEPT ![g] = lastOutcome]
    /\ pc' = [pc EXCEPT ![g] = "returned"]
    /\ UNCHANGED <<control, service, done, scanCtx, delay, fired, history>>

\* s.running is not nil: keep its channel and wait.
Join(g) ==
    /\ MayCall(g)
    /\ running # NoChan
    /\ done' = [done EXCEPT ![g] = running]
    /\ pc' = [pc EXCEPT ![g] = "waiting"]
    /\ UNCHANGED <<control, service, scanCtx, outcome, delay, fired, history>>

\* Faulty variant of Lead: the scan runs on the context of whoever asked.
Lead_OwnContext(g) ==
    /\ MayCall(g)
    /\ running = NoChan
    /\ \E c \in Chans :
          /\ Unreferenced(c)
          /\ running' = c
          /\ done' = [done EXCEPT ![g] = c]
    /\ scanCtx' = [scanCtx EXCEPT ![g] = "caller"]
    /\ pc' = [pc EXCEPT ![g] = "leading"]
    /\ UNCHANGED <<control, closed, lastOutcome, outcome, delay, fired, history>>

\* Faulty variant of Lead: a scan in flight is not looked for.
Lead_Unguarded(g) ==
    /\ MayCall(g)
    /\ \E c \in Chans :
          /\ Unreferenced(c)
          /\ running' = c
          /\ done' = [done EXCEPT ![g] = c]
    /\ scanCtx' = [scanCtx EXCEPT ![g] = IF started THEN "service" ELSE "caller"]
    /\ pc' = [pc EXCEPT ![g] = "leading"]
    /\ UNCHANGED <<control, closed, lastOutcome, outcome, delay, fired, history>>

\* s.running is nil: publish a new done channel and be about to scan, on the
\* service's context if Start has set it.
Lead(g) ==
    /\ MayCall(g)
    /\ running = NoChan
    /\ \E c \in Chans :
          /\ Unreferenced(c)
          /\ running' = c
          /\ done' = [done EXCEPT ![g] = c]
    /\ scanCtx' = [scanCtx EXCEPT ![g] = IF started THEN "service" ELSE "caller"]
    /\ pc' = [pc EXCEPT ![g] = "leading"]
    /\ UNCHANGED <<control, closed, lastOutcome, outcome, delay, fired, history>>

\* Run's first query goes out on a context that is still alive.  A scan whose
\* context is cancelled before that can only fail.
ScanBegins(g) ==
    /\ pc[g] = "leading" /\ ~Cancelled(g)
    /\ pc' = [pc EXCEPT ![g] = "scanning"]
    /\ UNCHANGED <<control, service, done, scanCtx, outcome, delay, fired, history>>

\* scan returns.  Cancelled on the way, it may still have come through.
ScanEnds(g) ==
    /\ pc[g] = "scanning"
    /\ \E o \in Results : outcome' = [outcome EXCEPT ![g] = o]
    /\ pc' = [pc EXCEPT ![g] = "scanned"]
    /\ aborted' = FALSE
    /\ UNCHANGED <<control, service, done, scanCtx, delay, fired, fresh, theirs>>

\* Faulty variant of ScanAborts: an outcome OutcomeOf has no name for.
ScanAborts_Unnamed(g) ==
    /\ pc[g] \in {"leading", "scanning"} /\ Cancelled(g)
    /\ outcome' = [outcome EXCEPT ![g] = "cancelled"]
    /\ pc' = [pc EXCEPT ![g] = "scanned"]
    /\ aborted' = TRUE
    /\ UNCHANGED <<control, service, done, scanCtx, delay, fired, fresh, theirs>>

\* The context is cancelled, and what is under way fails: Run's first query with
\* an error OutcomeOf has no other name for.
ScanAborts(g) ==
    /\ pc[g] \in {"leading", "scanning"} /\ Cancelled(g)
    /\ \E o \in IF pc[g] = "leading" THEN {"failed"} ELSE Failures :
          outcome' = [outcome EXCEPT ![g] = o]
    /\ pc' = [pc EXCEPT ![g] = "scanned"]
    /\ aborted' = TRUE
    /\ UNCHANGED <<control, service, done, scanCtx, delay, fired, fresh, theirs>>

\* History: a scan ended with o, led by g.
Ended(g, o) ==
    /\ fresh' = [h \in Callers |->
                   IF InRefresh(h) THEN fresh[h] \cup {o} ELSE fresh[h]]
    /\ theirs' = [h \in Callers |-> IF done[h] = done[g] THEN o ELSE theirs[h]]
    /\ aborted' = FALSE

\* The second critical section, and the return of the leader's outcome.
Finish(g) ==
    /\ pc[g] = "scanned"
    /\ lastOutcome' = outcome[g]
    /\ running' = NoChan
    /\ closed' = IF Awaited(done[g], g) THEN closed \cup {done[g]} ELSE closed
    /\ Leave(g)
    /\ Ended(g, outcome[g])
    /\ UNCHANGED <<control, outcome, delay, fired>>

\* Faulty variant of Wake: the joiner waits for a moment without any scan.
Wake_WhenIdle(g) ==
    /\ pc[g] = "waiting" /\ done[g] \in closed /\ running = NoChan
    /\ outcome' = [outcome EXCEPT ![g] = lastOutcome]
    /\ closed' = IF Awaited(done[g], g) THEN closed ELSE closed \ {done[g]}
    /\ Leave(g)
    /\ UNCHANGED <<control, running, lastOutcome, delay, fired, history>>

\* <-done, then the joiner's critical section: it returns whatever the last
\* scan to end has left, which by now may be another than the one it joined.
Wake(g) ==
    /\ pc[g] = "waiting" /\ done[g] \in closed
    /\ outcome' = [outcome EXCEPT ![g] = lastOutcome]
    /\ closed' = IF Awaited(done[g], g) THEN closed ELSE closed \ {done[g]}
    /\ Leave(g)
    /\ UNCHANGED <<control, running, lastOutcome, delay, fired, history>>

\* serveRefresh answers; the connection's goroutine is free for a new request.
Respond(g) ==
    /\ g \in Requests /\ pc[g] = "returned"
    /\ Idle(g)
    /\ gone' = gone \ {g}
    /\ UNCHANGED <<started, shutdown, service, done, scanCtx, delay, fired, aborted>>

(***************************************************************************)
(* The schedule                                                            *)
(***************************************************************************)

\* Faulty variant of Sleep: the two delays swapped.
Sleep_Swapped ==
    /\ pc[Schedule] = "returned"
    /\ delay' = IF outcome[Schedule] = "succeeded" THEN "retry" ELSE "daily"
    /\ fired' = FALSE
    /\ pc' = [pc EXCEPT ![Schedule] = "sleeping"]
    /\ UNCHANGED <<control, service, done, scanCtx, outcome, history>>

\* Faulty variant of Sleep: the schedule gives up after a failure.
Sleep_GivesUp ==
    /\ pc[Schedule] = "returned"
    /\ delay' = "daily"
    /\ fired' = FALSE
    /\ pc' = [pc EXCEPT ![Schedule] =
                IF outcome[Schedule] = "succeeded" THEN "sleeping" ELSE "stopped"]
    /\ UNCHANGED <<control, service, done, scanCtx, outcome, history>>

Sleep ==
    /\ pc[Schedule] = "returned"
    /\ delay' = IF outcome[Schedule] = "succeeded" THEN "daily" ELSE "retry"
    /\ fired' = FALSE
    /\ pc' = [pc EXCEPT ![Schedule] = "sleeping"]
    /\ UNCHANGED <<control, service, done, scanCtx, outcome, history>>

TimerFires ==
    /\ pc[Schedule] = "sleeping" /\ ~fired
    /\ fired' = TRUE
    /\ UNCHANGED <<control, service, pc, done, scanCtx, outcome, delay, history>>

\* The two cases of the select; with both ready Go picks either.
SelectTimer ==
    /\ pc[Schedule] = "sleeping" /\ fired
    /\ Idle(Schedule)
    /\ fired' = FALSE
    /\ UNCHANGED <<control, service, done, scanCtx, delay, aborted>>

\* Faulty variant of SelectDone: the retry wait does not heed the context.
SelectDone_DailyOnly ==
    /\ pc[Schedule] = "sleeping" /\ shutdown /\ delay = "daily"
    /\ pc' = [pc EXCEPT ![Schedule] = "stopped"]
    /\ UNCHANGED <<control, service, done, scanCtx, outcome, delay, fired, history>>

\* The select takes the cancellation, and the schedule returns.
SelectDone ==
    /\ pc[Schedule] = "sleeping" /\ shutdown
    /\ pc' = [pc EXCEPT ![Schedule] = "stopped"]
    /\ UNCHANGED <<control, service, done, scanCtx, outcome, delay, fired, history>>

-----------------------------------------------------------------------------

ScheduleStep == Sleep \/ TimerFires \/ SelectTimer \/ SelectDone

CallerStep(g) ==
    \/ Join(g) \/ Lead(g) \/ ScanBegins(g) \/ ScanEnds(g) \/ ScanAborts(g)
    \/ Finish(g) \/ Wake(g) \/ Disconnect(g) \/ Respond(g)

Next == Start \/ Shutdown \/ ScheduleStep \/ \E g \in Callers : CallerStep(g)

(***************************************************************************)
(* Every goroutine that can go on does: a scan is bounded by the timeouts  *)
(* of the storage client, a timer fires, and no goroutine that can run is  *)
(* starved.  A select with both cases ready for ever picks each in the     *)
(* end, as Go chooses at random.  Nobody is bound to ask for a refresh, to *)
(* disconnect or to shut the manager down.                                 *)
(***************************************************************************)
Fairness ==
    /\ WF_vars(Start)
    /\ \A g \in Callers :
          /\ WF_vars(ScanBegins(g) \/ ScanEnds(g) \/ ScanAborts(g))
          /\ WF_vars(Finish(g))
          /\ WF_vars(Wake(g))
    /\ WF_vars(Join(Schedule) \/ Lead(Schedule))
    /\ WF_vars(Sleep) /\ WF_vars(TimerFires) /\ WF_vars(SelectTimer)
    /\ SF_vars(SelectDone)

Spec == Init /\ [][Next]_vars /\ Fairness

(***************************************************************************)
(* Properties                                                              *)
(***************************************************************************)

\* service.go:58-59, README.md:87-88: only one full scan runs at a time,
\* whoever asks for it and whenever.
SingleScan == \A g, h \in Callers : Leading(g) /\ Leading(h) => g = h

\* What Refresh returns is never older than the call: some scan that ended
\* after the call began ended that way.
FreshOutcome ==
    \A g \in Callers : pc[g] = "returned" => outcome[g] \in fresh[g]

\* service.go:121-122 and TestJoinerSharesTheRunningScanOutcome: a caller that
\* joins the running scan returns that scan's outcome.
JoinerSharesOutcome ==
    \A g \in Callers : pc[g] = "returned" => outcome[g] = theirs[g]

\* service.go:97-98: no browser can cancel a scan; once the service runs, only
\* its shutdown cuts one short.
OnlyShutdownAborts == aborted => shutdown

\* The schedule goes over to the daily cadence only on a scan that succeeded
\* after the schedule itself asked for one.
DailyOnlyAfterSuccess ==
    pc[Schedule] = "sleeping" /\ delay = "daily" => "succeeded" \in fresh[Schedule]

\* main.go:125 and service.go:94-96: a failed scan is tried again after the
\* retry delay, so until the manager shuts down the schedule is not in its
\* daily sleep after one.
FailureAwaitsRetry ==
    /\ ~shutdown
    /\ pc[Schedule] = "sleeping" /\ running = NoChan /\ lastOutcome \in Failures
    => delay = "retry"

\* Every call of Refresh returns: no joiner is left on a channel nobody closes.
RefreshReturns == \A g \in Callers : InRefresh(g) ~> pc[g] = "returned"

\* Until the manager shuts down there is always another scan to come.
ScansGoOn == []<>(running # NoChan \/ shutdown)

\* service.go:94: the schedule runs until the context is cancelled.
ScheduleStops == shutdown ~> pc[Schedule] = "stopped"

(***************************************************************************)
(* The service keeps the contract of RefreshContract.                      *)
(***************************************************************************)

\* The contract's "no scan in flight".
NoCaller == NoChan

ASSUME NoCallerAssumption == NoCaller \notin Callers

Contract == INSTANCE RefreshContract WITH
    Outcomes <- Results,
    leader   <- IF \E g \in Callers : Leading(g)
                THEN CHOOSE g \in Callers : Leading(g) ELSE NoCaller,
    phase    <- [g \in Callers |->
                    CASE Leading(g)          -> "leading"
                      [] pc[g] = "waiting"   -> "joined"
                      [] pc[g] = "returned"  -> "answered"
                      [] OTHER               -> "out"],
    may      <- [g \in Callers |-> IF pc[g] = "waiting" THEN fresh[g] ELSE {}],
    answer   <- [g \in Callers |-> IF pc[g] = "returned" THEN {outcome[g]} ELSE {}]

\* Every step of the service is one of the contract's, or none of its business.
ContractSteps == Contract!Init /\ [][Contract!Next]_(Contract!vars)

\* The service implements the contract, its liveness included.
KeepsContract == Contract!Spec

=============================================================================
