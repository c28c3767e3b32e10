------------------------------ MODULE DemoBuffer ------------------------------
(***************************************************************************)
(* The message buffer of the public demo, DemoMessageBufferService.        *)
(*                                                                         *)
(* A POST appends its text to the buffer entry of its session and stays    *)
(* open until a debounced flush has run the engine on the entry's texts    *)
(* and resolves every request of the entry.  Sessions share nothing, so    *)
(* this is one session.  The process is single-threaded: what happens      *)
(* between two awaits is one step.  An entry is named by the POST that     *)
(* created it, a timeout by the POST that set it.                          *)
(***************************************************************************)
EXTENDS Naturals

CONSTANTS
    Posts,       \* POST /demo/message requests of the session
    NoPost,      \* no entry, or no timeout
    MaxFailures    \* bound on failed statements

ASSUME DemoBufferAssumption == NoPost \notin Posts /\ MaxFailures \in Nat

VARIABLES
    ppc,         \* ppc[p]: where request p is
    entry,       \* entry[p]: the entry p's text is in
    buffered,    \* buffers.get(sessionKey)
    timers,      \* timeouts that are set and have not fired
    timer,       \* timer[e]: entry.timer, the timeout an append clears
    resolvers,   \* resolvers[e]: requests of entry e not yet resolved
    fpc,         \* fpc[e]: where the flush of entry e is
    flushes,     \* flushes[e]: how often the texts of e were taken for the engine
    idle,        \* the entry got no text for the janitor's threshold
    failures

postVars == <<ppc, entry>>
flushVars == <<fpc, flushes>>
demoVars == <<postVars, buffered, timers, timer, resolvers, flushVars, idle, failures>>

DemoTypeOK ==
    /\ ppc \in [Posts -> {"new", "creating", "saving", "waiting", "answered", "failed"}]
    /\ entry \in [Posts -> Posts \cup {NoPost}]
    /\ buffered \in Posts \cup {NoPost}
    /\ timers \subseteq {p \in Posts : ppc[p] \in {"waiting", "answered", "failed"}}
    /\ timer \in [Posts -> Posts \cup {NoPost}]
    /\ resolvers \in [Posts -> SUBSET Posts]
    /\ fpc \in [Posts -> {"none", "running", "done"}]
    /\ flushes \in [Posts -> Nat]
    /\ idle \in BOOLEAN
    /\ failures \in 0..MaxFailures

DemoInit ==
    /\ ppc = [p \in Posts |-> "new"]
    /\ entry = [p \in Posts |-> NoPost]
    /\ buffered = NoPost
    /\ timers = {}
    /\ timer = [e \in Posts |-> NoPost]
    /\ resolvers = [e \in Posts |-> {}]
    /\ fpc = [e \in Posts |-> "none"]
    /\ flushes = [e \in Posts |-> 0]
    /\ idle = FALSE
    /\ failures = 0

-----------------------------------------------------------------------------
(* appendAndSchedule                                                       *)

\* There is an entry: its timeout is cleared and the text pushed.
Append(p) ==
    /\ ppc[p] = "new" /\ buffered # NoPost
    /\ ppc' = [ppc EXCEPT ![p] = "saving"]
    /\ entry' = [entry EXCEPT ![p] = buffered]
    /\ timers' = timers \ {timer[buffered]}
    /\ idle' = FALSE
    /\ UNCHANGED <<buffered, timer, resolvers, flushVars, failures>>

\* There is none: the customer and the conversation are looked up first.
Lookup(p) ==
    /\ ppc[p] = "new" /\ buffered = NoPost
    /\ ppc' = [ppc EXCEPT ![p] = "creating"]
    /\ UNCHANGED <<entry, buffered, timers, timer, resolvers, flushVars, idle, failures>>

\* buffers.set, over whatever another first request has put there meanwhile.
Create(p) ==
    /\ ppc[p] = "creating"
    /\ ppc' = [ppc EXCEPT ![p] = "saving"]
    /\ entry' = [entry EXCEPT ![p] = p]
    /\ buffered' = p
    /\ idle' = FALSE
    /\ UNCHANGED <<timers, timer, resolvers, flushVars, failures>>

\* The message is saved: the timeout is set and the request waits.
Schedule(p) ==
    /\ ppc[p] = "saving"
    /\ ppc' = [ppc EXCEPT ![p] = "waiting"]
    /\ timers' = timers \cup {p}
    /\ timer' = [timer EXCEPT ![entry[p]] = p]
    /\ resolvers' = [resolvers EXCEPT ![entry[p]] = @ \cup {p}]
    /\ UNCHANGED <<entry, buffered, flushVars, idle, failures>>

\* A statement before that fails: the request fails, its text stays where it is.
PostFails(p) ==
    /\ ppc[p] \in {"creating", "saving"}
    /\ failures < MaxFailures
    /\ failures' = failures + 1
    /\ ppc' = [ppc EXCEPT ![p] = "failed"]
    /\ UNCHANGED <<entry, buffered, timers, timer, resolvers, flushVars, idle>>

-----------------------------------------------------------------------------
(* flush and sweepIdleEntries                                              *)

\* Mutant: the entry is removed when its flush is done.
flushKeeps ==
    /\ UNCHANGED buffered
    /\ \/ buffered = NoPost /\ UNCHANGED flushVars
       \/ /\ buffered # NoPost
          /\ fpc' = [fpc EXCEPT ![buffered] = "running"]
          /\ flushes' = [flushes EXCEPT ![buffered] = @ + 1]

\* "Capture and remove BEFORE awaiting": the entry leaves the map with its texts.
flush ==
    /\ buffered' = NoPost
    /\ \/ buffered = NoPost /\ UNCHANGED flushVars
       \/ /\ buffered # NoPost
          /\ fpc' = [fpc EXCEPT ![buffered] = "running"]
          /\ flushes' = [flushes EXCEPT ![buffered] = @ + 1]

\* A timeout fires for the session, whatever entry the session has by now.
TimerFires(p) ==
    /\ p \in timers
    /\ timers' = timers \ {p}
    /\ flush
    /\ UNCHANGED <<postVars, timer, resolvers, idle, failures>>

\* Mutant: the first request of the entry is the one that gets the answer.
FlushAnswersFirst(e) ==
    /\ fpc[e] = "running"
    /\ fpc' = [fpc EXCEPT ![e] = "done"]
    /\ ppc' = [p \in Posts |-> IF p \in resolvers[e] \cap {e} THEN "answered" ELSE ppc[p]]
    /\ resolvers' = [resolvers EXCEPT ![e] = {}]
    /\ UNCHANGED <<entry, buffered, timers, timer, flushes, idle, failures>>

\* The engine has answered, or the budget is spent: every request of the entry that
\* waits by now is resolved.
FlushAnswers(e) ==
    /\ fpc[e] = "running"
    /\ fpc' = [fpc EXCEPT ![e] = "done"]
    /\ ppc' = [p \in Posts |-> IF p \in resolvers[e] THEN "answered" ELSE ppc[p]]
    /\ resolvers' = [resolvers EXCEPT ![e] = {}]
    /\ UNCHANGED <<entry, buffered, timers, timer, flushes, idle, failures>>

\* The flush throws: every request that waits by now is rejected.
FlushRejects(e) ==
    /\ fpc[e] = "running"
    /\ failures < MaxFailures
    /\ failures' = failures + 1
    /\ fpc' = [fpc EXCEPT ![e] = "done"]
    /\ ppc' = [p \in Posts |-> IF p \in resolvers[e] THEN "failed" ELSE ppc[p]]
    /\ resolvers' = [resolvers EXCEPT ![e] = {}]
    /\ UNCHANGED <<entry, buffered, timers, timer, flushes, idle>>

\* A minute passes without a text; a timeout lasts a second and a half.
GoIdle ==
    /\ buffered # NoPost /\ timers = {} /\ ~idle
    /\ idle' = TRUE
    /\ UNCHANGED <<postVars, buffered, timers, timer, resolvers, flushVars, failures>>

\* Mutant: the janitor clears the timeout of an idle entry and counts it as fresh again.
SweepRefreshes ==
    /\ buffered # NoPost /\ idle
    /\ timers' = timers \ {timer[buffered]}
    /\ idle' = FALSE
    /\ UNCHANGED <<postVars, buffered, timer, resolvers, flushVars, failures>>

\* The janitor clears the timeout of an idle entry and flushes it.
Sweep ==
    /\ buffered # NoPost /\ idle
    /\ timers' = timers \ {timer[buffered]}
    /\ flush
    /\ UNCHANGED <<postVars, timer, resolvers, idle, failures>>

Silent == \* nobody writes any more, and nothing is under way
    /\ \A p \in Posts : ppc[p] \in {"waiting", "answered", "failed"}
    /\ buffered = NoPost /\ timers = {}
    /\ \A e \in Posts : fpc[e] # "running"
    /\ UNCHANGED demoVars

DemoNext ==
    \/ \E p \in Posts : \/ Append(p) \/ Lookup(p) \/ Create(p) \/ Schedule(p)
                        \/ PostFails(p) \/ TimerFires(p)
    \/ \E e \in Posts : FlushAnswers(e) \/ FlushRejects(e)
    \/ GoIdle \/ Sweep \/ Silent

DemoSpec == DemoInit /\ [][DemoNext]_demoVars

\* Awaited statements return, timeouts and the janitor's interval fire, the engine
\* answers.
DemoFairness ==
    /\ \A p \in Posts : /\ WF_demoVars(Create(p)) /\ WF_demoVars(Schedule(p))
                        /\ WF_demoVars(TimerFires(p)) /\ WF_demoVars(FlushAnswers(p))
    /\ WF_demoVars(GoIdle) /\ WF_demoVars(Sweep)

FairDemoSpec == DemoSpec /\ DemoFairness

-----------------------------------------------------------------------------
(* What the buffer promises.                                               *)

\* An entry is overwritten when two first requests look the customer up side by side.
Overwritten(e) == entry[e] = e /\ buffered # e /\ fpc[e] = "none"

\* "Capture and remove BEFORE awaiting": however many timeouts of a session fire, and
\* whenever the janitor comes, no text reaches the engine twice.
EachTextOnce == \A e \in Posts : flushes[e] <= 1

\* Every append clears a timeout before it awaits the save that precedes the next one:
\* as long as no save fails, an entry always has a request that will set one, or a
\* timeout that is set.
NeverStranded ==
    buffered # NoPost /\ failures = 0 =>
        \E p \in Posts : entry[p] = buffered /\ (ppc[p] = "saving" \/ p \in timers)

\* The janitor's part: an entry is flushed also when its last save failed after the
\* timeout was cleared, unless another entry took its place.
EntryIsFlushed ==
    \A e \in Posts : (buffered = e) ~> (fpc[e] = "done" \/ Overwritten(e))

\* A request that waits is answered or rejected; the two ways to wait for ever are to
\* wait on an overwritten entry, and to start waiting when the flush was over.
WaitingIsAnswered ==
    \A p \in Posts : (ppc[p] = "waiting") ~>
        \/ ppc[p] \in {"answered", "failed"}
        \/ \E e \in Posts : p \in resolvers[e] /\ fpc[e] = "done"
        \/ \E e \in Posts : entry[p] = e /\ Overwritten(e)
=============================================================================
