--------------------------- MODULE CaptureContext ---------------------------
(***************************************************************************)
(* The ambient capture of src/trace_tests/accounting.py: the context       *)
(* variable _CAPTURE, the public and the accounted runner that set and     *)
(* reset it, and the checkers that record into whatever it holds.          *)
(*                                                                         *)
(* The policy resolver is the caller's code, and runs inside a checker.    *)
(* It may start another run of either kind, call a checker directly, or    *)
(* hand a copy of its context to another thread, which then outlives the   *)
(* checker.  Threads interleave between any two steps; a thread's context  *)
(* variable is its own, the captures are shared.                           *)
(*                                                                         *)
(* What a row holds beside its fact (branches, prerequisites, policies) is *)
(* the subject of Obligations; here a fact carries at most one finding,    *)
(* and an obligation is named by the module that owns it.                  *)
(***************************************************************************)
EXTENDS Integers, Sequences, FiniteSets

CONSTANTS Threads,    \* the threads; all but MainThread start with a copied context
          MainThread,
          Plans,      \* the schedules of accounted runs: cells <<level, module>>
          PublicPlan, \* the modules of the level a public run runs
          Pilots,     \* the modules that own an obligation
          Calling,    \* the checkers that call the caller's code
          NoModule,
          MaxCalls    \* bound: runner and checker calls, by whomever

NoLevel == -1

NoCapture == 0

Elements(seq) == {seq[i] : i \in DOMAIN seq}

Cells == UNION {Elements(p) : p \in Plans}

Levels(plan) == {cell[1] : cell \in Elements(plan)}

Modules == {cell[2] : cell \in Cells} \cup Elements(PublicPlan)

(* A schedule goes through the attempted levels upwards and lists a cell   *)
(* once, as _run_levels makes it from the level table.                     *)
ASSUME CaptureContextAssumption ==
    /\ MainThread \in Threads
    /\ NoModule \notin Modules
    /\ NoModule \notin Pilots
    /\ Calling \subseteq Modules
    /\ Plans \subseteq Seq(Nat \X Modules)
    /\ \A p \in Plans : \A i, j \in DOMAIN p : i < j => p[i] # p[j] /\ p[i][1] <= p[j][1]
    /\ PublicPlan \in Seq(Modules)
    /\ MaxCalls \in Nat

VARIABLES
    context,   \* what _CAPTURE holds in each thread: the number of a capture, or none
    inherited, \* what it held when the thread started (not in the code)
    stack,     \* the calls each thread is in, the innermost first
    raising,   \* what kind of exception is on its way out of the innermost call
    captures,  \* the captures of all accounted runs so far
    calls      \* how many calls were made; numbers them

vars == <<context, inherited, stack, raising, captures, calls>>

FreshCapture(plan) ==
    [plan |-> plan, level |-> NoLevel, module |-> NoModule, actual |-> <<>>,
     facts |-> {}, returned |-> [cell \in {} |-> {}], outcome |-> "running",
     document |-> {}, own |-> {}, raised |-> FALSE]   \* own, raised: not in the code

Init ==
    /\ context = [t \in Threads |-> NoCapture]
    /\ inherited = [t \in Threads |-> NoCapture]
    /\ stack = [t \in Threads |-> <<>>]
    /\ raising = [t \in Threads |-> "nothing"]
    /\ captures = <<>>
    /\ calls = 0

Top(t) == Head(stack[t])

In(t, kinds) == stack[t] # <<>> /\ Top(t).kind \in kinds

Runs(t, kinds) == In(t, kinds) /\ raising[t] = "nothing"

Push(t, frame) ==
    /\ calls' = calls + 1
    /\ stack' = [stack EXCEPT ![t] = <<frame>> \o @]

SetTop(t, frame) == stack' = [stack EXCEPT ![t] = <<frame>> \o Tail(@)]

Pop(t) == stack' = [stack EXCEPT ![t] = Tail(@)]

Raise(t, what) == raising' = [raising EXCEPT ![t] = what]

-----------------------------------------------------------------------------
(***************************************************************************)
(* The caller's code: at the bottom of a thread, or in a resolver.         *)
(***************************************************************************)
(* A thread that was not started inside a run shares nothing with one.     *)
Started(t) == t = MainThread \/ inherited[t] # NoCapture

CallersCode(t) ==
    /\ Started(t)
    /\ raising[t] = "nothing"
    /\ \/ stack[t] = <<>>
       \/ /\ In(t, {"checker", "direct"})
          /\ Top(t).module \in Calling
          /\ Top(t).stage = "working"

(* runner._run_levels up to its first level. *)
StartAccounted(t, plan) ==
    /\ CallersCode(t)
    /\ calls < MaxCalls
    /\ captures' = Append(captures, FreshCapture(plan))
    /\ context' = [context EXCEPT ![t] = Len(captures) + 1]
    /\ Push(t, [kind |-> "accounted", capture |-> Len(captures) + 1,
                plan |-> plan, saved |-> context[t], level |-> NoLevel, done |-> 0,
                validated |-> FALSE])
    /\ UNCHANGED <<inherited, raising>>

(* Mutant: the public runner leaves the caller's capture in place. *)
StartPublicInside(t) ==
    /\ CallersCode(t)
    /\ calls < MaxCalls
    /\ Push(t, [kind |-> "public", saved |-> context[t], done |-> 0])
    /\ UNCHANGED <<context, inherited, raising, captures>>

(* runner.run up to its first checker. *)
StartPublic(t) ==
    /\ CallersCode(t)
    /\ calls < MaxCalls
    /\ context' = [context EXCEPT ![t] = NoCapture]
    /\ Push(t, [kind |-> "public", saved |-> context[t], done |-> 0])
    /\ UNCHANGED <<inherited, raising, captures>>

(* A checker is called without the runner, in whatever context there is.   *)
CallDirectly(t, m) ==
    /\ CallersCode(t)
    /\ calls < MaxCalls
    /\ m \in Pilots
    /\ Push(t, [kind |-> "direct", call |-> calls + 1, module |-> m,
                stage |-> "working", finding |-> {}])
    /\ UNCHANGED <<context, inherited, raising, captures>>

(* A thread is started in a copy of the caller's context.                  *)
Spawn(t, u) ==
    /\ CallersCode(t)
    /\ u # MainThread /\ stack[u] = <<>>
    /\ context[t] # context[u]
    /\ context' = [context EXCEPT ![u] = context[t]]
    /\ inherited' = [inherited EXCEPT ![u] = context[t]]
    /\ UNCHANGED <<stack, raising, captures, calls>>

-----------------------------------------------------------------------------
(***************************************************************************)
(* The runners and the accounting functions they call.  Those read the     *)
(* context variable anew each time, except _complete_execution.            *)
(***************************************************************************)
NextModule(frame) ==
    IF frame.kind = "public" THEN PublicPlan[frame.done + 1]
    ELSE frame.plan[frame.done + 1][2]

(* The accounted runner has another cell to run at its level.              *)
MoreAtLevel(frame) ==
    /\ frame.done < Len(frame.plan)
    /\ frame.plan[frame.done + 1][1] = frame.level

BeginLevel(t) ==
    /\ Runs(t, {"accounted"})
    /\ Top(t).level = NoLevel /\ Top(t).done < Len(Top(t).plan)
    /\ LET c == context[t]
           level == Top(t).plan[Top(t).done + 1][1]
       IN  \/ /\ c # NoCapture
              /\ captures[c].level = NoLevel /\ level \in Levels(captures[c].plan)
              /\ captures' = [captures EXCEPT ![c].level = level]
              /\ SetTop(t, [Top(t) EXCEPT !.level = level])
              /\ UNCHANGED <<context, inherited, raising, calls>>
           \/ /\ \/ c = NoCapture
                 \/ captures[c].level # NoLevel
                 \/ level \notin Levels(captures[c].plan)
              /\ Raise(t, "schedule")
              /\ UNCHANGED <<context, inherited, stack, captures, calls>>

(* _invoke up to the checker call.                                         *)
Invoke(t) ==
    /\ calls < MaxCalls
    /\ \/ Runs(t, {"public"}) /\ Top(t).done < Len(PublicPlan)
       \/ Runs(t, {"accounted"}) /\ MoreAtLevel(Top(t))
    /\ LET c    == context[t]
           m    == NextModule(Top(t))
           cell == <<captures[c].level, m>>
           expected ==
             /\ captures[c].level # NoLevel
             /\ captures[c].module = NoModule
             /\ Len(captures[c].actual) < Len(captures[c].plan)
             /\ captures[c].plan[Len(captures[c].actual) + 1] = cell
       IN  \/ /\ c = NoCapture
              /\ Push(t, [kind |-> "checker", call |-> calls + 1, module |-> m,
                          stage |-> "working", finding |-> {},
                          capture |-> NoCapture, earlier |-> {}])
              /\ UNCHANGED <<context, inherited, raising, captures>>
           \/ /\ c # NoCapture /\ expected
              /\ captures' = [captures EXCEPT ![c].actual = Append(@, cell),
                                              ![c].module = m,
                                              ![c].own = @ \cup {calls + 1}]
              /\ Push(t, [kind |-> "checker", call |-> calls + 1, module |-> m,
                          stage |-> "working", finding |-> {},
                          capture |-> c, earlier |-> captures[c].facts])
              /\ UNCHANGED <<context, inherited, raising>>
           \/ /\ c # NoCapture /\ ~expected
              /\ Raise(t, "schedule")
              /\ UNCHANGED <<context, inherited, stack, captures, calls>>

At(cells, level) == {i \in DOMAIN cells : cells[i][1] = level}

(* The ways to pair two sets of positions one to one and in order.         *)
InOrder(I, P) ==
    {match \in [I -> P] : /\ \A p \in P : \E i \in I : match[i] = p
                          /\ \A i, j \in I : i < j => match[i] < match[j]}

(* The cells of the level that ran are the planned ones, in order.         *)
RanAsPlanned(actual, plan, level) ==
    \E match \in InOrder(At(actual, level), At(plan, level)) :
      \A i \in At(actual, level) : actual[i] = plan[match[i]]

EndLevel(t) ==
    /\ Runs(t, {"accounted"})
    /\ Top(t).level # NoLevel /\ ~MoreAtLevel(Top(t))
    /\ LET c     == context[t]
           level == Top(t).level
           expected ==
             /\ captures[c].level = level
             /\ captures[c].module = NoModule
             /\ RanAsPlanned(captures[c].actual, captures[c].plan, level)
           idle == {m \in Pilots : <<level, m>> \notin Elements(captures[c].plan)}
       IN  \/ /\ c # NoCapture /\ expected
              /\ captures' = [captures EXCEPT
                   ![c].level = NoLevel,
                   ![c].facts = @ \cup {[level |-> level, module |-> m, finding |-> {},
                                         by |-> "scheduler", call |-> 0] : m \in idle}]
              /\ SetTop(t, [Top(t) EXCEPT !.level = NoLevel])
              /\ UNCHANGED <<context, inherited, raising, calls>>
           \/ /\ c = NoCapture \/ ~expected
              /\ Raise(t, "schedule")
              /\ UNCHANGED <<context, inherited, stack, captures, calls>>

(* _validate_returned: the findings the facts of one cell stand for are    *)
(* the pilot findings its checker returned.                                *)
ReturnedAsEarned(facts, module, findings) ==
    /\ \A f \in facts : f.finding \subseteq findings
    /\ module \in Pilots =>
         findings = UNION {f.finding : f \in {g \in facts : g.module = module}}

(* _complete_execution up to _validate_final_results.                      *)
Validate(t) ==
    /\ Runs(t, {"accounted"})
    /\ Top(t).done = Len(Top(t).plan) /\ Top(t).level = NoLevel /\ ~Top(t).validated
    /\ LET k == captures[Top(t).capture]
           factsOf(cell) == {f \in k.facts : f.level = cell[1] /\ f.module = cell[2]}
           holds ==
             /\ k.level = NoLevel /\ k.actual = k.plan
             /\ DOMAIN k.returned = Elements(k.plan)
             /\ \A cell \in Elements(k.plan) :
                  ReturnedAsEarned(factsOf(cell), cell[2], k.returned[cell])
       IN  \/ /\ holds
              /\ SetTop(t, [Top(t) EXCEPT !.validated = TRUE])
              /\ UNCHANGED raising
           \/ /\ ~holds
              /\ Raise(t, "accounting")
              /\ UNCHANGED stack
    /\ UNCHANGED <<context, inherited, captures, calls>>

(* Mutant: _project takes the obligation as covered if anything covers it. *)
ProjectableLoosely(plan, facts) ==
    \A level \in Levels(plan), m \in Pilots : \E f \in facts : f.level = level /\ f.module = m

(* _project: facts where the schedule has them, one for every row.         *)
Projectable(plan, facts) ==
    /\ \A f \in facts : (<<f.level, f.module>> \in Elements(plan)) # (f.by = "scheduler")
    /\ \A level \in Levels(plan), m \in Pilots :
         \E f \in facts : {g \in facts : g.level = level /\ g.module = m} = {f}

(* The rest of _complete_execution, and the return from _run_levels.       *)
Publish(t) ==
    /\ Runs(t, {"accounted"})
    /\ Top(t).validated
    /\ LET c == Top(t).capture
       IN  \/ /\ Projectable(captures[c].plan, captures[c].facts)
              /\ captures' = [captures EXCEPT ![c].outcome = "published",
                                              ![c].document = captures[c].facts]
              /\ context' = [context EXCEPT ![t] = Top(t).saved]
              /\ Pop(t)
              /\ UNCHANGED raising
           \/ /\ ~Projectable(captures[c].plan, captures[c].facts)
              /\ Raise(t, "accounting")
              /\ UNCHANGED <<context, stack, captures>>
    /\ UNCHANGED <<inherited, calls>>

(* The return from run.                                                    *)
FinishPublic(t) ==
    /\ Runs(t, {"public"})
    /\ Top(t).done = Len(PublicPlan)
    /\ context' = [context EXCEPT ![t] = Top(t).saved]
    /\ Pop(t)
    /\ UNCHANGED <<inherited, raising, captures, calls>>

-----------------------------------------------------------------------------
(***************************************************************************)
(* The checkers.  One that owns an obligation decides on a finding or on   *)
(* none, reports it with _observe, and returns it.                         *)
(***************************************************************************)
(* _observe up to its guard.                                               *)
Admit(t) ==
    /\ Runs(t, {"checker", "direct"})
    /\ Top(t).module \in Pilots /\ Top(t).stage = "working"
    /\ LET c == context[t]
           belongs == captures[c].module = Top(t).module /\ captures[c].level # NoLevel
           goOn(stage) == \E finding \in {{}, {Top(t).call}} :
             SetTop(t, [Top(t) EXCEPT !.stage = stage, !.finding = finding])
       IN  \/ c = NoCapture /\ goOn("observed") /\ UNCHANGED raising
           \/ c # NoCapture /\ belongs /\ goOn("admitted") /\ UNCHANGED raising
           \/ c # NoCapture /\ ~belongs /\ Raise(t, "accounting") /\ UNCHANGED stack
    /\ UNCHANGED <<context, inherited, captures, calls>>

(* The rest of _observe: the level is the one the capture is at by now.    *)
(* Evaluating the policy without a level raises for an unverified finding. *)
RecordFact(t) ==
    /\ Runs(t, {"checker", "direct"})
    /\ Top(t).stage = "admitted"
    /\ LET c == context[t]
           fact == [level |-> captures[c].level, module |-> Top(t).module,
                    finding |-> Top(t).finding, by |-> Top(t).kind, call |-> Top(t).call]
       IN  \/ /\ captures' = [captures EXCEPT ![c].facts = @ \cup {fact}]
              /\ SetTop(t, [Top(t) EXCEPT !.stage = "observed"])
              /\ UNCHANGED raising
           \/ /\ captures[c].level = NoLevel /\ Top(t).finding # {}
              /\ Raise(t, "accounting")
              /\ UNCHANGED <<stack, captures>>
    /\ UNCHANGED <<context, inherited, calls>>

Finished(frame) == frame.module \in Pilots => frame.stage = "observed"

(* The checker returns, and _invoke with it.                               *)
Return(t) ==
    /\ Runs(t, {"checker"}) /\ Finished(Top(t))
    /\ LET c      == Top(t).capture
           m      == Top(t).module
           runner == Head(Tail(stack[t]))
           earned == ReturnedAsEarned(captures[c].facts \ Top(t).earlier, m, Top(t).finding)
           below  == <<[runner EXCEPT !.done = @ + 1]>> \o Tail(Tail(stack[t]))
       IN  \/ /\ c = NoCapture
              /\ stack' = [stack EXCEPT ![t] = below]
              /\ UNCHANGED <<raising, captures>>
           \/ /\ c # NoCapture /\ earned
              /\ LET cell == <<captures[c].level, m>> IN
                 captures' = [captures EXCEPT
                   ![c].module = NoModule,
                   ![c].returned = [x \in DOMAIN @ \cup {cell} |->
                                      IF x = cell THEN Top(t).finding ELSE @[x]]]
              /\ stack' = [stack EXCEPT ![t] = below]
              /\ UNCHANGED raising
           \/ /\ c # NoCapture /\ ~earned
              /\ captures' = [captures EXCEPT ![c].module = NoModule]
              /\ Pop(t)
              /\ Raise(t, "accounting")
    /\ UNCHANGED <<context, inherited, calls>>

ReturnDirect(t) ==
    /\ Runs(t, {"direct"}) /\ Finished(Top(t))
    /\ Pop(t)
    /\ UNCHANGED <<context, inherited, raising, captures, calls>>

(* A checker raises on its own account.                                    *)
Fail(t) ==
    /\ Runs(t, {"checker", "direct"})
    /\ Top(t).stage = "working"
    /\ Raise(t, "checker")
    /\ captures' = IF Top(t).kind = "checker" /\ Top(t).capture # NoCapture
                   THEN [captures EXCEPT ![Top(t).capture].raised = TRUE] ELSE captures
    /\ UNCHANGED <<context, inherited, stack, calls>>

(* Mutant: an exception passes the runners without resetting the context. *)
UnwindWithoutReset(t) ==
    /\ raising[t] # "nothing"
    /\ Pop(t)
    /\ captures' = IF Top(t).kind = "checker" /\ Top(t).capture # NoCapture
                   THEN [captures EXCEPT ![Top(t).capture].module = NoModule]
                   ELSE IF Top(t).kind = "accounted"
                   THEN [captures EXCEPT ![Top(t).capture].outcome = "rejected"]
                   ELSE captures
    /\ Raise(t, IF Top(t).kind = "checker" THEN raising[t] ELSE "nothing")
    /\ UNCHANGED <<context, inherited, calls>>

(* Mutant: _invoke clears current_module only when the checker returned. *)
UnwindKeepsModule(t) ==
    /\ raising[t] # "nothing"
    /\ Pop(t)
    /\ context' = IF Top(t).kind \in {"accounted", "public"}
                  THEN [context EXCEPT ![t] = Top(t).saved] ELSE context
    /\ captures' = IF Top(t).kind = "accounted"
                   THEN [captures EXCEPT ![Top(t).capture].outcome = "rejected"]
                   ELSE captures
    /\ Raise(t, IF Top(t).kind = "checker" THEN raising[t] ELSE "nothing")
    /\ UNCHANGED <<inherited, calls>>

(* An exception leaves the innermost call.  From a checker it goes on into *)
(* the runner; from a runner into the caller's code, which ends with it or *)
(* handles it (tr_pol catches what its resolver raises).                   *)
Unwind(t) ==
    /\ raising[t] # "nothing"
    /\ Pop(t)
    /\ \/ /\ Top(t).kind = "checker"
          /\ captures' = IF Top(t).capture = NoCapture THEN captures
                         ELSE [captures EXCEPT ![Top(t).capture].module = NoModule]
          /\ UNCHANGED <<context, raising>>
       \/ /\ Top(t).kind \in {"accounted", "public"}
          /\ context' = [context EXCEPT ![t] = Top(t).saved]
          /\ captures' = IF Top(t).kind = "public" THEN captures
                         ELSE [captures EXCEPT ![Top(t).capture].outcome = "rejected"]
          /\ Raise(t, "nothing")
       \/ /\ Top(t).kind = "direct"
          /\ Raise(t, "nothing")
          /\ UNCHANGED <<context, captures>>
    /\ UNCHANGED <<inherited, calls>>

Next ==
    \E t \in Threads :
      \/ StartPublic(t) \/ \E plan \in Plans : StartAccounted(t, plan)
      \/ \E m \in Pilots : CallDirectly(t, m)
      \/ \E u \in Threads : Spawn(t, u)
      \/ BeginLevel(t) \/ Invoke(t) \/ EndLevel(t)
      \/ Validate(t) \/ Publish(t) \/ FinishPublic(t)
      \/ Admit(t) \/ RecordFact(t) \/ Return(t) \/ ReturnDirect(t)
      \/ Fail(t) \/ Unwind(t)

Spec == Init /\ [][Next]_vars

-----------------------------------------------------------------------------
Numbers == 1..Len(captures)

(* Contexts hold captures that exist, an exception travels only through a  *)
(* call, and a capture is inside a level or cell only while its run runs.  *)
TypeOK ==
    /\ context \in [Threads -> Numbers \cup {NoCapture}]
    /\ inherited \in [Threads -> Numbers \cup {NoCapture}]
    /\ raising \in [Threads -> {"nothing", "checker", "schedule", "accounting"}]
    /\ \A t \in Threads : raising[t] # "nothing" => stack[t] # <<>>
    /\ calls \in 0..MaxCalls
    /\ \A c \in Numbers :
         /\ captures[c].level \in Levels(captures[c].plan) \cup {NoLevel}
         /\ captures[c].module \in Modules \cup {NoModule}
         /\ captures[c].module # NoModule =>
              captures[c].level # NoLevel /\ captures[c].outcome = "running"
         /\ captures[c].outcome # "published" => captures[c].document = {}

Runners(t) == {i \in DOMAIN stack[t] : stack[t][i].kind \in {"accounted", "public"}}

(* A thread's context variable is that of the innermost runner it is in,   *)
(* and what the thread started with outside any: runs set and reset it     *)
(* properly however they nest and whichever way they end.                  *)
ContextFollowsRuns ==
    \A t \in Threads :
      /\ Runners(t) = {} => context[t] = inherited[t]
      /\ \A i \in Runners(t) : (\A j \in Runners(t) : i <= j) =>
           context[t] = IF stack[t][i].kind = "public" THEN NoCapture
                        ELSE stack[t][i].capture

(* A capture is in a cell exactly while one thread is in a checker that    *)
(* its own run invoked for it, and never in two.                           *)
CellsFollowCheckers ==
    \A c \in Numbers :
      LET inside == {p \in Threads \X (1..MaxCalls) :
                       /\ p[2] \in DOMAIN stack[p[1]]
                       /\ stack[p[1]][p[2]].kind = "checker"
                       /\ stack[p[1]][p[2]].capture = c}
      IN  /\ Cardinality(inside) = IF captures[c].module = NoModule THEN 0 ELSE 1
          /\ \A p \in inside : stack[p[1]][p[2]].module = captures[c].module

(* No run, nested or parallel, ever meets another one's schedule: the      *)
(* guards of _begin_level, _invoke and _end_level never fire.              *)
RunsNeverCollide == \A t \in Threads : raising[t] # "schedule"

(* A published row stands on the fact that the run's own checker recorded  *)
(* for it, or on the schedule; a checker that ran in a copy of the context *)
(* meanwhile, and was let through by the guard too early or recorded too   *)
(* late, is never taken for it.                                            *)
PublishedFactsAreOwn ==
    \A c \in Numbers : \A f \in captures[c].document :
      f.by = "scheduler" \/ (f.by = "checker" /\ f.call \in captures[c].own)

(* A run is refused only if one of its own checkers raised, or a checker   *)
(* was called directly in its context: runs within its resolver, and their *)
(* failures, do not hurt it.                                               *)
OnlyDirectCallsDisturb ==
    \A c \in Numbers :
      captures[c].outcome = "rejected" =>
        captures[c].raised \/ \E f \in captures[c].facts : f.by = "direct"
=============================================================================
