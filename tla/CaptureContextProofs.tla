------------------------ MODULE CaptureContextProofs ------------------------
(***************************************************************************)
(* Proofs about CaptureContext: for every set of threads, every set of     *)
(* schedules that go through their levels upwards, every public level,     *)
(* every choice of the checkers that call the caller's code, and every     *)
(* bound on the calls.                                                     *)
(***************************************************************************)
EXTENDS CaptureContext, FiniteSetTheorems, TLAPS

(***************************************************************************)
(* Stacks.  A stack n is s with the frame f on top.                        *)
(***************************************************************************)
Over(f, s, n) ==
    /\ Len(s) \in Nat /\ Len(n) = Len(s) + 1
    /\ n[1] = f /\ \A i \in 1..Len(s) : n[i + 1] = s[i]

LEMMA Pushing ==
    ASSUME NEW S, NEW s \in Seq(S), NEW f \in S
    PROVE  LET n == <<f>> \o s IN
           n \in Seq(S) /\ Over(f, s, n) /\ DOMAIN n = 1..Len(n) /\ n # <<>>
<1> DEFINE n == <<f>> \o s
<1>1. n \in Seq(S) /\ Len(n) = Len(s) + 1 /\ n[1] = f
  OBVIOUS
<1>2. \A i \in 1..Len(s) : n[i + 1] = s[i]
  OBVIOUS
<1> QED  BY <1>1, <1>2 DEF Over

LEMMA Popping ==
    ASSUME NEW S, NEW n \in Seq(S), n # <<>>
    PROVE  /\ Tail(n) \in Seq(S) /\ Head(n) = n[1] /\ n[1] \in S /\ Over(n[1], Tail(n), n)
           /\ DOMAIN n = 1..Len(n) /\ Len(n) >= 1
  BY DEF Over

(***************************************************************************)
(* How frames may lie upon each other, and what they make of the context:  *)
(* a checker is called by a runner and a runner by the caller's code, that *)
(* is by a checker or by nobody the stack knows.                           *)
(***************************************************************************)
IsRunner(f) == f.kind \in {"accounted", "public"}

Holds(f) == IF f.kind = "accounted" THEN f.capture ELSE NoCapture

Nested(s) ==
    /\ \A i \in 1..Len(s) : s[i].kind = "checker" =>
         /\ i + 1 \in 1..Len(s)
         /\ IsRunner(s[i + 1])
         /\ s[i].capture = Holds(s[i + 1])
    /\ \A i \in 1..Len(s) : i + 1 \in 1..Len(s) /\ IsRunner(s[i + 1]) => s[i].kind = "checker"

RunnersOf(s) == {i \in 1..Len(s) : IsRunner(s[i])}

(* The context `now' is that of the innermost runner, and what a runner    *)
(* saved is that of the next one outwards.                                 *)
Restores(s, now, first) ==
    /\ RunnersOf(s) = {} => now = first
    /\ \A i \in RunnersOf(s) : (\A j \in RunnersOf(s) : i <= j) => now = Holds(s[i])
    /\ \A i \in RunnersOf(s) : (\A j \in RunnersOf(s) : j <= i) => s[i].saved = first
    /\ \A i, j \in RunnersOf(s) :
         i < j /\ (\A k \in RunnersOf(s) : k <= i \/ k >= j) => s[i].saved = Holds(s[j])

(* A frame f that may be put upon s in the context `now', which becomes    *)
(* `next'.                                                                 *)
Fits(f, s, now, next) ==
    \/ /\ IsRunner(f) /\ f.saved = now /\ next = Holds(f)
       /\ Len(s) >= 1 => ~IsRunner(s[1])
    \/ /\ f.kind = "checker" /\ next = now
       /\ Len(s) >= 1 /\ IsRunner(s[1]) /\ f.capture = Holds(s[1])
    \/ /\ f.kind = "direct" /\ next = now
       /\ Len(s) >= 1 => ~IsRunner(s[1])

LEMMA NestedPush ==
    ASSUME NEW f, NEW s, NEW n, NEW now, NEW next, Over(f, s, n), Nested(s),
           Fits(f, s, now, next)
    PROVE  Nested(n)
<1>1. Len(s) \in Nat /\ Len(n) = Len(s) + 1 /\ n[1] = f /\ \A i \in 1..Len(s) : n[i + 1] = s[i]
  BY DEF Over
<1>2. ASSUME NEW i \in 1..Len(n)
      PROVE  /\ n[i].kind = "checker" =>
                  /\ i + 1 \in 1..Len(n) /\ IsRunner(n[i + 1])
                  /\ n[i].capture = Holds(n[i + 1])
             /\ i + 1 \in 1..Len(n) /\ IsRunner(n[i + 1]) => n[i].kind = "checker"
  <2>1. CASE i = 1
    <3>1. Len(s) >= 1 => n[2] = s[1]
      <4>1. Len(s) >= 1 => 1 \in 1..Len(s)
        BY <1>1
      <4> QED  BY <1>1, <4>1
    <3>2. i + 1 = 2 /\ (i + 1 \in 1..Len(n) <=> Len(s) >= 1)
      BY <1>1, <2>1
    <3> QED  BY <1>1, <2>1, <3>1, <3>2 DEF Fits, IsRunner
  <2>2. CASE i > 1
    <3>1. /\ i - 1 \in 1..Len(s) /\ n[(i - 1) + 1] = s[i - 1] /\ (i - 1) + 1 = i
          /\ i + 1 \in 1..Len(n) <=> i \in 1..Len(s)
          /\ i \in 1..Len(s) => n[i + 1] = s[i]
      BY <1>1, <2>2
    <3>2. n[i] = s[i - 1]
      BY <3>1
    <3> QED  BY <3>1, <3>2 DEF Nested
  <2> QED  BY <1>1, <2>1, <2>2
<1> QED  BY <1>2 DEF Nested

LEMMA NestedPop ==
    ASSUME NEW f, NEW s, NEW n, Over(f, s, n), Nested(n)
    PROVE  /\ Nested(s)
           /\ f.kind = "checker" =>
                Len(s) >= 1 /\ IsRunner(s[1]) /\ f.capture = Holds(s[1])
           /\ f.kind # "checker" /\ Len(s) >= 1 => ~IsRunner(s[1])
<1>1. Len(s) \in Nat /\ Len(n) = Len(s) + 1 /\ n[1] = f /\ \A i \in 1..Len(s) : n[i + 1] = s[i]
  BY DEF Over
<1>2. ASSUME NEW i \in 1..Len(s)
      PROVE  /\ s[i].kind = "checker" =>
                  /\ i + 1 \in 1..Len(s) /\ IsRunner(s[i + 1])
                  /\ s[i].capture = Holds(s[i + 1])
             /\ i + 1 \in 1..Len(s) /\ IsRunner(s[i + 1]) => s[i].kind = "checker"
  <2>1. /\ i + 1 \in 1..Len(n) /\ n[i + 1] = s[i]
        /\ i + 1 \in 1..Len(s) <=> (i + 1) + 1 \in 1..Len(n)
        /\ i + 1 \in 1..Len(s) => n[(i + 1) + 1] = s[i + 1]
    BY <1>1
  <2> QED  BY <2>1 DEF Nested
<1>3. 1 \in 1..Len(n) /\ (Len(s) >= 1 <=> 2 \in 1..Len(n)) /\ 1 + 1 = 2
      /\ (Len(s) >= 1 => n[2] = s[1])
  <2>1. Len(s) >= 1 => 1 \in 1..Len(s)
    BY <1>1
  <2> QED  BY <1>1, <2>1
<1>4. /\ f.kind = "checker" => 2 \in 1..Len(n) /\ IsRunner(n[2]) /\ f.capture = Holds(n[2])
      /\ 2 \in 1..Len(n) /\ IsRunner(n[2]) => f.kind = "checker"
  BY <1>1, <1>3 DEF Nested
<1> QED  BY <1>2, <1>3, <1>4 DEF Nested

LEMMA RunnersOver ==
    ASSUME NEW f, NEW s, NEW n, Over(f, s, n)
    PROVE  /\ Len(s) \in Nat
           /\ \A i \in RunnersOf(s) :
                i \in Nat /\ i >= 1 /\ i + 1 \in RunnersOf(n) /\ n[i + 1] = s[i]
           /\ \A i \in RunnersOf(n) : i \in Nat /\ i >= 1
           /\ \A i \in RunnersOf(n) : i # 1 => i - 1 \in RunnersOf(s) /\ n[i] = s[i - 1]
           /\ 1 \in RunnersOf(n) <=> IsRunner(f)
           /\ n[1] = f
<1>1. Len(s) \in Nat /\ Len(n) = Len(s) + 1 /\ n[1] = f /\ \A i \in 1..Len(s) : n[i + 1] = s[i]
  BY DEF Over
<1>2. ASSUME NEW i \in 1..Len(s)
      PROVE  i \in Nat /\ i >= 1 /\ i + 1 \in 1..Len(n) /\ n[i + 1] = s[i]
  BY <1>1
<1>3. ASSUME NEW i \in 1..Len(n), i # 1
      PROVE  i - 1 \in 1..Len(s) /\ n[i] = s[i - 1]
  <2>1. i - 1 \in 1..Len(s) /\ (i - 1) + 1 = i
    BY <1>1, <1>3
  <2>2. n[(i - 1) + 1] = s[i - 1]
    BY <1>1, <2>1
  <2> QED  BY <2>1, <2>2
<1>4. 1 \in 1..Len(n) /\ \A i \in 1..Len(n) : i \in Nat /\ i >= 1
  BY <1>1
<1> QED  BY <1>1, <1>2, <1>3, <1>4 DEF RunnersOf

(* A runner that is entered saves what it finds, and the others below it   *)
(* stay as they are.                                                       *)
LEMMA RestoresPush ==
    ASSUME NEW f, NEW s, NEW n, NEW now, NEW next, NEW first, Over(f, s, n),
           Restores(s, now, first), Fits(f, s, now, next)
    PROVE  Restores(n, next, first)
<1>1. /\ \A i \in RunnersOf(s) : i \in Nat /\ i >= 1 /\ i + 1 \in RunnersOf(n) /\ n[i + 1] = s[i]
      /\ \A i \in RunnersOf(n) : i \in Nat /\ i >= 1
      /\ \A i \in RunnersOf(n) : i # 1 => i - 1 \in RunnersOf(s) /\ n[i] = s[i - 1]
      /\ 1 \in RunnersOf(n) <=> IsRunner(f)
      /\ n[1] = f
  BY RunnersOver
<1>2. ASSUME NEW i \in RunnersOf(n), i # 1, \A j \in RunnersOf(n) : j <= i
      PROVE  n[i].saved = first
  <2>1. i - 1 \in RunnersOf(s) /\ n[i] = s[i - 1] /\ i \in Nat /\ i - 1 \in Nat
    BY <1>1, <1>2
  <2>2. ASSUME NEW j \in RunnersOf(s) PROVE j <= i - 1
    <3>1. j \in Nat /\ j + 1 \in RunnersOf(n)
      BY <1>1
    <3>2. j + 1 <= i
      BY <1>2, <3>1
    <3> QED  BY <2>1, <3>1, <3>2
  <2> QED  BY <2>1, <2>2 DEF Restores
<1>3. ASSUME NEW i \in RunnersOf(n), NEW j \in RunnersOf(n), i # 1, i < j,
             \A k \in RunnersOf(n) : k <= i \/ k >= j
      PROVE  n[i].saved = Holds(n[j])
  <2>1. /\ i - 1 \in RunnersOf(s) /\ n[i] = s[i - 1] /\ j - 1 \in RunnersOf(s) /\ n[j] = s[j - 1]
        /\ i \in Nat /\ j \in Nat /\ i - 1 < j - 1
    BY <1>1, <1>3
  <2>2. ASSUME NEW k \in RunnersOf(s) PROVE k <= i - 1 \/ k >= j - 1
    <3>1. k \in Nat /\ k + 1 \in RunnersOf(n)
      BY <1>1
    <3>2. k + 1 <= i \/ k + 1 >= j
      BY <1>3, <3>1
    <3> QED  BY <2>1, <3>1, <3>2
  <2> QED  BY <2>1, <2>2 DEF Restores
<1>4. CASE IsRunner(f) /\ f.saved = now /\ next = Holds(f)
  <2>1. 1 \in RunnersOf(n)
    BY <1>1, <1>4
  <2>2. ASSUME NEW i \in RunnersOf(n), \A j \in RunnersOf(n) : i <= j PROVE next = Holds(n[i])
    <3>1. i <= 1 /\ i >= 1 /\ i \in Nat
      BY <1>1, <2>1, <2>2
    <3>2. i = 1
      BY <3>1
    <3> QED  BY <1>1, <1>4, <3>2
  <2>3. ASSUME \A j \in RunnersOf(n) : j <= 1 PROVE n[1].saved = first
    <3>1. ASSUME NEW i \in RunnersOf(s) PROVE FALSE
      <4>1. i \in Nat /\ i >= 1 /\ i + 1 \in RunnersOf(n)
        BY <1>1
      <4>2. i + 1 <= 1
        BY <2>3, <4>1
      <4> QED  BY <4>1, <4>2
    <3>2. RunnersOf(s) = {}
      BY <3>1
    <3> QED  BY <1>1, <1>4, <3>2 DEF Restores
  <2>4. ASSUME NEW j \in RunnersOf(n), 1 < j, \A k \in RunnersOf(n) : k <= 1 \/ k >= j
        PROVE  n[1].saved = Holds(n[j])
    <3>1. j - 1 \in RunnersOf(s) /\ n[j] = s[j - 1] /\ j \in Nat
      BY <1>1, <2>4
    <3>2. ASSUME NEW k \in RunnersOf(s) PROVE j - 1 <= k
      <4>1. k \in Nat /\ k >= 1 /\ k + 1 \in RunnersOf(n)
        BY <1>1
      <4>2. k + 1 <= 1 \/ k + 1 >= j
        BY <2>4, <4>1
      <4> QED  BY <3>1, <4>1, <4>2
    <3>3. now = Holds(s[j - 1])
      BY <3>1, <3>2 DEF Restores
    <3> QED  BY <1>1, <1>4, <3>1, <3>3
  <2> QED  BY <1>2, <1>3, <2>1, <2>2, <2>3, <2>4 DEF Restores
<1>5. CASE ~IsRunner(f) /\ next = now
  <2>1. 1 \notin RunnersOf(n)
    BY <1>1, <1>5
  <2>2. RunnersOf(n) = {} => next = first
    <3>1. RunnersOf(n) = {} => RunnersOf(s) = {}
      BY <1>1
    <3> QED  BY <1>5, <3>1 DEF Restores
  <2>3. ASSUME NEW i \in RunnersOf(n), \A j \in RunnersOf(n) : i <= j PROVE next = Holds(n[i])
    <3>1. i # 1 /\ i \in Nat /\ i - 1 \in RunnersOf(s) /\ n[i] = s[i - 1]
      BY <1>1, <2>1
    <3>2. ASSUME NEW j \in RunnersOf(s) PROVE i - 1 <= j
      <4>1. j \in Nat /\ j + 1 \in RunnersOf(n)
        BY <1>1
      <4>2. i <= j + 1
        BY <2>3, <4>1
      <4> QED  BY <3>1, <4>1, <4>2
    <3> QED  BY <1>5, <3>1, <3>2 DEF Restores
  <2> QED  BY <1>2, <1>3, <2>1, <2>2, <2>3 DEF Restores
<1> QED  BY <1>4, <1>5 DEF Fits, IsRunner

LEMMA RestoresPop ==
    ASSUME NEW f, NEW s, NEW n, NEW now, NEW next, NEW first, Over(f, s, n),
           Restores(n, next, first), now = IF IsRunner(f) THEN f.saved ELSE next
    PROVE  Restores(s, now, first) /\ (IsRunner(f) => next = Holds(f))
<1>1. /\ \A i \in RunnersOf(s) : i \in Nat /\ i >= 1 /\ i + 1 \in RunnersOf(n) /\ n[i + 1] = s[i]
      /\ \A i \in RunnersOf(n) : i \in Nat /\ i >= 1
      /\ \A i \in RunnersOf(n) : i # 1 => i - 1 \in RunnersOf(s) /\ n[i] = s[i - 1]
      /\ 1 \in RunnersOf(n) <=> IsRunner(f)
      /\ n[1] = f
  BY RunnersOver
<1>2. IsRunner(f) => next = Holds(f)
  <2> SUFFICES ASSUME IsRunner(f) PROVE next = Holds(f)
    OBVIOUS
  <2>1. 1 \in RunnersOf(n) /\ \A j \in RunnersOf(n) : 1 <= j
    BY <1>1
  <2> QED  BY <1>1, <2>1 DEF Restores
<1>3. ASSUME NEW i \in RunnersOf(s), \A j \in RunnersOf(s) : j <= i PROVE s[i].saved = first
  <2>1. i \in Nat /\ i >= 1 /\ i + 1 \in RunnersOf(n) /\ n[i + 1] = s[i]
    BY <1>1
  <2>2. ASSUME NEW j \in RunnersOf(n) PROVE j <= i + 1
    <3>1. CASE j = 1
      BY <2>1, <3>1
    <3>2. CASE j # 1
      <4>1. j - 1 \in RunnersOf(s) /\ j \in Nat
        BY <1>1, <3>2
      <4>2. j - 1 <= i
        BY <1>3, <4>1
      <4> QED  BY <2>1, <4>1, <4>2
    <3> QED  BY <3>1, <3>2
  <2> QED  BY <2>1, <2>2 DEF Restores
<1>4. ASSUME NEW i \in RunnersOf(s), NEW j \in RunnersOf(s), i < j,
             \A k \in RunnersOf(s) : k <= i \/ k >= j
      PROVE  s[i].saved = Holds(s[j])
  <2>1. /\ i \in Nat /\ i >= 1 /\ i + 1 \in RunnersOf(n) /\ n[i + 1] = s[i]
        /\ j \in Nat /\ j >= 1 /\ j + 1 \in RunnersOf(n) /\ n[j + 1] = s[j]
        /\ i + 1 < j + 1
    BY <1>1, <1>4
  <2>2. ASSUME NEW k \in RunnersOf(n) PROVE k <= i + 1 \/ k >= j + 1
    <3>1. CASE k = 1
      BY <2>1, <3>1
    <3>2. CASE k # 1
      <4>1. k - 1 \in RunnersOf(s) /\ k \in Nat
        BY <1>1, <3>2
      <4>2. k - 1 <= i \/ k - 1 >= j
        BY <1>4, <4>1
      <4> QED  BY <2>1, <4>1, <4>2
    <3> QED  BY <3>1, <3>2
  <2> QED  BY <2>1, <2>2 DEF Restores
<1>5. ASSUME RunnersOf(s) = {} PROVE now = first
  <2>1. CASE IsRunner(f)
    <3>1. 1 \in RunnersOf(n) /\ \A j \in RunnersOf(n) : j <= 1
      BY <1>1, <1>5, <2>1
    <3> QED  BY <1>1, <2>1, <3>1 DEF Restores
  <2>2. CASE ~IsRunner(f)
    <3>1. RunnersOf(n) = {}
      BY <1>1, <1>5, <2>2
    <3> QED  BY <2>2, <3>1 DEF Restores
  <2> QED  BY <2>1, <2>2
<1>6. ASSUME NEW i \in RunnersOf(s), \A j \in RunnersOf(s) : i <= j PROVE now = Holds(s[i])
  <2>1. i \in Nat /\ i >= 1 /\ i + 1 \in RunnersOf(n) /\ n[i + 1] = s[i]
    BY <1>1
  <2>2. ASSUME NEW k \in RunnersOf(n), k # 1 PROVE k >= i + 1
    <3>1. k - 1 \in RunnersOf(s) /\ k \in Nat
      BY <1>1, <2>2
    <3>2. i <= k - 1
      BY <1>6, <3>1
    <3> QED  BY <2>1, <3>1, <3>2
  <2>3. CASE IsRunner(f)
    <3>1. /\ 1 \in RunnersOf(n) /\ 1 < i + 1
          /\ \A k \in RunnersOf(n) : k <= 1 \/ k >= i + 1
      BY <1>1, <2>1, <2>2, <2>3
    <3> QED  BY <1>1, <2>1, <2>3, <3>1 DEF Restores
  <2>4. CASE ~IsRunner(f)
    <3>1. \A k \in RunnersOf(n) : i + 1 <= k
      BY <1>1, <2>1, <2>2, <2>4
    <3> QED  BY <2>1, <2>4, <3>1 DEF Restores
  <2> QED  BY <2>3, <2>4
<1> QED  BY <1>2, <1>3, <1>4, <1>5, <1>6 DEF Restores

(* What a frame on the top says may change, as long as it stays what it is. *)
SameFrame(f, g) ==
    /\ f.kind = g.kind /\ Holds(f) = Holds(g)
    /\ IsRunner(f) => f.saved = g.saved
    /\ f.kind = "checker" => f.capture = g.capture

LEMMA ChangeTop ==
    ASSUME NEW f, NEW g, NEW s, NEW n, NEW m, NEW now, NEW first,
           f.kind \in {"accounted", "public", "checker", "direct"},
           Over(f, s, n), Over(g, s, m), SameFrame(f, g), Nested(n), Restores(n, now, first)
    PROVE  Nested(m) /\ Restores(m, now, first)
<1> DEFINE before == IF IsRunner(f) THEN f.saved ELSE now
<1>1. Nested(s) /\ Restores(s, before, first) /\ (IsRunner(f) => now = Holds(f))
  BY NestedPop, RestoresPop
<1>2. /\ f.kind = "checker" => Len(s) >= 1 /\ IsRunner(s[1]) /\ f.capture = Holds(s[1])
      /\ f.kind # "checker" /\ Len(s) >= 1 => ~IsRunner(s[1])
  BY NestedPop
<1>3. Fits(g, s, before, now)
  BY <1>1, <1>2 DEF Fits, SameFrame, IsRunner
<1> HIDE DEF before
<1> QED  BY <1>1, <1>3, NestedPush, RestoresPush

(***************************************************************************)
(* Types.  The captures are numbered 1..n.                                 *)
(***************************************************************************)
Levelled == Nat \cup {NoLevel}

Stages == {"working", "admitted", "observed"}

Errors == {"nothing", "checker", "schedule", "accounting"}

Facts == [level : Levelled, module : Pilots, finding : SUBSET Nat,
          by : {"checker", "direct", "scheduler"}, call : Nat]

AccountedFrames(n) ==
    [kind : {"accounted"}, capture : 1..n, plan : Plans, saved : 0..n, level : Levelled,
     done : Nat, validated : BOOLEAN]

PublicFrames(n) == [kind : {"public"}, saved : 0..n, done : Nat]

(* A checker has found nothing before it observes, and observes only if it *)
(* owns an obligation.                                                     *)
Decided(f) ==
    /\ f.stage # "working" => f.module \in Pilots
    /\ f.stage = "working" => f.finding = {}

CheckerFrames(n) ==
    {f \in [kind : {"checker"}, call : Nat, module : Modules, stage : Stages,
            finding : SUBSET Nat, capture : 0..n, earlier : SUBSET Facts] : Decided(f)}

DirectFrames ==
    {f \in [kind : {"direct"}, call : Nat, module : Pilots, stage : Stages,
            finding : SUBSET Nat] : Decided(f)}

Frames(n) == AccountedFrames(n) \cup PublicFrames(n) \cup CheckerFrames(n) \cup DirectFrames

Returns == UNION {[S -> SUBSET Nat] : S \in SUBSET (Levelled \X Modules)}

Captured ==
    [plan : Plans, level : Levelled, module : Modules \cup {NoModule},
     actual : Seq(Nat \X Modules), facts : SUBSET Facts,
     returned : Returns,
     outcome : {"running", "published", "rejected"}, document : SUBSET Facts,
     own : SUBSET Nat, raised : BOOLEAN]

LEMMA KindOfFrame ==
    ASSUME NEW n, NEW f \in Frames(n)
    PROVE  /\ f.kind \in {"accounted", "public", "checker", "direct"}
           /\ f.kind = "accounted" => f \in AccountedFrames(n)
           /\ f.kind = "public" => f \in PublicFrames(n)
           /\ f.kind = "checker" => f \in CheckerFrames(n)
           /\ f.kind = "direct" => f \in DirectFrames
  BY DEF Frames, AccountedFrames, PublicFrames, CheckerFrames, DirectFrames

LEMMA FramesGrow ==
    ASSUME NEW n \in Nat, NEW k \in Nat, n <= k
    PROVE  Frames(n) \subseteq Frames(k) /\ Seq(Frames(n)) \subseteq Seq(Frames(k))
<1>1. 0..n \subseteq 0..k /\ 1..n \subseteq 1..k
  OBVIOUS
<1>2. AccountedFrames(n) \subseteq AccountedFrames(k)
  BY <1>1 DEF AccountedFrames
<1>3. PublicFrames(n) \subseteq PublicFrames(k)
  BY <1>1 DEF PublicFrames
<1>4. CheckerFrames(n) \subseteq CheckerFrames(k)
  BY <1>1 DEF CheckerFrames
<1>5. Frames(n) \subseteq Frames(k)
  BY <1>2, <1>3, <1>4, Zenon DEF Frames
<1>6. ASSUME NEW s \in Seq(Frames(n)) PROVE s \in Seq(Frames(k))
  BY <1>5
<1> QED  BY <1>5, <1>6

(***************************************************************************)
(* One thread: its stack s, its context now and at its start, what it is   *)
(* raising, with n captures and after k calls.                             *)
(***************************************************************************)
OneThread(s, now, first, what, n, k) ==
    /\ s \in Seq(Frames(n)) /\ now \in 0..n /\ first \in 0..n
    /\ what \in Errors
    /\ what # "nothing" => s # <<>>
    /\ Len(s) <= k
    /\ Nested(s)
    /\ Restores(s, now, first)

LEMMA ThreadWaits ==
    ASSUME NEW s, NEW now, NEW first, NEW what, NEW n \in Nat, NEW k \in Nat,
           NEW m \in Nat, NEW l \in Nat, n <= m, k <= l,
           OneThread(s, now, first, what, n, k)
    PROVE  OneThread(s, now, first, what, m, l)
<1>1. s \in Seq(Frames(m))
  BY FramesGrow DEF OneThread
<1>2. Len(s) \in Nat /\ Len(s) <= l /\ now \in 0..m /\ first \in 0..m
  BY DEF OneThread
<1> QED  BY <1>1, <1>2 DEF OneThread

(* A call is entered. *)
LEMMA ThreadEnters ==
    ASSUME NEW s, NEW now, NEW first, NEW n \in Nat, NEW k \in Nat, NEW m \in Nat,
           n <= m, NEW f \in Frames(m), NEW next \in 0..m,
           OneThread(s, now, first, "nothing", n, k), Fits(f, s, now, next)
    PROVE  /\ OneThread(<<f>> \o s, next, first, "nothing", m, k + 1)
           /\ Over(f, s, <<f>> \o s)
<1>1. s \in Seq(Frames(m)) /\ Len(s) \in Nat /\ first \in 0..m
  BY FramesGrow DEF OneThread
<1> DEFINE t == <<f>> \o s
<1>2. t \in Seq(Frames(m)) /\ Over(f, s, t) /\ t # <<>>
  BY <1>1, Pushing
<1> HIDE DEF t
<1>3. Nested(t) /\ Restores(t, next, first)
  BY <1>2, NestedPush, RestoresPush DEF OneThread
<1>4. Len(t) <= k + 1
  BY <1>1, <1>2 DEF OneThread, Over
<1>5. OneThread(t, next, first, "nothing", m, k + 1)
  BY <1>1, <1>2, <1>3, <1>4 DEF OneThread, Errors
<1> QED  BY <1>2, <1>5 DEF t

(* The innermost call goes on. *)
LEMMA ThreadGoesOn ==
    ASSUME NEW s, NEW now, NEW first, NEW n \in Nat, NEW k \in Nat, NEW g \in Frames(n),
           NEW what \in Errors, NEW r, s # <<>>,
           OneThread(s, now, first, r, n, k), SameFrame(s[1], g)
    PROVE  /\ OneThread(<<g>> \o Tail(s), now, first, what, n, k)
           /\ Over(s[1], Tail(s), s) /\ Over(g, Tail(s), <<g>> \o Tail(s))
<1>1. /\ s \in Seq(Frames(n)) /\ Tail(s) \in Seq(Frames(n)) /\ s[1] \in Frames(n)
      /\ Over(s[1], Tail(s), s)
  BY Popping DEF OneThread
<1> DEFINE t == <<g>> \o Tail(s)
<1>2. t \in Seq(Frames(n)) /\ Over(g, Tail(s), t) /\ t # <<>>
  BY <1>1, Pushing
<1> HIDE DEF t
<1>3. Nested(t) /\ Restores(t, now, first)
  BY <1>1, <1>2, ChangeTop, KindOfFrame DEF OneThread
<1>4. Len(t) <= k
  BY <1>1, <1>2 DEF OneThread, Over
<1>5. OneThread(t, now, first, what, n, k)
  BY <1>1, <1>2, <1>3, <1>4 DEF OneThread
<1> QED  BY <1>1, <1>2, <1>5 DEF t

LEMMA NonEmpty ==
    ASSUME NEW S, NEW s \in Seq(S)
    PROVE  s # <<>> <=> Len(s) >= 1
  OBVIOUS

(* The innermost call, and what lies under it. *)
LEMMA ThreadTop ==
    ASSUME NEW s, NEW now, NEW first, NEW n, NEW k, NEW r, s # <<>>,
           OneThread(s, now, first, r, n, k)
    PROVE  /\ s \in Seq(Frames(n)) /\ Tail(s) \in Seq(Frames(n)) /\ s[1] \in Frames(n)
           /\ Over(s[1], Tail(s), s)
           /\ s[1].kind = "checker" =>
                /\ Tail(s) # <<>> /\ IsRunner(Tail(s)[1])
                /\ s[1].capture = Holds(Tail(s)[1]) /\ now = Holds(Tail(s)[1])
           /\ IsRunner(s[1]) => now = Holds(s[1])
           /\ s[1].kind # "checker" => Tail(s) = <<>> \/ ~IsRunner(Tail(s)[1])
<1>1. /\ s \in Seq(Frames(n)) /\ Tail(s) \in Seq(Frames(n)) /\ s[1] \in Frames(n)
      /\ Over(s[1], Tail(s), s)
  BY Popping DEF OneThread
<1>2. Nested(Tail(s))
      /\ (s[1].kind = "checker" =>
            Len(Tail(s)) >= 1 /\ IsRunner(Tail(s)[1]) /\ s[1].capture = Holds(Tail(s)[1]))
      /\ (s[1].kind # "checker" /\ Len(Tail(s)) >= 1 => ~IsRunner(Tail(s)[1]))
  BY <1>1, NestedPop DEF OneThread
<1> DEFINE next == IF IsRunner(s[1]) THEN s[1].saved ELSE now
<1>3. Restores(Tail(s), next, first) /\ (IsRunner(s[1]) => now = Holds(s[1]))
  BY <1>1, RestoresPop DEF OneThread
<1>4. Tail(s) # <<>> <=> Len(Tail(s)) >= 1
  BY <1>1, NonEmpty, Zenon
<1>5. ASSUME s[1].kind = "checker" PROVE now = Holds(Tail(s)[1])
  <2>1. ~IsRunner(s[1]) /\ next = now
    BY <1>5 DEF IsRunner
  <2>2. Len(Tail(s)) \in Nat
    BY <1>1 DEF Over
  <2>3. 1 \in RunnersOf(Tail(s)) /\ \A j \in RunnersOf(Tail(s)) : 1 <= j
    BY <1>2, <1>5, <2>2 DEF RunnersOf
  <2> QED  BY <1>3, <2>1, <2>3 DEF Restores
<1> HIDE DEF next
<1> QED  BY <1>1, <1>2, <1>3, <1>4, <1>5

(* It ends, and an exception goes on from a checker only. *)
LEMMA ThreadLeaves ==
    ASSUME NEW s, NEW now, NEW first, NEW n \in Nat, NEW k \in Nat,
           NEW what \in Errors, NEW r, NEW next, s # <<>>,
           OneThread(s, now, first, r, n, k),
           what # "nothing" => s[1].kind = "checker",
           next = IF IsRunner(s[1]) THEN s[1].saved ELSE now
    PROVE  OneThread(Tail(s), next, first, what, n, k)
<1>1. /\ s \in Seq(Frames(n)) /\ Tail(s) \in Seq(Frames(n)) /\ s[1] \in Frames(n)
      /\ Over(s[1], Tail(s), s)
      /\ s[1].kind = "checker" => Tail(s) # <<>>
  BY ThreadTop
<1>2. Nested(Tail(s))
  BY <1>1, NestedPop DEF OneThread
<1>3. Restores(Tail(s), next, first)
  BY <1>1, RestoresPop DEF OneThread
<1>4. Len(Tail(s)) \in Nat /\ Len(Tail(s)) <= k
  BY <1>1 DEF OneThread, Over
<1>5. IsRunner(s[1]) => s[1].saved \in 0..n
  BY <1>1, KindOfFrame DEF IsRunner, AccountedFrames, PublicFrames
<1> QED  BY <1>1, <1>2, <1>3, <1>4, <1>5 DEF OneThread

(***************************************************************************)
(* The typing and nesting invariant.                                       *)
(***************************************************************************)
ThreadsSound ==
    \A t \in Threads :
      OneThread(stack[t], context[t], inherited[t], raising[t], Len(captures), calls)

Sound ==
    /\ captures \in Seq(Captured)
    /\ calls \in 0..MaxCalls
    /\ context \in [Threads -> 0..Len(captures)]
    /\ inherited \in [Threads -> 0..Len(captures)]
    /\ raising \in [Threads -> Errors]
    /\ stack \in [Threads -> Seq(Frames(Len(captures)))]
    /\ ThreadsSound

(* Only thread t moves. *)
Alone(t) ==
    /\ \A u \in Threads \ {t} :
         context'[u] = context[u] /\ stack'[u] = stack[u] /\ raising'[u] = raising[u]
    /\ DOMAIN context' = Threads /\ DOMAIN stack' = Threads /\ DOMAIN raising' = Threads
    /\ context' = [u \in Threads |-> context'[u]]
    /\ stack' = [u \in Threads |-> stack'[u]]
    /\ raising' = [u \in Threads |-> raising'[u]]
    /\ inherited' = inherited

LEMMA ThreadStep ==
    ASSUME Sound, NEW t \in Threads, Alone(t),
           captures' \in Seq(Captured), Len(captures) <= Len(captures'),
           calls' \in 0..MaxCalls, calls <= calls',
           OneThread(stack'[t], context'[t], inherited[t], raising'[t], Len(captures'), calls')
    PROVE  Sound'
<1>1. Len(captures) \in Nat /\ Len(captures') \in Nat /\ calls \in Nat /\ calls' \in Nat
  BY CaptureContextAssumption DEF Sound
<1>2. ASSUME NEW u \in Threads
      PROVE  OneThread(stack'[u], context'[u], inherited'[u], raising'[u], Len(captures'), calls')
  <2>1. CASE u = t
    BY <2>1 DEF Alone
  <2>2. CASE u # t
    <3>1. OneThread(stack[u], context[u], inherited[u], raising[u], Len(captures), calls)
      BY DEF Sound, ThreadsSound
    <3>2. OneThread(stack[u], context[u], inherited[u], raising[u], Len(captures'), calls')
      BY <1>1, <3>1, ThreadWaits
    <3> QED  BY <2>2, <3>2 DEF Alone
  <2> QED  BY <2>1, <2>2
<1>3. ASSUME NEW u \in Threads
      PROVE  /\ stack'[u] \in Seq(Frames(Len(captures'))) /\ context'[u] \in 0..Len(captures')
             /\ inherited'[u] \in 0..Len(captures') /\ raising'[u] \in Errors
  BY <1>2 DEF OneThread
<1>4. stack' \in [Threads -> Seq(Frames(Len(captures')))]
  BY <1>3 DEF Alone
<1>5. context' \in [Threads -> 0..Len(captures')] /\ raising' \in [Threads -> Errors]
  BY <1>3 DEF Alone
<1>6. inherited' \in [Threads -> 0..Len(captures')]
  BY <1>3 DEF Alone, Sound
<1> QED  BY <1>2, <1>4, <1>5, <1>6 DEF Sound, ThreadsSound

(* What is known of the innermost call. *)
LEMMA TopFacts ==
    ASSUME Sound, NEW t \in Threads, stack[t] # <<>>
    PROVE  /\ Top(t) = stack[t][1] /\ Top(t) \in Frames(Len(captures))
           /\ Over(Top(t), Tail(stack[t]), stack[t])
           /\ IsRunner(Top(t)) => context[t] = Holds(Top(t))
           /\ Top(t).kind = "checker" =>
                /\ Tail(stack[t]) # <<>> /\ IsRunner(Tail(stack[t])[1])
                /\ Top(t).capture = Holds(Tail(stack[t])[1]) /\ context[t] = Top(t).capture
           /\ Top(t).kind # "checker" => Tail(stack[t]) = <<>> \/ ~IsRunner(Tail(stack[t])[1])
           /\ Tail(stack[t]) \in Seq(Frames(Len(captures)))
           /\ \A what \in Errors : \A next :
                /\ what # "nothing" => Top(t).kind = "checker"
                /\ next = IF IsRunner(Top(t)) THEN Top(t).saved ELSE context[t]
                => OneThread(Tail(stack[t]), next, inherited[t], what, Len(captures), calls)
           /\ \A g \in Frames(Len(captures)), what \in Errors :
                SameFrame(Top(t), g) =>
                  /\ Over(g, Tail(stack[t]), <<g>> \o Tail(stack[t]))
                  /\ OneThread(<<g>> \o Tail(stack[t]), context[t], inherited[t], what,
                               Len(captures), calls)
<1> DEFINE s == stack[t]
<1>1. OneThread(s, context[t], inherited[t], raising[t], Len(captures), calls)
  BY DEF Sound, ThreadsSound
<1>2. Len(captures) \in Nat /\ calls \in Nat
  BY CaptureContextAssumption DEF Sound
<1>3. s \in Seq(Frames(Len(captures)))
  BY <1>1 DEF OneThread
<1>4. Head(s) = s[1] /\ s[1] \in Frames(Len(captures)) /\ Tail(s) \in Seq(Frames(Len(captures)))
  BY <1>3, Popping
<1>5. /\ Over(s[1], Tail(s), s)
      /\ s[1].kind = "checker" =>
                /\ Tail(s) # <<>> /\ IsRunner(Tail(s)[1])
                /\ s[1].capture = Holds(Tail(s)[1]) /\ context[t] = Holds(Tail(s)[1])
      /\ IsRunner(s[1]) => context[t] = Holds(s[1])
      /\ s[1].kind # "checker" => Tail(s) = <<>> \/ ~IsRunner(Tail(s)[1])
  <2> HIDE DEF s
  <2>2. s # <<>>
    BY DEF s
  <2> QED  BY <1>1, <2>2, ThreadTop
<1>6. ASSUME NEW what \in Errors, NEW next,
             what # "nothing" => s[1].kind = "checker",
             next = IF IsRunner(s[1]) THEN s[1].saved ELSE context[t]
      PROVE  OneThread(Tail(s), next, inherited[t], what, Len(captures), calls)
  <2> HIDE DEF s
  <2>2. s # <<>>
    BY DEF s
  <2> QED  BY <1>1, <1>2, <1>6, <2>2, ThreadLeaves, Zenon
<1>7. ASSUME NEW g \in Frames(Len(captures)), NEW what \in Errors, SameFrame(s[1], g)
      PROVE  /\ Over(g, Tail(s), <<g>> \o Tail(s))
             /\ OneThread(<<g>> \o Tail(s), context[t], inherited[t], what, Len(captures), calls)
  <2> HIDE DEF s
  <2>2. s # <<>>
    BY DEF s
  <2> QED  BY <1>1, <1>2, <1>7, <2>2, ThreadGoesOn
<1>8. Top(t) = s[1]
  BY <1>4 DEF Top
<1> HIDE DEF s
<1>9. /\ Top(t) = s[1] /\ Top(t) \in Frames(Len(captures))
      /\ Over(Top(t), Tail(s), s)
      /\ IsRunner(Top(t)) => context[t] = Holds(Top(t))
      /\ Top(t).kind = "checker" =>
           /\ Tail(s) # <<>> /\ IsRunner(Tail(s)[1])
           /\ Top(t).capture = Holds(Tail(s)[1]) /\ context[t] = Top(t).capture
      /\ Top(t).kind # "checker" => Tail(s) = <<>> \/ ~IsRunner(Tail(s)[1])
      /\ Tail(s) \in Seq(Frames(Len(captures)))
  BY <1>4, <1>5, <1>8
<1>10. \A what \in Errors : \A next :
         /\ what # "nothing" => Top(t).kind = "checker"
         /\ next = IF IsRunner(Top(t)) THEN Top(t).saved ELSE context[t]
         => OneThread(Tail(s), next, inherited[t], what, Len(captures), calls)
  BY <1>6, <1>8
<1>11. \A g \in Frames(Len(captures)), what \in Errors :
         SameFrame(Top(t), g) =>
           /\ Over(g, Tail(s), <<g>> \o Tail(s))
           /\ OneThread(<<g>> \o Tail(s), context[t], inherited[t], what, Len(captures), calls)
  BY <1>7, <1>8
<1> QED  BY <1>9, <1>10, <1>11 DEF s

LEMMA Replacing ==
    ASSUME NEW S, NEW s \in Seq(S), NEW i \in 1..Len(s), NEW x \in S, NEW n,
           n = [s EXCEPT ![i] = x]
    PROVE  /\ n \in Seq(S) /\ Len(n) = Len(s) /\ n[i] = x
           /\ \A j \in 1..Len(s) : j # i => n[j] = s[j]
  OBVIOUS

(***************************************************************************)
(* The ways an action moves its thread keep the invariant.                 *)
(***************************************************************************)
LEMMA StepEnters ==
    ASSUME Sound, NEW t \in Threads, Alone(t), NEW f \in Frames(Len(captures')),
           raising[t] = "nothing", raising'[t] = "nothing", calls < MaxCalls,
           Push(t, f), Fits(f, stack[t], context[t], context'[t]),
           context'[t] \in 0..Len(captures'),
           captures' \in Seq(Captured), Len(captures) <= Len(captures')
    PROVE  Sound' /\ Over(f, stack[t], stack'[t])
<1>1. Len(captures) \in Nat /\ Len(captures') \in Nat /\ calls \in Nat /\ calls' = calls + 1
      /\ calls' \in 0..MaxCalls /\ calls <= calls'
  BY CaptureContextAssumption DEF Sound, Push
<1>2. OneThread(stack[t], context[t], inherited[t], "nothing", Len(captures), calls)
  BY DEF Sound, ThreadsSound
<1>3. stack'[t] = <<f>> \o stack[t]
  BY DEF Push, Sound
<1>4. /\ OneThread(stack'[t], context'[t], inherited[t], "nothing", Len(captures'), calls + 1)
      /\ Over(f, stack[t], stack'[t])
  <2>1. /\ OneThread(<<f>> \o stack[t], context'[t], inherited[t], "nothing",
                     Len(captures'), calls + 1)
        /\ Over(f, stack[t], <<f>> \o stack[t])
    BY <1>1, <1>2, ThreadEnters, Zenon
  <2> QED  BY <1>3, <2>1, Zenon
<1> QED  BY <1>1, <1>4, ThreadStep

LEMMA StepGoesOn ==
    ASSUME Sound, NEW t \in Threads, Alone(t), NEW g \in Frames(Len(captures)),
           stack[t] # <<>>, SameFrame(Top(t), g), stack'[t] = <<g>> \o Tail(stack[t]),
           raising'[t] \in Errors, context'[t] = context[t], calls' = calls,
           captures' \in Seq(Captured), Len(captures') = Len(captures)
    PROVE  Sound' /\ Over(g, Tail(stack[t]), stack'[t])
<1>1. Len(captures) \in Nat /\ calls \in Nat /\ calls \in 0..MaxCalls
  BY CaptureContextAssumption DEF Sound
<1>2. /\ Over(g, Tail(stack[t]), stack'[t])
      /\ OneThread(stack'[t], context'[t], inherited[t], raising'[t], Len(captures), calls)
  BY TopFacts
<1>3. /\ OneThread(stack'[t], context'[t], inherited[t], raising'[t], Len(captures'), calls')
      /\ Len(captures) <= Len(captures') /\ calls <= calls' /\ calls' \in 0..MaxCalls
  BY <1>1, <1>2
<1>4. Sound'
  BY <1>3, ThreadStep
<1> QED  BY <1>2, <1>4

LEMMA StepRaises ==
    ASSUME Sound, NEW t \in Threads, Alone(t), stack[t] # <<>>, stack'[t] = stack[t],
           raising'[t] \in Errors, context'[t] = context[t], calls' = calls,
           captures' \in Seq(Captured), Len(captures') = Len(captures)
    PROVE  Sound'
<1>1. Len(captures) \in Nat /\ calls \in Nat /\ calls \in 0..MaxCalls
  BY CaptureContextAssumption DEF Sound
<1>2. OneThread(stack[t], context[t], inherited[t], raising[t], Len(captures), calls)
  BY DEF Sound, ThreadsSound
<1>3. OneThread(stack'[t], context'[t], inherited[t], raising'[t], Len(captures), calls)
  BY <1>2 DEF OneThread
<1> QED  BY <1>1, <1>3, ThreadStep

LEMMA StepLeaves ==
    ASSUME Sound, NEW t \in Threads, Alone(t), stack[t] # <<>>, stack'[t] = Tail(stack[t]),
           raising'[t] \in Errors, raising'[t] # "nothing" => Top(t).kind = "checker",
           context'[t] = IF IsRunner(Top(t)) THEN Top(t).saved ELSE context[t], calls' = calls,
           captures' \in Seq(Captured), Len(captures') = Len(captures)
    PROVE  Sound'
<1>1. Len(captures) \in Nat /\ calls \in Nat /\ calls \in 0..MaxCalls
  BY CaptureContextAssumption DEF Sound
<1>2. OneThread(stack'[t], context'[t], inherited[t], raising'[t], Len(captures), calls)
  BY TopFacts
<1> QED  BY <1>1, <1>2, ThreadStep

(* A checker returns into its runner, which counts it. *)
LEMMA StepReturns ==
    ASSUME Sound, NEW t \in Threads, Alone(t), stack[t] # <<>>, Top(t).kind = "checker",
           NEW g \in Frames(Len(captures)), SameFrame(Tail(stack[t])[1], g),
           stack'[t] = <<g>> \o Tail(Tail(stack[t])),
           raising'[t] = "nothing", context'[t] = context[t], calls' = calls,
           captures' \in Seq(Captured), Len(captures') = Len(captures)
    PROVE  /\ Sound'
           /\ Over(Tail(stack[t])[1], Tail(Tail(stack[t])), Tail(stack[t]))
           /\ Over(g, Tail(Tail(stack[t])), stack'[t])
<1> DEFINE s == Tail(stack[t])
<1>1. Len(captures) \in Nat /\ calls \in Nat /\ calls \in 0..MaxCalls /\ "nothing" \in Errors
  BY CaptureContextAssumption DEF Sound, Errors
<1>2. OneThread(s, context[t], inherited[t], "nothing", Len(captures), calls) /\ s # <<>>
  BY <1>1, TopFacts DEF IsRunner
<1> HIDE DEF s
<1>3. /\ OneThread(<<g>> \o Tail(s), context[t], inherited[t], "nothing", Len(captures), calls)
      /\ Over(s[1], Tail(s), s) /\ Over(g, Tail(s), <<g>> \o Tail(s))
  <2>1. SameFrame(s[1], g)
    BY DEF s
  <2> QED  BY <1>1, <1>2, <2>1, ThreadGoesOn, Zenon
<1>4. stack'[t] = <<g>> \o Tail(s)
  BY DEF s
<1>5. Sound'
  <2>1. OneThread(stack'[t], context'[t], inherited[t], raising'[t], Len(captures'), calls')
    BY <1>3, <1>4, Zenon
  <2>2. Len(captures) <= Len(captures') /\ calls <= calls' /\ calls' \in 0..MaxCalls
    BY <1>1
  <2> QED  BY <2>1, <2>2, ThreadStep
<1> QED  BY <1>3, <1>4, <1>5 DEF s

(***************************************************************************)
(* Each action keeps the invariant, and this is what it does.              *)
(***************************************************************************)
LEMMA ActsAlone ==
    ASSUME Sound, NEW t \in Threads,
           \/ StartPublic(t) \/ \E plan \in Plans : StartAccounted(t, plan)
           \/ \E m \in Pilots : CallDirectly(t, m)
           \/ BeginLevel(t) \/ Invoke(t) \/ EndLevel(t)
           \/ Validate(t) \/ Publish(t) \/ FinishPublic(t)
           \/ Admit(t) \/ RecordFact(t) \/ Return(t) \/ ReturnDirect(t)
           \/ Fail(t) \/ Unwind(t)
    PROVE  Alone(t)
<1>1. ASSUME NEW v PROVE stack' = [stack EXCEPT ![t] = v] \/ stack' = stack =>
        /\ \A u \in Threads \ {t} : stack'[u] = stack[u]
        /\ DOMAIN stack' = Threads /\ stack' = [u \in Threads |-> stack'[u]]
  BY DEF Sound
<1>2. ASSUME NEW v PROVE context' = [context EXCEPT ![t] = v] \/ context' = context =>
        /\ \A u \in Threads \ {t} : context'[u] = context[u]
        /\ DOMAIN context' = Threads /\ context' = [u \in Threads |-> context'[u]]
  BY DEF Sound
<1>3. ASSUME NEW v PROVE raising' = [raising EXCEPT ![t] = v] \/ raising' = raising =>
        /\ \A u \in Threads \ {t} : raising'[u] = raising[u]
        /\ DOMAIN raising' = Threads /\ raising' = [u \in Threads |-> raising'[u]]
  BY DEF Sound
<1>4. \/ stack' = stack
      \/ \E v : stack' = [stack EXCEPT ![t] = v]
  BY DEF StartPublic, StartAccounted, CallDirectly, BeginLevel, Invoke, EndLevel, Validate,
         Publish, FinishPublic, Admit, RecordFact, Return, ReturnDirect, Fail, Unwind,
         Push, SetTop, Pop
<1>5. \/ context' = context
      \/ \E v : context' = [context EXCEPT ![t] = v]
  BY DEF StartPublic, StartAccounted, CallDirectly, BeginLevel, Invoke, EndLevel, Validate,
         Publish, FinishPublic, Admit, RecordFact, Return, ReturnDirect, Fail, Unwind
<1>6. \/ raising' = raising
      \/ \E v : raising' = [raising EXCEPT ![t] = v]
  BY DEF StartPublic, StartAccounted, CallDirectly, BeginLevel, Invoke, EndLevel, Validate,
         Publish, FinishPublic, Admit, RecordFact, Return, ReturnDirect, Fail, Unwind, Raise
<1>7. inherited' = inherited
  BY DEF StartPublic, StartAccounted, CallDirectly, BeginLevel, Invoke, EndLevel, Validate,
         Publish, FinishPublic, Admit, RecordFact, Return, ReturnDirect, Fail, Unwind
<1>8. /\ \A u \in Threads \ {t} : stack'[u] = stack[u]
      /\ DOMAIN stack' = Threads /\ stack' = [u \in Threads |-> stack'[u]]
  BY <1>1, <1>4
<1>9. /\ \A u \in Threads \ {t} : context'[u] = context[u]
      /\ DOMAIN context' = Threads /\ context' = [u \in Threads |-> context'[u]]
  BY <1>2, <1>5
<1>10. /\ \A u \in Threads \ {t} : raising'[u] = raising[u]
       /\ DOMAIN raising' = Threads /\ raising' = [u \in Threads |-> raising'[u]]
  BY <1>3, <1>6
<1> QED  BY <1>7, <1>8, <1>9, <1>10 DEF Alone

LEMMA Reset ==
    ASSUME NEW k \in Captured
    PROVE  /\ \A l \in Levelled : [k EXCEPT !.level = l] \in Captured
           /\ \A l \in Levelled, F \in SUBSET Facts :
                [k EXCEPT !.level = l, !.facts = F] \in Captured
           /\ \A a \in Seq(Nat \X Modules), m \in Modules, o \in SUBSET Nat :
                [k EXCEPT !.actual = a, !.module = m, !.own = o] \in Captured
           /\ \A F \in SUBSET Facts : [k EXCEPT !.facts = F] \in Captured
           /\ \A F \in SUBSET Facts :
                [k EXCEPT !.outcome = "published", !.document = F] \in Captured
           /\ [k EXCEPT !.module = NoModule] \in Captured
           /\ \A r \in Returns : [k EXCEPT !.module = NoModule, !.returned = r] \in Captured
           /\ [k EXCEPT !.raised = TRUE] \in Captured
           /\ [k EXCEPT !.outcome = "rejected"] \in Captured
  BY DEF Captured

LEMMA CallersStack ==
    ASSUME Sound, NEW t \in Threads, CallersCode(t)
    PROVE  /\ raising[t] = "nothing"
           /\ Len(stack[t]) >= 1 => ~IsRunner(stack[t][1])
           /\ stack[t] # <<>> =>
                /\ Top(t) = stack[t][1] /\ Top(t).kind \in {"checker", "direct"}
                /\ Top(t).module \in Calling /\ Top(t).stage = "working"
<1>1. stack[t] \in Seq(Frames(Len(captures)))
  BY DEF Sound
<1>2. stack[t] # <<>> <=> Len(stack[t]) >= 1
  BY <1>1, NonEmpty, Zenon
<1>3. stack[t] # <<>> => Top(t) = stack[t][1]
  BY TopFacts
<1> QED  BY <1>2, <1>3 DEF CallersCode, In, IsRunner

LEMMA StartAccountedStep ==
    ASSUME Sound, NEW t \in Threads, NEW plan \in Plans, StartAccounted(t, plan)
    PROVE  /\ Sound'
           /\ Over([kind |-> "accounted", capture |-> Len(captures) + 1,
                    plan |-> plan, saved |-> context[t], level |-> NoLevel, done |-> 0,
                    validated |-> FALSE], stack[t], stack'[t])
           /\ Len(captures') = Len(captures) + 1
           /\ captures'[Len(captures) + 1] = FreshCapture(plan)
           /\ \A c \in 1..Len(captures) : captures'[c] = captures[c]
<1> DEFINE f == [kind |-> "accounted", capture |-> Len(captures) + 1,
                 plan |-> plan, saved |-> context[t], level |-> NoLevel, done |-> 0,
                 validated |-> FALSE]
<1>1. Alone(t)
  BY ActsAlone
<1>2. /\ raising[t] = "nothing" /\ raising' = raising /\ calls < MaxCalls
      /\ captures' = Append(captures, FreshCapture(plan)) /\ Push(t, f)
      /\ context' = [context EXCEPT ![t] = Len(captures) + 1]
      /\ Len(stack[t]) >= 1 => ~IsRunner(stack[t][1])
  BY CallersStack DEF StartAccounted
<1>3. captures \in Seq(Captured) /\ Len(captures) \in Nat /\ context[t] \in 0..Len(captures)
      /\ context'[t] = Len(captures) + 1
  BY <1>2 DEF Sound
<1>4. FreshCapture(plan) \in Captured
  <2>1. [cell \in {} |-> {}] \in Returns
    <3>1. {} \in SUBSET (Levelled \X Modules) /\ [cell \in {} |-> {}] \in [{} -> SUBSET Nat]
      OBVIOUS
    <3> QED  BY <3>1 DEF Returns
  <2>2. <<>> \in Seq(Nat \X Modules)
    OBVIOUS
  <2> QED  BY <2>1, <2>2 DEF Captured, FreshCapture, Levelled
<1>5. /\ captures' \in Seq(Captured) /\ Len(captures') = Len(captures) + 1
      /\ captures'[Len(captures) + 1] = FreshCapture(plan)
      /\ \A c \in 1..Len(captures) : captures'[c] = captures[c]
  BY <1>2, <1>3, <1>4
<1>6. f \in Frames(Len(captures'))
  BY <1>3, <1>5 DEF Frames, AccountedFrames, Levelled
<1>7. Fits(f, stack[t], context[t], context'[t])
  BY <1>2, <1>3 DEF Fits, IsRunner, Holds
<1>8. context'[t] \in 0..Len(captures') /\ Len(captures) <= Len(captures')
  BY <1>3, <1>5
<1> HIDE DEF f
<1>9. Sound' /\ Over(f, stack[t], stack'[t])
  BY <1>1, <1>2, <1>5, <1>6, <1>7, <1>8, StepEnters
<1> QED  BY <1>5, <1>9 DEF f

LEMMA StartPublicStep ==
    ASSUME Sound, NEW t \in Threads, StartPublic(t)
    PROVE  /\ Sound'
           /\ Over([kind |-> "public", saved |-> context[t], done |-> 0], stack[t], stack'[t])
<1> DEFINE f == [kind |-> "public", saved |-> context[t], done |-> 0]
<1>1. Alone(t)
  BY ActsAlone
<1>2. /\ raising[t] = "nothing" /\ raising' = raising /\ calls < MaxCalls
      /\ captures' = captures /\ Push(t, f)
      /\ context' = [context EXCEPT ![t] = NoCapture]
      /\ Len(stack[t]) >= 1 => ~IsRunner(stack[t][1])
  BY CallersStack DEF StartPublic
<1>3. captures' \in Seq(Captured) /\ Len(captures) \in Nat /\ context[t] \in 0..Len(captures)
      /\ context'[t] = NoCapture
  BY <1>2 DEF Sound
<1>4. f \in Frames(Len(captures'))
  BY <1>2, <1>3 DEF Frames, PublicFrames
<1>5. Fits(f, stack[t], context[t], context'[t])
  BY <1>2, <1>3 DEF Fits, IsRunner, Holds
<1>6. context'[t] \in 0..Len(captures') /\ Len(captures) <= Len(captures')
  BY <1>2, <1>3 DEF NoCapture
<1> HIDE DEF f
<1>7. Sound' /\ Over(f, stack[t], stack'[t])
  BY <1>1, <1>2, <1>3, <1>4, <1>5, <1>6, StepEnters
<1> QED  BY <1>7 DEF f

LEMMA CallDirectlyStep ==
    ASSUME Sound, NEW t \in Threads, NEW m \in Pilots, CallDirectly(t, m)
    PROVE  /\ Sound'
           /\ Over([kind |-> "direct", call |-> calls + 1, module |-> m,
                    stage |-> "working", finding |-> {}], stack[t], stack'[t])
<1> DEFINE f == [kind |-> "direct", call |-> calls + 1, module |-> m,
                 stage |-> "working", finding |-> {}]
<1>1. Alone(t)
  BY ActsAlone
<1>2. /\ raising[t] = "nothing" /\ raising' = raising /\ calls < MaxCalls
      /\ captures' = captures /\ Push(t, f) /\ context' = context
      /\ Len(stack[t]) >= 1 => ~IsRunner(stack[t][1])
  BY CallersStack DEF CallDirectly
<1>3. captures' \in Seq(Captured) /\ Len(captures) \in Nat /\ context[t] \in 0..Len(captures)
      /\ calls + 1 \in Nat
  BY <1>2, CaptureContextAssumption DEF Sound
<1>4. f \in Frames(Len(captures'))
  BY <1>3 DEF Frames, DirectFrames, Decided, Stages
<1>5. Fits(f, stack[t], context[t], context'[t])
  BY <1>2 DEF Fits
<1>6. context'[t] \in 0..Len(captures') /\ Len(captures) <= Len(captures')
  BY <1>2, <1>3
<1> HIDE DEF f
<1>7. Sound' /\ Over(f, stack[t], stack'[t])
  BY <1>1, <1>2, <1>3, <1>4, <1>5, <1>6, StepEnters
<1> QED  BY <1>7 DEF f

LEMMA SpawnStep ==
    ASSUME Sound, NEW t \in Threads, NEW u \in Threads, Spawn(t, u)
    PROVE  Sound'
<1>1. /\ stack[u] = <<>> /\ stack' = stack /\ raising' = raising /\ captures' = captures
      /\ calls' = calls /\ context' = [context EXCEPT ![u] = context[t]]
      /\ inherited' = [inherited EXCEPT ![u] = context[t]]
  BY DEF Spawn
<1>2. ASSUME NEW v \in Threads
      PROVE  OneThread(stack[v], context'[v], inherited'[v], raising[v], Len(captures), calls)
  <2>1. OneThread(stack[v], context[v], inherited[v], raising[v], Len(captures), calls)
    BY DEF Sound, ThreadsSound
  <2>2. CASE v # u
    <3>1. context'[v] = context[v] /\ inherited'[v] = inherited[v]
      BY <1>1, <2>2 DEF Sound
    <3> QED  BY <2>1, <3>1
  <2>3. CASE v = u
    <3>1. /\ context'[v] = context[t] /\ inherited'[v] = context[t]
          /\ context[t] \in 0..Len(captures) /\ stack[v] = <<>>
      BY <1>1, <2>3 DEF Sound
    <3>2. Restores(<<>>, context[t], context[t])
      BY DEF Restores, RunnersOf
    <3> QED  BY <2>1, <3>1, <3>2 DEF OneThread
  <2> QED  BY <2>2, <2>3
<1> QED  BY <1>1, <1>2 DEF Sound, ThreadsSound

LEMMA AccountedOnTop ==
    ASSUME Sound, NEW t \in Threads, In(t, {"accounted"})
    PROVE  /\ stack[t] # <<>> /\ Top(t) \in AccountedFrames(Len(captures))
           /\ Top(t).kind = "accounted" /\ IsRunner(Top(t)) /\ Holds(Top(t)) = Top(t).capture
           /\ Top(t) \in Frames(Len(captures))
           /\ context[t] = Top(t).capture /\ context[t] \in 1..Len(captures)
           /\ context[t] # NoCapture
           /\ captures[context[t]] \in Captured
           /\ Top(t).plan \in Seq(Nat \X Modules)
<1>1. stack[t] # <<>> /\ Top(t).kind = "accounted" /\ IsRunner(Top(t))
      /\ Holds(Top(t)) = Top(t).capture
  BY DEF In, IsRunner, Holds
<1>2. context[t] = Top(t).capture /\ Top(t) \in AccountedFrames(Len(captures))
      /\ Top(t) \in Frames(Len(captures))
  BY <1>1, TopFacts, KindOfFrame
<1>3. context[t] \in 1..Len(captures) /\ Len(captures) \in Nat
  BY <1>2 DEF AccountedFrames, Sound
<1>4. captures[context[t]] \in Captured
  BY <1>3 DEF Sound
<1>5. Top(t).plan \in Seq(Nat \X Modules)
  BY <1>2, CaptureContextAssumption DEF AccountedFrames
<1> QED  BY <1>1, <1>2, <1>3, <1>4, <1>5 DEF NoCapture

LEMMA BeginLevelStep ==
    ASSUME Sound, NEW t \in Threads, BeginLevel(t)
    PROVE  /\ Sound'
           /\ raising'[t] # "schedule" =>
                Over([Top(t) EXCEPT !.level = Top(t).plan[Top(t).done + 1][1]],
                     Tail(stack[t]), stack'[t])
<1> DEFINE c == context[t]
           f == Top(t)
           level == Top(t).plan[Top(t).done + 1][1]
           g == [Top(t) EXCEPT !.level = level]
<1>1. Alone(t)
  BY ActsAlone
<1>2. /\ stack[t] # <<>> /\ f \in AccountedFrames(Len(captures))
      /\ f.kind = "accounted" /\ IsRunner(f) /\ Holds(f) = f.capture
      /\ c = f.capture /\ c \in 1..Len(captures) /\ captures[c] \in Captured
      /\ f.plan \in Seq(Nat \X Modules) /\ raising[t] = "nothing"
      /\ f.done < Len(f.plan)
  BY AccountedOnTop DEF BeginLevel, Runs
<1>3. level \in Nat
  <2>1. f.done + 1 \in 1..Len(f.plan)
    BY <1>2 DEF AccountedFrames
  <2>2. f.plan[f.done + 1] \in Nat \X Modules
    BY <1>2, <2>1
  <2> QED  BY <2>2
<1>4. g \in AccountedFrames(Len(captures)) /\ SameFrame(f, g)
  BY <1>2, <1>3 DEF AccountedFrames, Levelled, SameFrame, Holds, IsRunner
<1>5. stack[t] \in Seq(Frames(Len(captures))) /\ captures \in Seq(Captured)
  BY DEF Sound
<1>6. CASE /\ captures' = [captures EXCEPT ![c].level = level]
           /\ SetTop(t, g)
           /\ UNCHANGED <<context, inherited, raising, calls>>
  <2>1. [captures[c] EXCEPT !.level = level] \in Captured
    BY <1>2, <1>3, Reset DEF Levelled
  <2>2. captures' = [captures EXCEPT ![c] = [captures[c] EXCEPT !.level = level]]
    BY <1>6
  <2>3. captures' \in Seq(Captured) /\ Len(captures') = Len(captures)
    BY <1>2, <1>5, <2>1, <2>2, Replacing
  <2>4. stack'[t] = <<g>> \o Tail(stack[t]) /\ raising'[t] = "nothing" /\ context'[t] = context[t]
        /\ calls' = calls
    BY <1>2, <1>6 DEF SetTop, Sound
  <2>5. g \in Frames(Len(captures)) /\ "nothing" \in Errors
    BY <1>4 DEF Frames, Errors
  <2> HIDE DEF c, f, level, g
  <2>6. SameFrame(Top(t), g)
    BY <1>4 DEF f
  <2>7. Sound' /\ Over(g, Tail(stack[t]), stack'[t])
    BY <1>1, <1>2, <2>3, <2>4, <2>5, <2>6, StepGoesOn
  <2> QED  BY <2>7 DEF g, level
<1>7. CASE Raise(t, "schedule") /\ UNCHANGED <<context, inherited, stack, captures, calls>>
  <2>1. raising'[t] = "schedule" /\ "schedule" \in Errors
    BY <1>7 DEF Raise, Sound, Errors
  <2>2. Sound'
    BY <1>1, <1>2, <1>5, <1>7, <2>1, StepRaises
  <2> QED  BY <2>1, <2>2
<1> QED  BY <1>6, <1>7 DEF BeginLevel

LEMMA InvokeStep ==
    ASSUME Sound, NEW t \in Threads, Invoke(t)
    PROVE  /\ Sound' /\ stack[t] # <<>> /\ IsRunner(Top(t)) /\ raising[t] = "nothing"
           /\ Top(t) = stack[t][1]
           /\ \/ /\ context[t] = NoCapture /\ Top(t).kind = "public"
                 /\ captures' = captures
                 /\ \E m \in Modules :
                      Over([kind |-> "checker", call |-> calls + 1, module |-> m,
                            stage |-> "working", finding |-> {},
                            capture |-> NoCapture, earlier |-> {}], stack[t], stack'[t])
              \/ /\ Top(t).kind = "accounted" /\ context[t] = Top(t).capture
                 /\ context[t] \in 1..Len(captures)
                 /\ LET c == context[t]
                        m == Top(t).plan[Top(t).done + 1][2]
                        k == [captures[c] EXCEPT !.actual = Append(@, <<captures[c].level, m>>),
                                                 !.module = m,
                                                 !.own = @ \cup {calls + 1}]
                    IN  /\ captures[c].level # NoLevel /\ captures[c].module = NoModule
                        /\ Len(captures[c].actual) < Len(captures[c].plan)
                        /\ captures[c].plan[Len(captures[c].actual) + 1] =
                             <<captures[c].level, m>>
                        /\ m \in Modules /\ MoreAtLevel(Top(t))
                        /\ captures' = [captures EXCEPT ![c] = k]
                        /\ Over([kind |-> "checker", call |-> calls + 1, module |-> m,
                                 stage |-> "working", finding |-> {},
                                 capture |-> c, earlier |-> captures[c].facts],
                                stack[t], stack'[t])
              \/ /\ Top(t).kind = "accounted" /\ context[t] = Top(t).capture
                 /\ context[t] \in 1..Len(captures)
                 /\ MoreAtLevel(Top(t))
                 /\ raising'[t] = "schedule" /\ stack' = stack /\ captures' = captures
                 /\ LET c == context[t]
                        m == Top(t).plan[Top(t).done + 1][2]
                    IN  ~ /\ captures[c].level # NoLevel
                          /\ captures[c].module = NoModule
                          /\ Len(captures[c].actual) < Len(captures[c].plan)
                          /\ captures[c].plan[Len(captures[c].actual) + 1] =
                               <<captures[c].level, m>>
<1>1. Alone(t)
  BY ActsAlone
<1>2. /\ stack[t] # <<>> /\ raising[t] = "nothing" /\ calls < MaxCalls
      /\ \/ In(t, {"public"}) /\ Top(t).done < Len(PublicPlan)
         \/ In(t, {"accounted"}) /\ MoreAtLevel(Top(t))
  BY DEF Invoke, Runs, In
<1>3. /\ Top(t) = stack[t][1] /\ Top(t) \in Frames(Len(captures)) /\ IsRunner(Top(t))
      /\ context[t] = Holds(Top(t)) /\ Len(captures) \in Nat /\ captures \in Seq(Captured)
      /\ stack[t] \in Seq(Frames(Len(captures))) /\ calls + 1 \in Nat
  BY <1>2, TopFacts, CaptureContextAssumption DEF In, IsRunner, Sound
<1>4. ASSUME NEW m \in Modules, NEW c \in 0..Len(captures), c = Holds(Top(t)),
             NEW E \in SUBSET Facts,
             Push(t, [kind |-> "checker", call |-> calls + 1, module |-> m,
                      stage |-> "working", finding |-> {}, capture |-> c, earlier |-> E]),
             captures' \in Seq(Captured), Len(captures') = Len(captures),
             context' = context, raising' = raising
      PROVE  Sound' /\ Over([kind |-> "checker", call |-> calls + 1, module |-> m,
                      stage |-> "working", finding |-> {}, capture |-> c, earlier |-> E],
                      stack[t], stack'[t])
  <2> DEFINE f == [kind |-> "checker", call |-> calls + 1, module |-> m,
                   stage |-> "working", finding |-> {}, capture |-> c, earlier |-> E]
  <2>1. f \in Frames(Len(captures'))
    BY <1>3, <1>4 DEF Frames, CheckerFrames, Decided, Stages
  <2>2. Len(stack[t]) >= 1
    BY <1>2, <1>3, NonEmpty, Zenon
  <2>3. Fits(f, stack[t], context[t], context'[t])
    BY <1>3, <1>4, <2>2 DEF Fits
  <2>4. context'[t] \in 0..Len(captures') /\ Len(captures) <= Len(captures')
    BY <1>3, <1>4 DEF Sound
  <2> HIDE DEF f
  <2>5. Push(t, f)
    BY <1>4 DEF f
  <2>6. Sound' /\ Over(f, stack[t], stack'[t])
    BY <1>1, <1>2, <1>4, <2>1, <2>3, <2>4, <2>5, StepEnters
  <2> QED  BY <2>6 DEF f
<1>5. CASE In(t, {"public"}) /\ Top(t).done < Len(PublicPlan)
  <2>1. Top(t).kind = "public" /\ Top(t) \in PublicFrames(Len(captures)) /\ Holds(Top(t)) = NoCapture
    BY <1>3, <1>5, KindOfFrame DEF In, Holds
  <2>2. NextModule(Top(t)) \in Modules
    <3>1. Top(t).done + 1 \in 1..Len(PublicPlan)
      BY <1>5, <2>1, CaptureContextAssumption DEF PublicFrames
    <3>2. PublicPlan[Top(t).done + 1] \in Modules
      BY <3>1, CaptureContextAssumption
    <3> QED  BY <2>1, <3>2 DEF NextModule
  <2>3. context[t] = NoCapture
    BY <1>3, <2>1
  <2> DEFINE m == NextModule(Top(t))
  <2>4. /\ Push(t, [kind |-> "checker", call |-> calls + 1, module |-> m,
                    stage |-> "working", finding |-> {},
                    capture |-> NoCapture, earlier |-> {}])
        /\ UNCHANGED <<context, inherited, raising, captures>>
    BY <2>3 DEF Invoke
  <2> HIDE DEF m
  <2>5. m \in Modules /\ NoCapture \in 0..Len(captures) /\ NoCapture = Holds(Top(t))
    BY <1>3, <2>1, <2>2 DEF m, NoCapture
  <2>6. {} \in SUBSET Facts /\ captures' \in Seq(Captured) /\ Len(captures') = Len(captures)
    BY <1>3, <2>4
  <2>7. Sound' /\ Over([kind |-> "checker", call |-> calls + 1, module |-> m,
                    stage |-> "working", finding |-> {},
                    capture |-> NoCapture, earlier |-> {}], stack[t], stack'[t])
    BY <1>4, <2>4, <2>5, <2>6
  <2> QED  BY <1>2, <1>3, <2>1, <2>3, <2>4, <2>5, <2>7
<1>6. CASE In(t, {"accounted"}) /\ MoreAtLevel(Top(t))
  <2> DEFINE c == context[t]
             m == Top(t).plan[Top(t).done + 1][2]
             cell == <<captures[c].level, m>>
             k == [captures[c] EXCEPT !.actual = Append(@, <<captures[c].level, m>>),
                                      !.module = m,
                                      !.own = @ \cup {calls + 1}]
             expected ==
               /\ captures[c].level # NoLevel
               /\ captures[c].module = NoModule
               /\ Len(captures[c].actual) < Len(captures[c].plan)
               /\ captures[c].plan[Len(captures[c].actual) + 1] = cell
             f == [kind |-> "checker", call |-> calls + 1, module |-> m,
                   stage |-> "working", finding |-> {},
                   capture |-> c, earlier |-> captures[c].facts]
  <2>1. /\ Top(t) \in AccountedFrames(Len(captures)) /\ Top(t).kind = "accounted"
        /\ c = Top(t).capture /\ c \in 1..Len(captures) /\ c # NoCapture
        /\ captures[c] \in Captured /\ Top(t).plan \in Seq(Nat \X Modules)
    BY <1>6, AccountedOnTop
  <2>2. NextModule(Top(t)) = m /\ m \in Modules
    <3>1. Top(t).done + 1 \in 1..Len(Top(t).plan)
      BY <1>6, <2>1 DEF MoreAtLevel, AccountedFrames
    <3>2. Top(t).plan[Top(t).done + 1] \in Nat \X Modules
      BY <2>1, <3>1
    <3>3. m \in Modules
      BY <3>2
    <3> QED  BY <2>1, <3>3 DEF NextModule
  <2>3. CASE expected /\ Push(t, f) /\ UNCHANGED <<context, inherited, raising>>
             /\ captures' = [captures EXCEPT ![c].actual = Append(@, cell),
                                              ![c].module = m,
                                              ![c].own = @ \cup {calls + 1}]
    <3>1. captures' = [captures EXCEPT ![c] = k]
      BY <1>3, <2>1, <2>3
    <3>2. k \in Captured
      <4>1. /\ captures[c].actual \in Seq(Nat \X Modules) /\ captures[c].own \in SUBSET Nat
            /\ captures[c].level \in Nat
        BY <2>1, <2>3 DEF Captured, Levelled
      <4>2. Append(captures[c].actual, cell) \in Seq(Nat \X Modules)
        BY <2>2, <4>1
      <4>3. captures[c].own \cup {calls + 1} \in SUBSET Nat
        BY <1>3, <4>1
      <4> QED  BY <2>1, <2>2, <4>2, <4>3, Reset
    <3>3. captures' \in Seq(Captured) /\ Len(captures') = Len(captures)
      BY <1>3, <2>1, <3>1, <3>2, Replacing
    <3>4. c \in 0..Len(captures) /\ c = Holds(Top(t)) /\ captures[c].facts \in SUBSET Facts
      <4>1. c \in 0..Len(captures)
        BY <1>3, <2>1
      <4>2. captures[c].facts \in SUBSET Facts
        BY <2>1 DEF Captured
      <4> QED  BY <1>3, <4>1, <4>2
    <3>5. Sound' /\ Over(f, stack[t], stack'[t])
      BY <1>4, <2>2, <2>3, <3>3, <3>4
    <3> QED  BY <1>2, <1>3, <1>6, <2>1, <2>2, <2>3, <3>1, <3>5
  <2>4. CASE ~expected /\ Raise(t, "schedule") /\ UNCHANGED <<context, inherited, stack, captures, calls>>
    <3>1. raising'[t] = "schedule" /\ "schedule" \in Errors
      BY <2>4 DEF Raise, Sound, Errors
    <3>2. Sound'
      BY <1>1, <1>2, <1>3, <2>4, <3>1, StepRaises
    <3> QED  BY <1>2, <1>3, <1>6, <2>1, <2>2, <2>4, <3>1, <3>2
  <2>5. \/ expected /\ Push(t, f) /\ UNCHANGED <<context, inherited, raising>>
             /\ captures' = [captures EXCEPT ![c].actual = Append(@, cell),
                                              ![c].module = m,
                                              ![c].own = @ \cup {calls + 1}]
        \/ ~expected /\ Raise(t, "schedule") /\ UNCHANGED <<context, inherited, stack, captures, calls>>
    BY <2>1, <2>2 DEF Invoke
  <2> QED  BY <2>3, <2>4, <2>5
<1> QED  BY <1>2, <1>5, <1>6

IdleFacts(k, level) ==
    {[level |-> level, module |-> m, finding |-> {}, by |-> "scheduler", call |-> 0] :
       m \in {m \in Pilots : <<level, m>> \notin Elements(k.plan)}}

LEMMA IdleFactsAreFacts ==
    ASSUME NEW k, NEW level \in Levelled
    PROVE  IdleFacts(k, level) \in SUBSET Facts
<1>1. ASSUME NEW m \in Pilots
      PROVE  [level |-> level, module |-> m, finding |-> {}, by |-> "scheduler", call |-> 0]
               \in Facts
  BY DEF Facts
<1>2. IdleFacts(k, level) \subseteq
        {[level |-> level, module |-> m, finding |-> {}, by |-> "scheduler", call |-> 0] :
           m \in Pilots}
  BY DEF IdleFacts
<1> QED  BY <1>1, <1>2

LEMMA EndLevelStep ==
    ASSUME Sound, NEW t \in Threads, EndLevel(t)
    PROVE  /\ Sound'
           /\ LET c == context[t]
                  k == captures[c]
                  level == Top(t).level
                  expected == /\ k.level = level /\ k.module = NoModule
                              /\ RanAsPlanned(k.actual, k.plan, level)
              IN  \/ /\ expected /\ raising' = raising
                     /\ captures' = [captures EXCEPT ![c] =
                          [k EXCEPT !.level = NoLevel, !.facts = @ \cup IdleFacts(k, level)]]
                     /\ Over([Top(t) EXCEPT !.level = NoLevel], Tail(stack[t]), stack'[t])
                  \/ /\ ~expected /\ raising'[t] = "schedule"
                     /\ captures' = captures /\ stack' = stack
<1> DEFINE c == context[t]
           f == Top(t)
           k == captures[c]
           level == f.level
           expected == /\ k.level = level /\ k.module = NoModule
                       /\ RanAsPlanned(k.actual, k.plan, level)
           g == [f EXCEPT !.level = NoLevel]
           F == k.facts \cup IdleFacts(k, level)
           l == [k EXCEPT !.level = NoLevel, !.facts = @ \cup IdleFacts(k, level)]
<1>1. Alone(t)
  BY ActsAlone
<1>2. /\ stack[t] # <<>> /\ f \in AccountedFrames(Len(captures))
      /\ f.kind = "accounted" /\ IsRunner(f) /\ Holds(f) = f.capture
      /\ c = f.capture /\ c \in 1..Len(captures) /\ c # NoCapture
      /\ k \in Captured /\ raising[t] = "nothing"
      /\ level # NoLevel
  BY AccountedOnTop DEF EndLevel, Runs
<1>3. g \in AccountedFrames(Len(captures)) /\ SameFrame(f, g)
  BY <1>2 DEF AccountedFrames, Levelled, SameFrame, Holds, IsRunner
<1>4. captures \in Seq(Captured)
  BY DEF Sound
<1>5. CASE /\ expected
           /\ captures' = [captures EXCEPT ![c] = l]
           /\ SetTop(t, g)
           /\ UNCHANGED <<context, inherited, raising, calls>>
  <2>1. l \in Captured
    <3>1. level \in Levelled
      BY <1>2 DEF AccountedFrames
    <3>2. IdleFacts(k, level) \in SUBSET Facts
      BY <3>1, IdleFactsAreFacts
    <3>3. k.facts \in SUBSET Facts
      BY <1>2 DEF Captured
    <3>4. F \in SUBSET Facts /\ NoLevel \in Levelled
      BY <3>2, <3>3 DEF Levelled
    <3> QED  BY <1>2, <3>4, Reset
  <2>2. captures' \in Seq(Captured) /\ Len(captures') = Len(captures)
    BY <1>2, <1>4, <1>5, <2>1, Replacing
  <2>3. stack'[t] = <<g>> \o Tail(stack[t]) /\ raising'[t] = "nothing" /\ context'[t] = context[t]
        /\ calls' = calls
    BY <1>2, <1>5 DEF SetTop, Sound
  <2>4. g \in Frames(Len(captures)) /\ "nothing" \in Errors
    BY <1>3 DEF Frames, Errors
  <2> HIDE DEF c, f, level, g
  <2>5. SameFrame(Top(t), g)
    BY <1>3 DEF f
  <2>6. Sound' /\ Over(g, Tail(stack[t]), stack'[t])
    BY <1>1, <1>2, <2>2, <2>3, <2>4, <2>5, StepGoesOn
  <2> QED  BY <1>5, <2>6 DEF g, level, f, c
<1>6. CASE ~expected /\ Raise(t, "schedule") /\ UNCHANGED <<context, inherited, stack, captures, calls>>
  <2>1. raising'[t] = "schedule" /\ "schedule" \in Errors
    BY <1>6 DEF Raise, Sound, Errors
  <2>2. Sound'
    BY <1>1, <1>2, <1>4, <1>6, <2>1, StepRaises
  <2> QED  BY <1>6, <2>1, <2>2
<1>7. \/ /\ expected
         /\ captures' = [captures EXCEPT ![c].level = NoLevel,
                                         ![c].facts = @ \cup IdleFacts(k, level)]
         /\ SetTop(t, g)
         /\ UNCHANGED <<context, inherited, raising, calls>>
      \/ ~expected /\ Raise(t, "schedule") /\ UNCHANGED <<context, inherited, stack, captures, calls>>
  BY <1>2 DEF EndLevel, IdleFacts
<1>8. captures' = [captures EXCEPT ![c].level = NoLevel,
                                   ![c].facts = @ \cup IdleFacts(k, level)]
      => captures' = [captures EXCEPT ![c] = l]
  <2> HIDE DEF level
  <2> QED  BY <1>2, <1>4
<1> HIDE DEF expected, l, g
<1> QED  BY <1>5, <1>6, <1>7, <1>8

(* What _complete_execution asks of a capture before it projects it. *)
Validated(k) ==
    /\ k.level = NoLevel /\ k.actual = k.plan
    /\ DOMAIN k.returned = Elements(k.plan)
    /\ \A cell \in Elements(k.plan) :
         ReturnedAsEarned({f \in k.facts : f.level = cell[1] /\ f.module = cell[2]},
                          cell[2], k.returned[cell])

LEMMA ValidateStep ==
    ASSUME Sound, NEW t \in Threads, Validate(t)
    PROVE  /\ Sound' /\ captures' = captures
           /\ \/ /\ Validated(captures[Top(t).capture]) /\ raising' = raising
                 /\ Over([Top(t) EXCEPT !.validated = TRUE], Tail(stack[t]), stack'[t])
              \/ /\ ~Validated(captures[Top(t).capture])
                 /\ raising'[t] = "accounting" /\ stack' = stack
<1> DEFINE f == Top(t)
           g == [f EXCEPT !.validated = TRUE]
<1>1. Alone(t)
  BY ActsAlone
<1>2. /\ stack[t] # <<>> /\ f \in AccountedFrames(Len(captures)) /\ raising[t] = "nothing"
  BY AccountedOnTop DEF Validate, Runs
<1>3. g \in AccountedFrames(Len(captures)) /\ SameFrame(f, g)
  BY <1>2 DEF AccountedFrames, SameFrame, Holds, IsRunner
<1>4. captures \in Seq(Captured) /\ UNCHANGED <<context, inherited, captures, calls>>
  BY DEF Sound, Validate
<1>5. CASE Validated(captures[f.capture]) /\ SetTop(t, g) /\ UNCHANGED raising
  <2>1. stack'[t] = <<g>> \o Tail(stack[t]) /\ raising'[t] = "nothing" /\ context'[t] = context[t]
        /\ calls' = calls
    BY <1>2, <1>4, <1>5 DEF SetTop, Sound
  <2>2. g \in Frames(Len(captures)) /\ "nothing" \in Errors
    BY <1>3 DEF Frames, Errors
  <2> HIDE DEF f, g
  <2>3. SameFrame(Top(t), g)
    BY <1>3 DEF f
  <2>4. Sound' /\ Over(g, Tail(stack[t]), stack'[t])
    BY <1>1, <1>2, <1>4, <2>1, <2>2, <2>3, StepGoesOn
  <2> QED  BY <1>4, <1>5, <2>4 DEF f, g
<1>6. CASE ~Validated(captures[f.capture]) /\ Raise(t, "accounting") /\ UNCHANGED stack
  <2>1. raising'[t] = "accounting" /\ "accounting" \in Errors
    BY <1>6 DEF Raise, Sound, Errors
  <2>2. Sound'
    BY <1>1, <1>2, <1>4, <1>6, <2>1, StepRaises
  <2> QED  BY <1>4, <1>6, <2>1, <2>2
<1>7. \/ Validated(captures[f.capture]) /\ SetTop(t, g) /\ UNCHANGED raising
      \/ ~Validated(captures[f.capture]) /\ Raise(t, "accounting") /\ UNCHANGED stack
  BY DEF Validate, Validated
<1> HIDE DEF g
<1> QED  BY <1>5, <1>6, <1>7

LEMMA PublishStep ==
    ASSUME Sound, NEW t \in Threads, Publish(t)
    PROVE  /\ Sound'
           /\ LET c == Top(t).capture
                  k == captures[c]
              IN  \/ /\ Projectable(k.plan, k.facts) /\ raising' = raising
                     /\ captures' = [captures EXCEPT ![c] =
                                       [k EXCEPT !.outcome = "published", !.document = k.facts]]
                     /\ stack'[t] = Tail(stack[t])
                  \/ /\ ~Projectable(k.plan, k.facts) /\ raising'[t] = "accounting"
                     /\ captures' = captures /\ stack' = stack
<1> DEFINE f == Top(t)
           c == f.capture
           k == captures[c]
           l == [k EXCEPT !.outcome = "published", !.document = k.facts]
<1>1. Alone(t)
  BY ActsAlone
<1>2. /\ stack[t] # <<>> /\ f \in AccountedFrames(Len(captures)) /\ raising[t] = "nothing"
      /\ IsRunner(f) /\ c \in 1..Len(captures) /\ k \in Captured
  <2>1. In(t, {"accounted"}) /\ raising[t] = "nothing"
    BY DEF Publish, Runs
  <2> QED  BY <2>1, AccountedOnTop
<1>3. captures \in Seq(Captured) /\ calls' = calls /\ stack[t] \in Seq(Frames(Len(captures)))
  BY DEF Sound, Publish
<1>4. CASE /\ Projectable(k.plan, k.facts)
           /\ captures' = [captures EXCEPT ![c].outcome = "published", ![c].document = k.facts]
           /\ context' = [context EXCEPT ![t] = f.saved]
           /\ Pop(t) /\ UNCHANGED raising
  <2>1. captures' = [captures EXCEPT ![c] = l]
    BY <1>2, <1>3, <1>4
  <2>2. k.facts \in SUBSET Facts
    BY <1>2 DEF Captured
  <2>3. l \in Captured
    BY <1>2, <2>2, Reset
  <2>4. captures' \in Seq(Captured) /\ Len(captures') = Len(captures)
    BY <1>2, <1>3, <2>1, <2>3, Replacing
  <2>5. /\ stack'[t] = Tail(stack[t]) /\ raising'[t] = "nothing" /\ "nothing" \in Errors
        /\ context'[t] = IF IsRunner(Top(t)) THEN Top(t).saved ELSE context[t]
    BY <1>2, <1>4 DEF Pop, Sound, Errors
  <2> HIDE DEF l
  <2>6. Sound'
    BY <1>1, <1>2, <1>3, <2>4, <2>5, StepLeaves
  <2> QED  BY <1>4, <2>1, <2>5, <2>6 DEF l
<1>5. CASE /\ ~Projectable(k.plan, k.facts) /\ Raise(t, "accounting")
           /\ UNCHANGED <<context, stack, captures>>
  <2>1. raising'[t] = "accounting" /\ "accounting" \in Errors
    BY <1>5 DEF Raise, Sound, Errors
  <2>2. Sound'
    BY <1>1, <1>2, <1>3, <1>5, <2>1, StepRaises
  <2> QED  BY <1>5, <2>1, <2>2
<1> QED  BY <1>4, <1>5 DEF Publish

LEMMA FinishPublicStep ==
    ASSUME Sound, NEW t \in Threads, FinishPublic(t)
    PROVE  /\ Sound' /\ captures' = captures /\ raising' = raising /\ raising[t] = "nothing"
           /\ stack[t] # <<>> /\ Top(t).kind = "public" /\ stack'[t] = Tail(stack[t])
<1>1. Alone(t)
  BY ActsAlone
<1>2. stack[t] # <<>> /\ raising[t] = "nothing" /\ Top(t).kind = "public" /\ IsRunner(Top(t))
  BY DEF FinishPublic, Runs, In, IsRunner
<1>3. captures \in Seq(Captured) /\ calls' = calls /\ captures' = captures /\ raising' = raising
      /\ context' = [context EXCEPT ![t] = Top(t).saved] /\ Pop(t)
  BY DEF Sound, FinishPublic
<1>4. /\ stack'[t] = Tail(stack[t]) /\ raising'[t] = "nothing" /\ "nothing" \in Errors
      /\ context'[t] = IF IsRunner(Top(t)) THEN Top(t).saved ELSE context[t]
  BY <1>2, <1>3 DEF Pop, Sound, Errors
<1>5. Sound'
  BY <1>1, <1>2, <1>3, <1>4, StepLeaves
<1> QED  BY <1>2, <1>3, <1>4, <1>5

LEMMA CheckerOnTop ==
    ASSUME Sound, NEW t \in Threads, In(t, {"checker", "direct"})
    PROVE  /\ stack[t] # <<>> /\ Top(t) \in Frames(Len(captures)) /\ Top(t) = stack[t][1]
           /\ ~IsRunner(Top(t)) /\ context[t] \in 0..Len(captures)
           /\ Top(t).kind = "checker" => /\ Top(t) \in CheckerFrames(Len(captures))
                                         /\ Top(t).capture = context[t]
           /\ Top(t).kind = "direct" => Top(t) \in DirectFrames
           /\ context[t] # NoCapture =>
                context[t] \in 1..Len(captures) /\ captures[context[t]] \in Captured
           /\ Top(t).call \in Nat /\ Top(t).finding \in SUBSET Nat /\ Decided(Top(t))
<1>1. stack[t] # <<>> /\ Top(t).kind \in {"checker", "direct"} /\ ~IsRunner(Top(t))
  BY DEF In, IsRunner
<1>2. /\ Top(t) = stack[t][1] /\ Top(t) \in Frames(Len(captures))
      /\ Top(t).kind = "checker" => Top(t).capture = context[t]
  BY <1>1, TopFacts
<1>3. /\ Top(t).kind = "checker" => Top(t) \in CheckerFrames(Len(captures))
      /\ Top(t).kind = "direct" => Top(t) \in DirectFrames
  BY <1>2, KindOfFrame
<1>4. Top(t).call \in Nat /\ Top(t).finding \in SUBSET Nat /\ Decided(Top(t))
  BY <1>1, <1>3 DEF CheckerFrames, DirectFrames
<1>5. captures \in Seq(Captured) /\ context[t] \in 0..Len(captures) /\ Len(captures) \in Nat
  BY DEF Sound
<1>6. context[t] # NoCapture =>
        context[t] \in 1..Len(captures) /\ captures[context[t]] \in Captured
  BY <1>5 DEF NoCapture
<1> QED  BY <1>1, <1>2, <1>3, <1>4, <1>5, <1>6

(* A frame of a checker whose stage and finding change. *)
LEMMA CheckerGoesOn ==
    ASSUME NEW n, NEW f \in Frames(n), f.kind \in {"checker", "direct"},
           NEW stage \in Stages \ {"working"}, NEW finding \in SUBSET Nat, f.module \in Pilots
    PROVE  LET g == [f EXCEPT !.stage = stage, !.finding = finding] IN
           g \in Frames(n) /\ SameFrame(f, g)
<1>1. CASE f.kind = "checker"
  <2>1. f \in CheckerFrames(n)
    BY <1>1, KindOfFrame
  <2>2. [f EXCEPT !.stage = stage, !.finding = finding] \in CheckerFrames(n)
    BY <2>1 DEF CheckerFrames, Decided
  <2> QED  BY <1>1, <2>1, <2>2 DEF Frames, CheckerFrames, SameFrame, Holds, IsRunner
<1>2. CASE f.kind = "direct"
  <2>1. f \in DirectFrames
    BY <1>2, KindOfFrame
  <2>2. [f EXCEPT !.stage = stage, !.finding = finding] \in DirectFrames
    BY <2>1 DEF DirectFrames, Decided
  <2> QED  BY <1>2, <2>1, <2>2 DEF Frames, DirectFrames, SameFrame, Holds, IsRunner
<1> QED  BY <1>1, <1>2

LEMMA AdmitStep ==
    ASSUME Sound, NEW t \in Threads, Admit(t)
    PROVE  /\ Sound' /\ captures' = captures /\ In(t, {"checker", "direct"})
           /\ Top(t).module \in Pilots /\ Top(t).stage = "working" /\ raising[t] = "nothing"
           /\ \/ /\ raising' = raising
                 /\ \E stage \in {"observed", "admitted"}, finding \in SUBSET Nat :
                      /\ stage = "observed" => context[t] = NoCapture
                      /\ stage = "admitted" => context[t] # NoCapture
                      /\ Over([Top(t) EXCEPT !.stage = stage, !.finding = finding],
                              Tail(stack[t]), stack'[t])
              \/ /\ context[t] # NoCapture
                 /\ ~ /\ captures[context[t]].module = Top(t).module
                      /\ captures[context[t]].level # NoLevel
                 /\ raising'[t] = "accounting" /\ stack' = stack
<1> DEFINE f == Top(t)
           c == context[t]
           belongs == captures[c].module = f.module /\ captures[c].level # NoLevel
<1>1. Alone(t)
  BY ActsAlone
<1>2. /\ In(t, {"checker", "direct"}) /\ raising[t] = "nothing"
      /\ f.module \in Pilots /\ f.stage = "working"
      /\ UNCHANGED <<context, inherited, captures, calls>>
  BY DEF Admit, Runs, In
<1>3. /\ stack[t] # <<>> /\ f \in Frames(Len(captures)) /\ f.kind \in {"checker", "direct"}
      /\ f.call \in Nat
  BY <1>2, CheckerOnTop DEF In
<1>4. captures \in Seq(Captured)
  BY DEF Sound
<1>5. ASSUME NEW stage \in {"observed", "admitted"}, NEW finding \in {{}, {f.call}},
             SetTop(t, [f EXCEPT !.stage = stage, !.finding = finding]), UNCHANGED raising
      PROVE  Sound' /\ Over([f EXCEPT !.stage = stage, !.finding = finding],
                            Tail(stack[t]), stack'[t])
  <2> DEFINE g == [f EXCEPT !.stage = stage, !.finding = finding]
  <2>1. g \in Frames(Len(captures)) /\ SameFrame(f, g)
    <3>1. finding \in SUBSET Nat /\ stage \in Stages \ {"working"}
      BY <1>3, <1>5 DEF Stages
    <3> QED  BY <1>2, <1>3, <3>1, CheckerGoesOn
  <2>2. stack'[t] = <<g>> \o Tail(stack[t]) /\ raising'[t] = "nothing" /\ "nothing" \in Errors
    BY <1>2, <1>5 DEF SetTop, Sound, Errors
  <2> HIDE DEF g, f
  <2>3. SameFrame(Top(t), g)
    BY <2>1 DEF f
  <2> QED  BY <1>1, <1>2, <1>3, <1>4, <2>1, <2>2, <2>3, StepGoesOn DEF g
<1>6. CASE c = NoCapture /\ UNCHANGED raising /\ \E finding \in {{}, {f.call}} :
             SetTop(t, [f EXCEPT !.stage = "observed", !.finding = finding])
  <2>1. PICK finding \in {{}, {f.call}} :
             SetTop(t, [f EXCEPT !.stage = "observed", !.finding = finding])
    BY <1>6
  <2>2. Sound' /\ Over([f EXCEPT !.stage = "observed", !.finding = finding],
                       Tail(stack[t]), stack'[t])
    BY <1>5, <1>6, <2>1
  <2>3. finding \in SUBSET Nat
    BY <1>3
  <2> QED  BY <1>2, <1>6, <2>2, <2>3
<1>7. CASE c # NoCapture /\ UNCHANGED raising /\ \E finding \in {{}, {f.call}} :
             SetTop(t, [f EXCEPT !.stage = "admitted", !.finding = finding])
  <2>1. PICK finding \in {{}, {f.call}} :
             SetTop(t, [f EXCEPT !.stage = "admitted", !.finding = finding])
    BY <1>7
  <2>2. Sound' /\ Over([f EXCEPT !.stage = "admitted", !.finding = finding],
                       Tail(stack[t]), stack'[t])
    BY <1>5, <1>7, <2>1
  <2>3. finding \in SUBSET Nat
    BY <1>3
  <2> QED  BY <1>2, <1>7, <2>2, <2>3
<1>8. CASE c # NoCapture /\ ~belongs /\ Raise(t, "accounting") /\ UNCHANGED stack
  <2>1. raising'[t] = "accounting" /\ "accounting" \in Errors
    BY <1>8 DEF Raise, Sound, Errors
  <2>2. Sound'
    BY <1>1, <1>2, <1>3, <1>4, <1>8, <2>1, StepRaises
  <2> QED  BY <1>2, <1>8, <2>1, <2>2
<1>9. \/ c = NoCapture /\ UNCHANGED raising /\ \E finding \in {{}, {f.call}} :
             SetTop(t, [f EXCEPT !.stage = "observed", !.finding = finding])
      \/ c # NoCapture /\ UNCHANGED raising /\ \E finding \in {{}, {f.call}} :
             SetTop(t, [f EXCEPT !.stage = "admitted", !.finding = finding])
      \/ c # NoCapture /\ ~belongs /\ Raise(t, "accounting") /\ UNCHANGED stack
  BY DEF Admit
<1> QED  BY <1>6, <1>7, <1>8, <1>9

FactOf(f, k) ==
    [level |-> k.level, module |-> f.module, finding |-> f.finding, by |-> f.kind,
     call |-> f.call]

LEMMA FactIsFact ==
    ASSUME NEW n, NEW f \in Frames(n), f.kind \in {"checker", "direct"}, f.module \in Pilots,
           NEW k \in Captured
    PROVE  FactOf(f, k) \in Facts
<1>1. f.call \in Nat /\ f.finding \in SUBSET Nat
  BY KindOfFrame DEF CheckerFrames, DirectFrames
<1>2. k.level \in Levelled
  BY DEF Captured
<1> QED  BY <1>1, <1>2 DEF FactOf, Facts

LEMMA RecordFactStep ==
    ASSUME Sound, NEW t \in Threads, RecordFact(t)
    PROVE  /\ Sound' /\ In(t, {"checker", "direct"})
           /\ Top(t).stage = "admitted" /\ Top(t).module \in Pilots /\ raising[t] = "nothing"
           /\ LET c == context[t]
                  k == captures[c]
              IN  \/ /\ raising' = raising
                     /\ c = NoCapture => captures' = captures
                     /\ c # NoCapture =>
                          /\ FactOf(Top(t), k) \in Facts
                          /\ captures' =
                               [captures EXCEPT ![c] =
                                  [k EXCEPT !.facts = @ \cup {FactOf(Top(t), k)}]]
                     /\ Over([Top(t) EXCEPT !.stage = "observed"], Tail(stack[t]), stack'[t])
                  \/ /\ k.level = NoLevel
                     /\ raising'[t] = "accounting" /\ stack' = stack /\ captures' = captures
<1> DEFINE f == Top(t)
           c == context[t]
           k == captures[c]
           g == [f EXCEPT !.stage = "observed"]
           l == [k EXCEPT !.facts = @ \cup {FactOf(f, k)}]
<1>1. Alone(t)
  BY ActsAlone
<1>2. /\ In(t, {"checker", "direct"}) /\ raising[t] = "nothing"
      /\ f.stage = "admitted"
      /\ UNCHANGED <<context, inherited, calls>>
  BY DEF RecordFact, Runs, In
<1>3. /\ stack[t] # <<>> /\ f \in Frames(Len(captures)) /\ f.kind \in {"checker", "direct"}
      /\ f.module \in Pilots /\ f.finding \in SUBSET Nat /\ c \in 0..Len(captures)
      /\ c # NoCapture => c \in 1..Len(captures) /\ k \in Captured
  BY <1>2, CheckerOnTop DEF In, Decided
<1>4. captures \in Seq(Captured)
  BY DEF Sound
<1>5. CASE /\ captures' = [captures EXCEPT ![c].facts = @ \cup {FactOf(f, k)}]
           /\ SetTop(t, g) /\ UNCHANGED raising
  <2>1. g \in Frames(Len(captures)) /\ SameFrame(f, g)
    <3>1. g = [f EXCEPT !.stage = "observed", !.finding = f.finding]
      <4>1. f.kind = "checker" => f \in CheckerFrames(Len(captures))
        BY <1>3, KindOfFrame
      <4>2. f.kind = "direct" => f \in DirectFrames
        BY <1>3, KindOfFrame
      <4> HIDE DEF f
      <4> QED  BY <1>3, <4>1, <4>2 DEF CheckerFrames, DirectFrames
    <3>2. "observed" \in Stages \ {"working"}
      BY DEF Stages
    <3> HIDE DEF f, g
    <3> QED  BY <1>3, <3>1, <3>2, CheckerGoesOn
  <2>2. stack'[t] = <<g>> \o Tail(stack[t]) /\ raising'[t] = "nothing" /\ "nothing" \in Errors
    BY <1>2, <1>5 DEF SetTop, Sound, Errors
  <2>3. /\ captures' \in Seq(Captured) /\ Len(captures') = Len(captures)
        /\ c = NoCapture => captures' = captures
        /\ c # NoCapture =>
             FactOf(f, k) \in Facts /\ captures' = [captures EXCEPT ![c] = l]
    <3>1. CASE c = NoCapture
      <4>1. c \notin DOMAIN captures
        BY <1>4, <3>1 DEF NoCapture
      <4>2. captures' = captures
        BY <1>4, <1>5, <4>1
      <4> QED  BY <1>4, <3>1, <4>2
    <3>2. CASE c # NoCapture
      <4>1. captures' = [captures EXCEPT ![c] = l]
        BY <1>3, <1>4, <1>5, <3>2
      <4>2. FactOf(f, k) \in Facts
        BY <1>3, <3>2, FactIsFact
      <4>3. k.facts \in SUBSET Facts
        BY <1>3, <3>2 DEF Captured
      <4>4. l \in Captured
        <5>1. k.facts \cup {FactOf(f, k)} \in SUBSET Facts
          BY <4>2, <4>3
        <5> QED  BY <1>3, <3>2, <5>1, Reset
      <4>5. captures' \in Seq(Captured) /\ Len(captures') = Len(captures)
        BY <1>3, <1>4, <3>2, <4>1, <4>4, Replacing
      <4> QED  BY <3>2, <4>1, <4>2, <4>5
    <3> QED  BY <3>1, <3>2
  <2> HIDE DEF f, g
  <2>4. SameFrame(Top(t), g)
    BY <2>1 DEF f
  <2>5. Sound' /\ Over(g, Tail(stack[t]), stack'[t])
    BY <1>1, <1>2, <1>3, <2>1, <2>2, <2>3, <2>4, StepGoesOn
  <2> QED  BY <1>2, <1>3, <1>5, <2>3, <2>5 DEF g, f
<1>6. CASE /\ k.level = NoLevel /\ Raise(t, "accounting") /\ UNCHANGED <<stack, captures>>
  <2>1. raising'[t] = "accounting" /\ "accounting" \in Errors
    BY <1>6 DEF Raise, Sound, Errors
  <2>2. Sound'
    BY <1>1, <1>2, <1>3, <1>4, <1>6, <2>1, StepRaises
  <2> QED  BY <1>2, <1>3, <1>6, <2>1, <2>2
<1> QED  BY <1>5, <1>6 DEF RecordFact, FactOf

LEMMA ReturnStep ==
    ASSUME Sound, NEW t \in Threads, Return(t)
    PROVE  /\ Sound' /\ In(t, {"checker"}) /\ Finished(Top(t)) /\ raising[t] = "nothing"
           /\ LET c == Top(t).capture
                  k == captures[c]
                  m == Top(t).module
                  runner == Tail(stack[t])[1]
                  below == Tail(Tail(stack[t]))
                  cell == <<k.level, m>>
                  earned == ReturnedAsEarned(k.facts \ Top(t).earlier, m, Top(t).finding)
              IN  /\ Over(runner, below, Tail(stack[t]))
                  /\ \/ /\ c = NoCapture \/ earned
                        /\ raising' = raising
                        /\ Over([runner EXCEPT !.done = @ + 1], below, stack'[t])
                        /\ c = NoCapture => captures' = captures
                        /\ c # NoCapture => captures' = [captures EXCEPT ![c] =
                              [k EXCEPT !.module = NoModule,
                                        !.returned = [x \in DOMAIN @ \cup {cell} |->
                                           IF x = cell THEN Top(t).finding ELSE @[x]]]]
                     \/ /\ c # NoCapture /\ ~earned
                        /\ raising'[t] = "accounting" /\ stack'[t] = Tail(stack[t])
                        /\ captures' = [captures EXCEPT ![c] = [k EXCEPT !.module = NoModule]]
<1> DEFINE f == Top(t)
           c == f.capture
           k == captures[c]
           m == f.module
           s == Tail(stack[t])
           runner == s[1]
           below == Tail(s)
           g == [runner EXCEPT !.done = @ + 1]
           cell == <<k.level, m>>
           earned == ReturnedAsEarned(k.facts \ f.earlier, m, f.finding)
           r == [x \in DOMAIN k.returned \cup {cell} |->
                   IF x = cell THEN f.finding ELSE k.returned[x]]
           l == [k EXCEPT !.module = NoModule,
                          !.returned = [x \in DOMAIN @ \cup {cell} |->
                                          IF x = cell THEN f.finding ELSE @[x]]]
           l0 == [k EXCEPT !.module = NoModule]
<1>1. Alone(t)
  BY ActsAlone
<1>2. /\ In(t, {"checker"}) /\ raising[t] = "nothing" /\ Finished(f)
      /\ UNCHANGED <<context, inherited, calls>>
  BY DEF Return, Runs, In
<1>3. /\ stack[t] # <<>> /\ f.kind = "checker" /\ In(t, {"checker", "direct"})
  BY <1>2 DEF In
<1>4. /\ f \in CheckerFrames(Len(captures)) /\ c = context[t]
      /\ c # NoCapture => c \in 1..Len(captures) /\ k \in Captured
  BY <1>3, CheckerOnTop
<1>5. /\ s # <<>> /\ IsRunner(runner) /\ s \in Seq(Frames(Len(captures)))
      /\ Head(s) = runner /\ runner \in Frames(Len(captures)) /\ Over(runner, below, s)
  <2>1. s # <<>> /\ IsRunner(runner) /\ s \in Seq(Frames(Len(captures)))
    BY <1>3, TopFacts
  <2> HIDE DEF s
  <2> QED  BY <2>1, Popping
<1>6. g \in Frames(Len(captures)) /\ SameFrame(runner, g)
  <2>1. CASE runner.kind = "accounted"
    <3>1. runner \in AccountedFrames(Len(captures))
      BY <1>5, <2>1, KindOfFrame
    <3> HIDE DEF runner
    <3>2. g \in AccountedFrames(Len(captures))
      BY <3>1 DEF AccountedFrames
    <3> QED  BY <2>1, <3>1, <3>2 DEF Frames, AccountedFrames, SameFrame, Holds, IsRunner
  <2>2. CASE runner.kind = "public"
    <3>1. runner \in PublicFrames(Len(captures))
      BY <1>5, <2>2, KindOfFrame
    <3> HIDE DEF runner
    <3>2. g \in PublicFrames(Len(captures))
      BY <3>1 DEF PublicFrames
    <3> QED  BY <2>2, <3>1, <3>2 DEF Frames, PublicFrames, SameFrame, Holds, IsRunner
  <2> QED  BY <1>5, <2>1, <2>2 DEF IsRunner
<1>7. captures \in Seq(Captured) /\ "nothing" \in Errors /\ "accounting" \in Errors
      /\ stack[t] \in Seq(Frames(Len(captures))) /\ stack \in [Threads -> Seq(Frames(Len(captures)))]
      /\ raising \in [Threads -> Errors]
  BY DEF Sound, Errors
<1>8. ASSUME stack' = [stack EXCEPT ![t] = <<g>> \o below], UNCHANGED raising,
             captures' \in Seq(Captured), Len(captures') = Len(captures)
      PROVE  Sound' /\ Over(g, below, stack'[t])
  <2>1. stack'[t] = <<g>> \o below /\ raising'[t] = "nothing" /\ context'[t] = context[t]
    BY <1>2, <1>7, <1>8
  <2> HIDE DEF g, f
  <2>2. SameFrame(Tail(stack[t])[1], g) /\ Top(t).kind = "checker"
        /\ stack'[t] = <<g>> \o Tail(Tail(stack[t]))
    BY <1>3, <1>6, <2>1 DEF f
  <2> QED  BY <1>1, <1>2, <1>3, <1>6, <1>8, <2>1, <2>2, StepReturns
<1>9. CASE c = NoCapture /\ UNCHANGED <<raising, captures>>
           /\ stack' = [stack EXCEPT ![t] = <<g>> \o below]
  <2>1. Sound' /\ Over(g, below, stack'[t])
    BY <1>7, <1>8, <1>9
  <2> QED  BY <1>2, <1>5, <1>9, <2>1
<1>10. CASE /\ c # NoCapture /\ earned /\ UNCHANGED raising
            /\ stack' = [stack EXCEPT ![t] = <<g>> \o below]
            /\ captures' = [captures EXCEPT ![c] = l]
  <2>1. r \in Returns
    <3>1. f.finding \in SUBSET Nat /\ m \in Modules
      BY <1>4 DEF CheckerFrames
    <3>2. k.level \in Levelled /\ k.returned \in Returns
      BY <1>4, <1>10 DEF Captured
    <3>3. PICK S \in SUBSET (Levelled \X Modules) : k.returned \in [S -> SUBSET Nat]
      BY <3>2 DEF Returns
    <3>4. cell \in Levelled \X Modules
      BY <3>1, <3>2
    <3> HIDE DEF cell, f, k, m
    <3>5. S \cup {cell} \in SUBSET (Levelled \X Modules) /\ r \in [S \cup {cell} -> SUBSET Nat]
      BY <3>1, <3>3, <3>4
    <3> QED  BY <3>5 DEF Returns
  <2>2. l = [k EXCEPT !.module = NoModule, !.returned = r] /\ k \in Captured
    BY <1>4, <1>10
  <2>3. l \in Captured
    <3> HIDE DEF l, r, k
    <3> QED  BY <2>1, <2>2, Reset
  <2>4. captures' \in Seq(Captured) /\ Len(captures') = Len(captures)
    <3> HIDE DEF l
    <3> QED  BY <1>4, <1>7, <1>10, <2>3, Replacing
  <2>5. Sound' /\ Over(g, below, stack'[t])
    BY <1>8, <1>10, <2>4
  <2> QED  BY <1>2, <1>5, <1>10, <2>5
<1>11. CASE /\ c # NoCapture /\ ~earned /\ Pop(t) /\ Raise(t, "accounting")
            /\ captures' = [captures EXCEPT ![c] = l0]
  <2>1. l0 \in Captured
    BY <1>4, <1>11, Reset
  <2>2. captures' \in Seq(Captured) /\ Len(captures') = Len(captures)
    <3> HIDE DEF l0
    <3> QED  BY <1>4, <1>7, <1>11, <2>1, Replacing
  <2>3. /\ stack'[t] = Tail(stack[t]) /\ raising'[t] = "accounting"
        /\ context'[t] = IF IsRunner(Top(t)) THEN Top(t).saved ELSE context[t]
    BY <1>2, <1>3, <1>7, <1>11 DEF Pop, Raise, IsRunner
  <2> HIDE DEF l0
  <2>4. Sound'
    BY <1>1, <1>2, <1>3, <1>7, <2>2, <2>3, StepLeaves
  <2> QED  BY <1>2, <1>5, <1>11, <2>3, <2>4 DEF l0
<1>12. /\ captures' = [captures EXCEPT ![c].module = NoModule,
                        ![c].returned = [x \in DOMAIN @ \cup {cell} |->
                                           IF x = cell THEN f.finding ELSE @[x]]]
          /\ c # NoCapture => captures' = [captures EXCEPT ![c] = l]
       /\ captures' = [captures EXCEPT ![c].module = NoModule] /\ c # NoCapture =>
          captures' = [captures EXCEPT ![c] = l0]
  <2> QED  BY <1>4, <1>7
<1>13. \/ c = NoCapture /\ UNCHANGED <<raising, captures>>
          /\ stack' = [stack EXCEPT ![t] = <<g>> \o below]
       \/ /\ c # NoCapture /\ earned /\ UNCHANGED raising
          /\ stack' = [stack EXCEPT ![t] = <<g>> \o below]
          /\ captures' = [captures EXCEPT ![c].module = NoModule,
                        ![c].returned = [x \in DOMAIN @ \cup {cell} |->
                                           IF x = cell THEN f.finding ELSE @[x]]]
       \/ /\ c # NoCapture /\ ~earned /\ Pop(t) /\ Raise(t, "accounting")
          /\ captures' = [captures EXCEPT ![c].module = NoModule]
  BY <1>5 DEF Return
<1> QED  BY <1>9, <1>10, <1>11, <1>12, <1>13

LEMMA ReturnDirectStep ==
    ASSUME Sound, NEW t \in Threads, ReturnDirect(t)
    PROVE  /\ Sound' /\ captures' = captures /\ raising' = raising /\ raising[t] = "nothing"
           /\ stack[t] # <<>> /\ Top(t).kind = "direct" /\ stack'[t] = Tail(stack[t])
<1>1. Alone(t)
  BY ActsAlone
<1>2. stack[t] # <<>> /\ raising[t] = "nothing" /\ Top(t).kind = "direct" /\ ~IsRunner(Top(t))
  BY DEF ReturnDirect, Runs, In, IsRunner
<1>3. captures \in Seq(Captured) /\ calls' = calls /\ captures' = captures /\ raising' = raising
      /\ context' = context /\ Pop(t)
  BY DEF Sound, ReturnDirect
<1>4. /\ stack'[t] = Tail(stack[t]) /\ raising'[t] = "nothing" /\ "nothing" \in Errors
      /\ context'[t] = IF IsRunner(Top(t)) THEN Top(t).saved ELSE context[t]
  BY <1>2, <1>3 DEF Pop, Sound, Errors
<1>5. Sound'
  BY <1>1, <1>2, <1>3, <1>4, StepLeaves
<1> QED  BY <1>2, <1>3, <1>4, <1>5

LEMMA FailStep ==
    ASSUME Sound, NEW t \in Threads, Fail(t)
    PROVE  /\ Sound' /\ In(t, {"checker", "direct"}) /\ stack' = stack
           /\ raising[t] = "nothing" /\ raising'[t] = "checker"
           /\ IF Top(t).kind = "checker" /\ Top(t).capture # NoCapture
              THEN captures' = [captures EXCEPT ![Top(t).capture] =
                                  [captures[Top(t).capture] EXCEPT !.raised = TRUE]]
              ELSE captures' = captures
<1> DEFINE f == Top(t)
           c == f.capture
           k == captures[c]
           l == [k EXCEPT !.raised = TRUE]
<1>1. Alone(t)
  BY ActsAlone
<1>2. /\ In(t, {"checker", "direct"}) /\ raising[t] = "nothing" /\ Raise(t, "checker")
      /\ UNCHANGED <<context, inherited, stack, calls>> /\ stack[t] # <<>>
  BY DEF Fail, Runs, In
<1>3. f.kind = "checker" /\ c # NoCapture => c \in 1..Len(captures) /\ k \in Captured
  BY <1>2, CheckerOnTop
<1>4. captures \in Seq(Captured) /\ raising'[t] = "checker" /\ "checker" \in Errors
  BY <1>2 DEF Sound, Raise, Errors
<1>5. CASE f.kind = "checker" /\ c # NoCapture
  <2>1. captures' = [captures EXCEPT ![c] = l]
    BY <1>3, <1>4, <1>5 DEF Fail
  <2>2. l \in Captured
    BY <1>3, <1>5, Reset
  <2>3. captures' \in Seq(Captured) /\ Len(captures') = Len(captures)
    <3> HIDE DEF l
    <3> QED  BY <1>3, <1>4, <1>5, <2>1, <2>2, Replacing
  <2>4. Sound'
    BY <1>1, <1>2, <1>4, <2>3, StepRaises
  <2> QED  BY <1>2, <1>4, <1>5, <2>1, <2>4
<1>6. CASE ~(f.kind = "checker" /\ c # NoCapture)
  <2>1. captures' = captures
    BY <1>6 DEF Fail
  <2>2. Sound'
    BY <1>1, <1>2, <1>4, <2>1, StepRaises
  <2> QED  BY <1>2, <1>4, <1>6, <2>1, <2>2
<1> QED  BY <1>5, <1>6

LEMMA UnwindStep ==
    ASSUME Sound, NEW t \in Threads, Unwind(t)
    PROVE  /\ Sound' /\ stack[t] # <<>> /\ stack'[t] = Tail(stack[t])
           /\ raising[t] # "nothing"
           /\ LET c == Top(t).capture
                  k == captures[c]
              IN  \/ /\ Top(t).kind = "checker" /\ raising' = raising
                     /\ c = NoCapture => captures' = captures
                     /\ c # NoCapture =>
                          captures' = [captures EXCEPT ![c] = [k EXCEPT !.module = NoModule]]
                  \/ /\ Top(t).kind = "accounted" /\ raising'[t] = "nothing"
                     /\ captures' = [captures EXCEPT ![c] = [k EXCEPT !.outcome = "rejected"]]
                  \/ /\ Top(t).kind \in {"public", "direct"} /\ raising'[t] = "nothing"
                     /\ captures' = captures
<1> DEFINE f == Top(t)
           c == f.capture
           k == captures[c]
           l == [k EXCEPT !.module = NoModule]
           l0 == [k EXCEPT !.outcome = "rejected"]
<1>1. Alone(t)
  BY ActsAlone
<1>2. /\ raising[t] # "nothing" /\ Pop(t) /\ UNCHANGED <<inherited, calls>>
  BY DEF Unwind
<1>3. /\ captures \in Seq(Captured) /\ "nothing" \in Errors /\ raising \in [Threads -> Errors]
      /\ stack \in [Threads -> Seq(Frames(Len(captures)))]
      /\ context \in [Threads -> 0..Len(captures)]
  BY DEF Sound, Errors
<1>4. stack[t] # <<>> /\ stack'[t] = Tail(stack[t])
  <2>1. OneThread(stack[t], context[t], inherited[t], raising[t], Len(captures), calls)
    BY DEF Sound, ThreadsSound
  <2>2. stack[t] # <<>>
    BY <1>2, <2>1 DEF OneThread
  <2> QED  BY <1>2, <1>3, <2>2 DEF Pop
<1>5. CASE /\ f.kind = "checker"
           /\ captures' = IF c = NoCapture THEN captures
                          ELSE [captures EXCEPT ![c].module = NoModule]
           /\ UNCHANGED <<context, raising>>
  <2>1. In(t, {"checker", "direct"})
    BY <1>4, <1>5 DEF In
  <2>2. c # NoCapture => c \in 1..Len(captures) /\ k \in Captured
    BY <1>5, <2>1, CheckerOnTop
  <2>3. /\ c = NoCapture => captures' = captures
        /\ c # NoCapture => captures' = [captures EXCEPT ![c] = l]
    BY <1>3, <1>5, <2>2
  <2>4. captures' \in Seq(Captured) /\ Len(captures') = Len(captures)
    <3>1. CASE c = NoCapture
      BY <1>3, <2>3, <3>1
    <3>2. CASE c # NoCapture
      <4>1. l \in Captured
        BY <2>2, <3>2, Reset
      <4> HIDE DEF l
      <4> QED  BY <1>3, <2>2, <2>3, <3>2, <4>1, Replacing
    <3> QED  BY <3>1, <3>2
  <2>5. /\ raising'[t] \in Errors
        /\ context'[t] = IF IsRunner(Top(t)) THEN Top(t).saved ELSE context[t]
    BY <1>3, <1>5 DEF IsRunner
  <2>6. Sound'
    BY <1>1, <1>2, <1>4, <1>5, <2>4, <2>5, StepLeaves
  <2> QED  BY <1>2, <1>4, <1>5, <2>3, <2>6
<1>6. CASE /\ f.kind \in {"accounted", "public"}
           /\ context' = [context EXCEPT ![t] = f.saved]
           /\ captures' = IF f.kind = "public" THEN captures
                          ELSE [captures EXCEPT ![c].outcome = "rejected"]
           /\ Raise(t, "nothing")
  <2>1. /\ raising'[t] = "nothing"
        /\ context'[t] = IF IsRunner(Top(t)) THEN Top(t).saved ELSE context[t]
    BY <1>3, <1>6 DEF IsRunner, Raise
  <2>2. CASE f.kind = "public"
    <3>1. captures' = captures
      BY <1>6, <2>2
    <3>2. Sound'
      BY <1>1, <1>2, <1>3, <1>4, <2>1, <3>1, StepLeaves
    <3> QED  BY <1>2, <1>4, <2>1, <2>2, <3>1, <3>2
  <2>3. CASE f.kind = "accounted"
    <3>1. f \in AccountedFrames(Len(captures))
      BY <1>4, <2>3, TopFacts, KindOfFrame
    <3>2. c \in 1..Len(captures)
      BY <3>1 DEF AccountedFrames
    <3>3. k \in Captured
      BY <1>3, <3>2
    <3>4. captures' = [captures EXCEPT ![c] = l0]
      BY <1>3, <1>6, <2>3, <3>2, <3>3
    <3>5. l0 \in Captured
      BY <3>3, Reset
    <3>6. captures' \in Seq(Captured) /\ Len(captures') = Len(captures)
      <4> HIDE DEF l0
      <4> QED  BY <1>3, <3>2, <3>4, <3>5, Replacing
    <3>7. Sound'
      BY <1>1, <1>2, <1>3, <1>4, <2>1, <3>6, StepLeaves
    <3> QED  BY <1>2, <1>4, <2>1, <2>3, <3>4, <3>7
  <2> QED  BY <1>6, <2>2, <2>3
<1>7. CASE f.kind = "direct" /\ Raise(t, "nothing") /\ UNCHANGED <<context, captures>>
  <2>1. /\ raising'[t] = "nothing"
        /\ context'[t] = IF IsRunner(Top(t)) THEN Top(t).saved ELSE context[t]
    BY <1>3, <1>7 DEF IsRunner, Raise
  <2>2. Sound'
    BY <1>1, <1>2, <1>3, <1>4, <1>7, <2>1, StepLeaves
  <2> QED  BY <1>2, <1>4, <1>7, <2>1, <2>2
<1> QED  BY <1>5, <1>6, <1>7 DEF Unwind

LEMMA InitSound == Init => Sound
<1> SUFFICES ASSUME Init PROVE Sound
  OBVIOUS
<1>1. Restores(<<>>, NoCapture, NoCapture) /\ Nested(<<>>)
  BY DEF Restores, RunnersOf, Nested
<1>2. captures \in Seq(Captured) /\ Len(captures) = 0 /\ calls = 0 /\ calls \in 0..MaxCalls
  BY CaptureContextAssumption DEF Init
<1>3. <<>> \in Seq(Frames(0)) /\ Len(<<>>) = 0
  OBVIOUS
<1> QED  BY <1>1, <1>2, <1>3 DEF Init, Sound, ThreadsSound, OneThread, Errors, NoCapture

LEMMA NextSound == Sound /\ [Next]_vars => Sound'
<1> SUFFICES ASSUME Sound, [Next]_vars PROVE Sound'
  OBVIOUS
<1>1. CASE UNCHANGED vars
  BY <1>1 DEF vars, Sound, ThreadsSound
<1>2. ASSUME NEW t \in Threads,
             \/ StartPublic(t) \/ \E plan \in Plans : StartAccounted(t, plan)
             \/ \E m \in Pilots : CallDirectly(t, m)
             \/ \E u \in Threads : Spawn(t, u)
             \/ BeginLevel(t) \/ Invoke(t) \/ EndLevel(t)
             \/ Validate(t) \/ Publish(t) \/ FinishPublic(t)
             \/ Admit(t) \/ RecordFact(t) \/ Return(t) \/ ReturnDirect(t)
             \/ Fail(t) \/ Unwind(t)
      PROVE  Sound'
  BY <1>2, StartPublicStep, StartAccountedStep, CallDirectlyStep, SpawnStep, BeginLevelStep,
     InvokeStep, EndLevelStep, ValidateStep, PublishStep, FinishPublicStep, AdmitStep,
     RecordFactStep, ReturnStep, ReturnDirectStep, FailStep, UnwindStep, Zenon
<1> QED  BY <1>1, <1>2 DEF Next

(* However runs nest and whichever way they end, a thread's context        *)
(* variable is that of the innermost one: _CAPTURE is set and reset        *)
(* properly.                                                               *)
THEOREM ContextRestored == Spec => []ContextFollowsRuns
<1>1. Sound => ContextFollowsRuns
  <2> SUFFICES ASSUME Sound, NEW t \in Threads
               PROVE  /\ Runners(t) = {} => context[t] = inherited[t]
                      /\ \A i \in Runners(t) : (\A j \in Runners(t) : i <= j) =>
                           context[t] = IF stack[t][i].kind = "public" THEN NoCapture
                                        ELSE stack[t][i].capture
    BY DEF ContextFollowsRuns
  <2>1. OneThread(stack[t], context[t], inherited[t], raising[t], Len(captures), calls)
    BY DEF Sound, ThreadsSound
  <2>2. DOMAIN stack[t] = 1..Len(stack[t])
    BY <2>1 DEF OneThread
  <2>3. Runners(t) = RunnersOf(stack[t])
    BY <2>2 DEF Runners, RunnersOf, IsRunner
  <2>4. \A i \in Runners(t) : Holds(stack[t][i]) = IF stack[t][i].kind = "public" THEN NoCapture
                                                   ELSE stack[t][i].capture
    BY DEF Runners, Holds
  <2>5. Restores(stack[t], context[t], inherited[t])
    BY <2>1 DEF OneThread
  <2> QED  BY <2>3, <2>4, <2>5 DEF Restores
<1> QED  BY <1>1, InitSound, NextSound, PTL DEF Spec

(***************************************************************************)
(* What an accounted run and its capture owe each other.  The frame f is   *)
(* the runner's, k its capture, g the checker it is in, if it is in one.   *)
(***************************************************************************)
Follows(actual, plan, n) ==
    Len(actual) = n /\ \A i \in 1..n : actual[i] = plan[i]

For(facts, level, module) == {x \in facts : x.level = level /\ x.module = module}

(* The run's own checker has recorded for the cell. *)
OwnFact(k, cell) ==
    \E x \in For(k.facts, cell[1], cell[2]) : x.by = "checker" /\ x.call \in k.own

(* Nobody has disturbed the run. *)
Quiet(k) == ~k.raised /\ \A x \in k.facts : x.by # "direct"

Base(f, k) ==
    /\ k.plan = f.plan /\ k.level = f.level /\ k.outcome = "running" /\ k.document = {}
    /\ f.done \in 0..Len(f.plan)
    /\ f.level # NoLevel =>
         /\ \E n \in 1..Len(f.plan) : n <= f.done + 1 /\ f.plan[n][1] = f.level
         /\ \A n \in 1..f.done : f.plan[n][1] <= f.level
    /\ f.level = NoLevel /\ f.done < Len(f.plan) =>
         \A n \in 1..f.done : f.plan[n][1] # f.plan[f.done + 1][1]
    /\ f.validated => f.done = Len(f.plan) /\ f.level = NoLevel
    /\ \A n \in 1..f.done : f.plan[n][2] \in Pilots => OwnFact(k, f.plan[n])

(* With d cells of the plan p done and the level open: the facts of these  *)
(* cells and of the levels that have ended, one for every obligation, and  *)
(* no other.                                                               *)
Exact(p, d, level, returned, facts) ==
    /\ DOMAIN returned = {p[n] : n \in 1..d}
    /\ \A n \in 1..d : p[n][2] \in Pilots =>
         \E x \in facts :
           /\ For(facts, p[n][1], p[n][2]) = {x}
           /\ x.by = "checker" /\ x.finding = returned[p[n]]
    /\ \A n \in 1..d, m \in Pilots :
         p[n][1] # level /\ <<p[n][1], m>> \notin Elements(p) =>
           \E x \in facts : For(facts, p[n][1], m) = {x} /\ x.by = "scheduler"
    /\ \A x \in facts : \E n \in 1..d :
         \/ p[n] = <<x.level, x.module>>
         \/ /\ p[n][1] = x.level /\ x.level # level
            /\ <<x.level, x.module>> \notin Elements(p) /\ x.by = "scheduler"

Idle(f, k, what) ==
    /\ Base(f, k)
    /\ k.module = NoModule
    /\ what = "nothing" => Follows(k.actual, f.plan, f.done)
    /\ Quiet(k) => what = "nothing" /\ Exact(f.plan, f.done, f.level, k.returned, k.facts)

Busy(f, g, k) ==
    /\ Base(f, k)
    /\ k.module = g.module /\ f.level # NoLevel /\ f.done < Len(f.plan)
    /\ f.plan[f.done + 1] = <<f.level, g.module>>
    /\ Follows(k.actual, f.plan, f.done + 1)
    /\ g.call \in k.own
    /\ g.stage = "observed" => FactOf(g, k) \in k.facts
    /\ Quiet(k) =>
         /\ Exact(f.plan, f.done, f.level, k.returned, g.earlier)
         /\ k.facts = g.earlier \cup (IF g.stage = "observed" THEN {FactOf(g, k)} ELSE {})

LEMMA PlanFacts ==
    ASSUME NEW p \in Plans
    PROVE  /\ p \in Seq(Nat \X Modules) /\ Len(p) \in Nat /\ DOMAIN p = 1..Len(p)
           /\ \A n \in 1..Len(p) : /\ p[n] = <<p[n][1], p[n][2]>> /\ p[n][1] \in Nat
                                   /\ p[n][2] \in Modules /\ p[n] \in Elements(p)
                                   /\ p[n][1] \in Levels(p) /\ p[n][1] # NoLevel
           /\ \A i, j \in 1..Len(p) : i < j => p[i] # p[j] /\ p[i][1] <= p[j][1]
<1>1. p \in Seq(Nat \X Modules) /\ Len(p) \in Nat /\ DOMAIN p = 1..Len(p)
  BY CaptureContextAssumption
<1>2. ASSUME NEW n \in 1..Len(p)
      PROVE  /\ p[n] = <<p[n][1], p[n][2]>> /\ p[n][1] \in Nat
             /\ p[n][2] \in Modules /\ p[n] \in Elements(p)
             /\ p[n][1] \in Levels(p) /\ p[n][1] # NoLevel
  <2>1. p[n] \in Nat \X Modules /\ p[n] \in Elements(p)
    BY <1>1 DEF Elements
  <2>2. p[n] = <<p[n][1], p[n][2]>> /\ p[n][1] \in Nat /\ p[n][2] \in Modules
    BY <2>1
  <2> QED  BY <2>1, <2>2 DEF Levels, NoLevel
<1>3. \A i, j \in 1..Len(p) : i < j => p[i] # p[j] /\ p[i][1] <= p[j][1]
  BY <1>1, CaptureContextAssumption
<1> QED  BY <1>1, <1>2, <1>3

LEMMA BeginsLevel ==
    ASSUME NEW n, NEW f \in AccountedFrames(n), NEW k \in Captured, Idle(f, k, "nothing"),
           f.level = NoLevel, f.done < Len(f.plan)
    PROVE  LET level == f.plan[f.done + 1][1] IN
           /\ k.level = NoLevel /\ level \in Levels(k.plan)
           /\ Idle([f EXCEPT !.level = level], [k EXCEPT !.level = level], "nothing")
<1> DEFINE p == f.plan
           d == f.done
           level == p[d + 1][1]
           g == [f EXCEPT !.level = level]
           l == [k EXCEPT !.level = level]
<1>1. /\ p \in Plans /\ d \in Nat /\ g.plan = p /\ g.done = d /\ g.level = level
      /\ g.validated = f.validated
  BY DEF AccountedFrames
<1>2. /\ l.plan = k.plan /\ l.level = level /\ l.outcome = k.outcome /\ l.document = k.document
      /\ l.module = k.module /\ l.actual = k.actual /\ l.facts = k.facts
      /\ l.returned = k.returned /\ l.own = k.own /\ l.raised = k.raised
  BY DEF Captured
<1>3. /\ k.plan = p /\ k.level = NoLevel /\ k.outcome = "running" /\ k.document = {}
      /\ \A m \in 1..d : p[m][1] # level
      /\ ~f.validated
      /\ \A m \in 1..d : p[m][2] \in Pilots => OwnFact(k, p[m])
  BY <1>1 DEF Idle, Base
<1>4. /\ d + 1 \in 1..Len(p) /\ level \in Nat /\ level \in Levels(p) /\ level # NoLevel
      /\ \A m \in 1..d : m \in 1..Len(p) /\ p[m][1] <= level
  <2>1. d + 1 \in 1..Len(p) /\ \A m \in 1..d : m \in 1..Len(p) /\ m < d + 1
    BY <1>1, PlanFacts
  <2> QED  BY <1>1, <2>1, PlanFacts
<1> HIDE DEF g, l, level, p, d
<1>5. Base(g, l)
  <2>1. \A m \in 1..d : p[m][2] \in Pilots => OwnFact(l, p[m])
    BY <1>2, <1>3 DEF OwnFact
  <2>2. \E m \in 1..Len(p) : m <= d + 1 /\ p[m][1] = level
    <3>1. d + 1 <= d + 1 /\ p[d + 1][1] = level
      BY <1>1 DEF level
    <3> QED  BY <1>4, <3>1
  <2>3. d \in 0..Len(p)
    BY <1>1, <1>4, PlanFacts
  <2> QED  BY <1>1, <1>2, <1>3, <1>4, <2>1, <2>2, <2>3 DEF Base
<1>6. Quiet(l) => Exact(p, d, level, l.returned, l.facts)
  <2> SUFFICES ASSUME Quiet(l) PROVE Exact(p, d, level, l.returned, l.facts)
    OBVIOUS
  <2>1. Exact(p, d, NoLevel, k.returned, k.facts)
    BY <1>2 DEF Idle, Quiet, p, d
  <2>2. ASSUME NEW m \in 1..d PROVE p[m][1] # NoLevel /\ p[m][1] # level
    BY <1>1, <1>3, <1>4, PlanFacts
  <2>3. ASSUME NEW x \in k.facts
        PROVE  \E m \in 1..d :
                 \/ p[m] = <<x.level, x.module>>
                 \/ /\ p[m][1] = x.level /\ x.level # level
                    /\ <<x.level, x.module>> \notin Elements(p) /\ x.by = "scheduler"
    <3>1. PICK m \in 1..d :
                 \/ p[m] = <<x.level, x.module>>
                 \/ /\ p[m][1] = x.level /\ x.level # NoLevel
                    /\ <<x.level, x.module>> \notin Elements(p) /\ x.by = "scheduler"
      BY <2>1, Zenon DEF Exact
    <3>2. p[m][1] # level
      BY <2>2
    <3> QED  BY <3>1, <3>2
  <2>4. \A m \in 1..d, o \in Pilots :
             p[m][1] # level /\ <<p[m][1], o>> \notin Elements(p) =>
               \E x \in k.facts : For(k.facts, p[m][1], o) = {x} /\ x.by = "scheduler"
    BY <2>1, <2>2, Zenon DEF Exact
  <2>5. Exact(p, d, level, k.returned, k.facts)
    BY <2>1, <2>3, <2>4, Zenon DEF Exact
  <2> QED  BY <1>2, <2>5
<1>7. Idle(g, l, "nothing")
  BY <1>1, <1>2, <1>5, <1>6 DEF Idle, p, d
<1> QED  BY <1>3, <1>4, <1>7 DEF g, l, level, p, d

LEMMA Invokes ==
    ASSUME NEW n, NEW f \in AccountedFrames(n), NEW k \in Captured, Idle(f, k, "nothing"),
           MoreAtLevel(f), NEW call \in Nat, NEW c
    PROVE  LET m == f.plan[f.done + 1][2]
               g == [kind |-> "checker", call |-> call, module |-> m, stage |-> "working",
                     finding |-> {}, capture |-> c, earlier |-> k.facts]
               l == [k EXCEPT !.actual = Append(@, <<k.level, m>>), !.module = m,
                              !.own = @ \cup {call}]
           IN  /\ k.level # NoLevel /\ k.module = NoModule
               /\ Len(k.actual) < Len(k.plan)
               /\ k.plan[Len(k.actual) + 1] = <<k.level, m>>
               /\ Busy(f, g, l)
<1> DEFINE p == f.plan
           d == f.done
           m == p[d + 1][2]
           g == [kind |-> "checker", call |-> call, module |-> m, stage |-> "working",
                 finding |-> {}, capture |-> c, earlier |-> k.facts]
           l == [k EXCEPT !.actual = Append(@, <<k.level, m>>), !.module = m,
                          !.own = @ \cup {call}]
<1>1. /\ p \in Plans /\ d \in Nat /\ d < Len(p) /\ p[d + 1][1] = f.level
      /\ k.plan = p /\ k.level = f.level /\ k.module = NoModule
      /\ k.outcome = "running" /\ k.document = {}
      /\ Follows(k.actual, p, d)
      /\ \A i \in 1..d : p[i][2] \in Pilots => OwnFact(k, p[i])
      /\ k.actual \in Seq(Nat \X Modules)
  BY DEF AccountedFrames, Idle, Base, MoreAtLevel, Captured
<1>2. /\ l.plan = k.plan /\ l.level = k.level /\ l.outcome = k.outcome /\ l.document = k.document
      /\ l.module = m /\ l.actual = Append(k.actual, <<k.level, m>>) /\ l.facts = k.facts
      /\ l.returned = k.returned /\ l.own = k.own \cup {call} /\ l.raised = k.raised
  BY DEF Captured
<1>3. /\ g.module = m /\ g.stage = "working" /\ g.earlier = k.facts /\ g.call = call
  OBVIOUS
<1>4. /\ d + 1 \in 1..Len(p) /\ p[d + 1] = <<f.level, m>> /\ f.level \in Nat
      /\ f.level # NoLevel /\ m \in Modules
  <2>1. d + 1 \in 1..Len(p)
    BY <1>1, PlanFacts
  <2> QED  BY <1>1, <2>1, PlanFacts
<1>5. Follows(l.actual, p, d + 1)
  <2>1. Len(k.actual) = d /\ \A i \in 1..d : k.actual[i] = p[i]
    BY <1>1 DEF Follows
  <2>2. <<k.level, m>> \in Nat \X Modules
    BY <1>1, <1>4
  <2> HIDE DEF m, l
  <2>3. /\ Len(l.actual) = d + 1 /\ l.actual[d + 1] = <<k.level, m>>
        /\ \A i \in 1..d : l.actual[i] = k.actual[i]
    BY <1>1, <1>2, <2>1, <2>2
  <2>4. ASSUME NEW i \in 1..(d + 1) PROVE l.actual[i] = p[i]
    <3>1. i \in 1..d \/ i = d + 1
      BY <1>1
    <3> QED  BY <1>1, <1>4, <2>1, <2>3, <3>1
  <2> QED  BY <2>3, <2>4 DEF Follows
<1>6. Base(f, l)
  <2>1. \A i \in 1..d : p[i][2] \in Pilots => OwnFact(l, p[i])
    BY <1>1, <1>2 DEF OwnFact
  <2> HIDE DEF l
  <2> QED  BY <1>2, <2>1 DEF Idle, Base
<1>7. Quiet(l) => Exact(p, d, f.level, l.returned, g.earlier)
  <2> HIDE DEF l, g
  <2> QED  BY <1>2, <1>3 DEF Idle, Quiet
<1>8. Busy(f, g, l)
  <2> HIDE DEF l, g, m
  <2>1. /\ l.module = g.module /\ f.level # NoLevel /\ f.done < Len(f.plan)
        /\ f.plan[f.done + 1] = <<f.level, g.module>> /\ Follows(l.actual, f.plan, f.done + 1)
    BY <1>1, <1>2, <1>3, <1>4, <1>5
  <2>2. g.call \in l.own
    BY <1>2, <1>3
  <2>3. l.facts = g.earlier \cup {} /\ g.stage # "observed"
    BY <1>2, <1>3
  <2> QED  BY <1>6, <1>7, <2>1, <2>2, <2>3 DEF Busy
<1>9. /\ k.level # NoLevel /\ k.module = NoModule
      /\ Len(k.actual) < Len(k.plan)
      /\ k.plan[Len(k.actual) + 1] = <<k.level, m>>
  BY <1>1, <1>4 DEF Follows
<1> QED  BY <1>8, <1>9

(* The planned cells of a level that is over are the ones that ran. *)
LEMMA RanAll ==
    ASSUME NEW p \in Plans, NEW actual \in Seq(Nat \X Modules), NEW d \in Nat,
           d <= Len(p), Follows(actual, p, d), NEW level,
           \A n \in 1..Len(p) : p[n][1] = level => n <= d
    PROVE  RanAsPlanned(actual, p, level)
<1> DEFINE I == At(actual, level)
           match == [i \in I |-> i]
<1>1. /\ Len(p) \in Nat /\ DOMAIN p = 1..Len(p) /\ DOMAIN actual = 1..d
      /\ \A i \in 1..d : actual[i] = p[i]
  BY PlanFacts DEF Follows
<1>2. \A i \in I : i \in 1..d /\ actual[i] = p[i]
  BY <1>1 DEF At
<1>3. At(p, level) = I
  <2>1. ASSUME NEW i \in At(p, level) PROVE i \in I
    BY <1>1 DEF At
  <2>2. ASSUME NEW i \in I PROVE i \in At(p, level)
    BY <1>1 DEF At
  <2> QED  BY <2>1, <2>2
<1>4. \A i \in I : i \in Int
  BY <1>2
<1> HIDE DEF I
<1>5. match \in InOrder(I, I)
  <2>1. match \in [I -> I] /\ \A i \in I : match[i] = i
    OBVIOUS
  <2> HIDE DEF match
  <2> QED  BY <2>1 DEF InOrder
<1>6. \A i \in I : actual[i] = p[match[i]]
  BY <1>2
<1> QED  BY <1>3, <1>5, <1>6 DEF RanAsPlanned, I

LEMMA EndsLevel ==
    ASSUME NEW n, NEW f \in AccountedFrames(n), NEW k \in Captured, Idle(f, k, "nothing"),
           f.level # NoLevel, ~MoreAtLevel(f)
    PROVE  /\ k.level = f.level /\ k.module = NoModule
           /\ RanAsPlanned(k.actual, k.plan, f.level)
           /\ Idle([f EXCEPT !.level = NoLevel],
                   [k EXCEPT !.level = NoLevel, !.facts = @ \cup IdleFacts(k, f.level)],
                   "nothing")
<1> DEFINE p == f.plan
           d == f.done
           level == f.level
           more == IdleFacts(k, level)
           g == [f EXCEPT !.level = NoLevel]
           l == [k EXCEPT !.level = NoLevel, !.facts = @ \cup more]
<1>1. /\ p \in Plans /\ d \in Nat /\ g.plan = p /\ g.done = d /\ g.level = NoLevel
      /\ g.validated = f.validated /\ level \in Levelled /\ level # NoLevel
  BY DEF AccountedFrames
<1>2. /\ l.plan = k.plan /\ l.level = NoLevel /\ l.outcome = k.outcome /\ l.document = k.document
      /\ l.module = k.module /\ l.actual = k.actual /\ l.facts = k.facts \cup more
      /\ l.returned = k.returned /\ l.own = k.own /\ l.raised = k.raised
      /\ k.actual \in Seq(Nat \X Modules)
  BY DEF Captured
<1>3. /\ k.plan = p /\ k.level = level /\ k.outcome = "running" /\ k.document = {}
      /\ k.module = NoModule /\ d \in 0..Len(p) /\ ~f.validated
      /\ \E m \in 1..Len(p) : m <= d + 1 /\ p[m][1] = level
      /\ \A m \in 1..d : p[m][1] <= level
      /\ \A m \in 1..d : p[m][2] \in Pilots => OwnFact(k, p[m])
      /\ Follows(k.actual, p, d)
      /\ Quiet(k) => Exact(p, d, level, k.returned, k.facts)
      /\ d < Len(p) => p[d + 1][1] # level
  BY <1>1 DEF Idle, Base, MoreAtLevel
<1> HIDE DEF g, l, level, p, d, more
<1>4. /\ Len(p) \in Nat /\ d <= Len(p) /\ level \in Nat
      /\ \A i, j \in 1..Len(p) : i < j => p[i] # p[j] /\ p[i][1] <= p[j][1]
      /\ \A m \in 1..Len(p) : p[m] = <<p[m][1], p[m][2]>> /\ p[m][1] \in Nat /\ p[m] \in Elements(p)
      /\ \A m \in 1..d : m \in 1..Len(p)
  BY <1>1, <1>3, PlanFacts DEF Levelled
<1>5. PICK b \in 1..d : p[b][1] = level
  <2>1. PICK m \in 1..Len(p) : m <= d + 1 /\ p[m][1] = level
    BY <1>3
  <2>2. m # d + 1
    <3> SUFFICES ASSUME m = d + 1 PROVE FALSE
      OBVIOUS
    <3>1. d < Len(p)
      BY <1>1, <1>4, <2>1
    <3> QED  BY <1>3, <2>1, <3>1
  <2>3. m \in 1..d
    BY <1>1, <1>4, <2>1, <2>2
  <2> QED  BY <2>1, <2>3
<1>6. ASSUME NEW m \in 1..Len(p), m > d PROVE p[m][1] > level
  <2>1. d < Len(p) /\ d + 1 \in 1..Len(p) /\ b \in 1..Len(p) /\ b < d + 1
    BY <1>1, <1>4, <1>5, <1>6
  <2>2. p[b][1] <= p[d + 1][1] /\ p[d + 1][1] \in Nat /\ p[m][1] \in Nat
    BY <1>4, <2>1
  <2>3. p[d + 1][1] # level
    BY <1>3, <2>1
  <2>4. p[d + 1][1] <= p[m][1]
    <3>1. CASE m = d + 1
      BY <2>2, <3>1
    <3>2. CASE m # d + 1
      <4>1. d + 1 < m
        BY <1>1, <1>6, <3>2
      <4> QED  BY <1>4, <2>1, <4>1
    <3> QED  BY <3>1, <3>2
  <2> QED  BY <1>4, <1>5, <2>2, <2>3, <2>4
<1>7. RanAsPlanned(k.actual, p, level)
  <2>1. ASSUME NEW m \in 1..Len(p), p[m][1] = level PROVE m <= d
    <3>1. ~(p[m][1] > level)
      BY <1>4, <2>1
    <3>2. ~(m > d)
      BY <1>6, <3>1
    <3> QED  BY <1>1, <3>2
  <2> QED  BY <1>1, <1>2, <1>3, <1>4, <2>1, RanAll
<1>8. Base(g, l)
  <2>1. \A m \in 1..d : p[m][2] \in Pilots => OwnFact(l, p[m])
    BY <1>2, <1>3 DEF OwnFact, For
  <2>2. ASSUME d < Len(p), NEW m \in 1..d PROVE p[m][1] # p[d + 1][1]
    <3>1. d + 1 \in 1..Len(p) /\ d + 1 > d
      BY <1>1, <1>4, <2>2
    <3>2. p[d + 1][1] > level /\ p[m][1] <= level
      BY <1>3, <1>6, <3>1
    <3>3. p[d + 1][1] \in Nat /\ p[m][1] \in Nat
      BY <1>4, <3>1
    <3> QED  BY <1>4, <3>2, <3>3
  <2> QED  BY <1>1, <1>2, <1>3, <2>1, <2>2 DEF Base
<1>9. ASSUME NEW x \in more
      PROVE  /\ x.level = level /\ x.module \in Pilots /\ x.by = "scheduler"
             /\ <<level, x.module>> \notin Elements(p)
             /\ x = [level |-> level, module |-> x.module, finding |-> {}, by |-> "scheduler",
                     call |-> 0]
  <2>1. PICK m \in {m \in Pilots : <<level, m>> \notin Elements(p)} :
          x = [level |-> level, module |-> m, finding |-> {}, by |-> "scheduler", call |-> 0]
    BY <1>3, <1>9, Zenon DEF IdleFacts, more
  <2>2. x.level = level /\ x.module = m /\ x.by = "scheduler"
    BY <2>1
  <2> QED  BY <2>1, <2>2
<1>10. ASSUME NEW m \in Pilots, <<level, m>> \notin Elements(p)
       PROVE  \E x \in more : For(more, level, m) = {x} /\ x.by = "scheduler"
  <2> DEFINE x == [level |-> level, module |-> m, finding |-> {}, by |-> "scheduler", call |-> 0]
  <2>1. x \in more /\ x.level = level /\ x.module = m /\ x.by = "scheduler"
    BY <1>3, <1>10 DEF IdleFacts, more
  <2>2. ASSUME NEW y \in For(more, level, m) PROVE y = x
    <3> HIDE DEF more
    <3>1. y \in more /\ y.module = m
      BY <2>2 DEF For
    <3> QED  BY <1>9, <3>1
  <2> HIDE DEF x
  <2>3. For(more, level, m) = {x}
    BY <2>1, <2>2 DEF For
  <2> QED  BY <2>1, <2>3
<1>11. Quiet(l) <=> Quiet(k)
  BY <1>2, <1>9 DEF Quiet
<1> DEFINE F == k.facts
<1> HIDE DEF F
<1>12. ASSUME Quiet(k) PROVE Exact(p, d, NoLevel, k.returned, F \cup more)
  <2>1. Exact(p, d, level, k.returned, F)
    BY <1>3, <1>12 DEF F
  <2>2. DOMAIN k.returned = {p[m] : m \in 1..d}
    BY <2>1 DEF Exact
  <2>3. ASSUME NEW m \in 1..d, p[m][2] \in Pilots
        PROVE  \E x \in F \cup more :
                 /\ For(F \cup more, p[m][1], p[m][2]) = {x}
                 /\ x.by = "checker" /\ x.finding = k.returned[p[m]]
    <3>1. PICK x \in F : /\ For(F, p[m][1], p[m][2]) = {x}
                         /\ x.by = "checker" /\ x.finding = k.returned[p[m]]
      BY <2>1, <2>3 DEF Exact
    <3>2. p[m] = <<p[m][1], p[m][2]>> /\ p[m] \in Elements(p)
      BY <1>4
    <3>3. For(F \cup more, p[m][1], p[m][2]) = For(F, p[m][1], p[m][2])
      BY <1>9, <3>2 DEF For
    <3> QED  BY <3>1, <3>3
  <2>4. ASSUME NEW m \in 1..d, NEW o \in Pilots, <<p[m][1], o>> \notin Elements(p)
        PROVE  \E x \in F \cup more : For(F \cup more, p[m][1], o) = {x} /\ x.by = "scheduler"
    <3>1. CASE p[m][1] # level
      <4>1. PICK x \in F : For(F, p[m][1], o) = {x} /\ x.by = "scheduler"
        BY <2>1, <2>4, <3>1 DEF Exact
      <4>2. For(F \cup more, p[m][1], o) = For(F, p[m][1], o)
        BY <1>9, <3>1 DEF For
      <4> QED  BY <4>1, <4>2
    <3>2. CASE p[m][1] = level
      <4>1. PICK x \in more : For(more, level, o) = {x} /\ x.by = "scheduler"
        BY <1>10, <2>4, <3>2
      <4>2. ASSUME NEW y \in F, y.level = level, y.module = o PROVE FALSE
        <5>1. PICK i \in 1..d :
                 \/ p[i] = <<y.level, y.module>>
                 \/ /\ p[i][1] = y.level /\ y.level # level
                    /\ <<y.level, y.module>> \notin Elements(p) /\ y.by = "scheduler"
          BY <2>1 DEF Exact
        <5>2. p[i] = <<level, o>>
          BY <4>2, <5>1
        <5> QED  BY <1>4, <2>4, <3>2, <5>2
      <4>3. For(F \cup more, level, o) = For(more, level, o)
        BY <4>2 DEF For
      <4> QED  BY <3>2, <4>1, <4>3
    <3> QED  BY <3>1, <3>2
  <2>5. ASSUME NEW x \in F \cup more
        PROVE  \E m \in 1..d :
                 \/ p[m] = <<x.level, x.module>>
                 \/ /\ p[m][1] = x.level /\ x.level # NoLevel
                    /\ <<x.level, x.module>> \notin Elements(p) /\ x.by = "scheduler"
    <3>1. CASE x \in F
      <4>1. PICK m \in 1..d :
                 \/ p[m] = <<x.level, x.module>>
                 \/ /\ p[m][1] = x.level /\ x.level # level
                    /\ <<x.level, x.module>> \notin Elements(p) /\ x.by = "scheduler"
        BY <2>1, <3>1 DEF Exact
      <4>2. p[m][1] # NoLevel
        BY <1>4 DEF NoLevel
      <4> QED  BY <4>1, <4>2
    <3>2. CASE x \in more
      BY <1>1, <1>5, <1>9, <3>2
    <3> QED  BY <3>1, <3>2
  <2> QED  BY <2>2, <2>3, <2>4, <2>5 DEF Exact
<1>13. Idle(g, l, "nothing")
  BY <1>1, <1>2, <1>3, <1>8, <1>11, <1>12 DEF Idle, F
<1> QED  BY <1>3, <1>7, <1>13 DEF g, l, level, p, d, more

LEMMA SameSequence ==
    ASSUME NEW S, NEW a \in Seq(S), NEW b \in Seq(S), Len(a) = Len(b),
           \A i \in 1..Len(b) : a[i] = b[i]
    PROVE  a = b
  OBVIOUS

LEMMA Validates ==
    ASSUME NEW n, NEW f \in AccountedFrames(n), NEW k \in Captured, Idle(f, k, "nothing"),
           f.done = Len(f.plan), f.level = NoLevel, Quiet(k)
    PROVE  Validated(k)
<1> DEFINE p == f.plan
           d == f.done
<1>1. /\ p \in Plans /\ d = Len(p) /\ k.plan = p /\ k.level = NoLevel
      /\ Follows(k.actual, p, d) /\ Exact(p, d, NoLevel, k.returned, k.facts)
      /\ k.actual \in Seq(Nat \X Modules) /\ k.facts \in SUBSET Facts
  BY DEF AccountedFrames, Captured, Idle, Base
<1> HIDE DEF p, d
<1>2. p \in Seq(Nat \X Modules) /\ DOMAIN p = 1..Len(p) /\ Len(p) \in Nat
  BY <1>1, PlanFacts
<1>3. k.actual = p
  <2>1. Len(k.actual) = Len(p) /\ \A i \in 1..Len(p) : k.actual[i] = p[i]
    BY <1>1 DEF Follows
  <2> QED  BY <1>1, <1>2, <2>1, SameSequence
<1>4. DOMAIN k.returned = Elements(p)
  BY <1>1, <1>2 DEF Exact, Elements
<1>5. ASSUME NEW cell \in Elements(p)
      PROVE  ReturnedAsEarned({x \in k.facts : x.level = cell[1] /\ x.module = cell[2]},
                              cell[2], k.returned[cell])
  <2> DEFINE F == {x \in k.facts : x.level = cell[1] /\ x.module = cell[2]}
  <2>1. PICK m \in 1..d : cell = p[m]
    BY <1>1, <1>2, <1>5 DEF Elements
  <2>2. CASE cell[2] \in Pilots
    <3>1. PICK x \in k.facts : F = {x} /\ x.finding = k.returned[cell]
      BY <1>1, <2>1, <2>2 DEF Exact, For
    <3>2. x \in F
      BY <3>1
    <3>3. x.module = cell[2]
      BY <3>2
    <3> HIDE DEF F
    <3>4. {g \in {x} : g.module = cell[2]} = {x}
      BY <3>3
    <3>5. UNION {y.finding : y \in {x}} = x.finding
      OBVIOUS
    <3>6. ReturnedAsEarned({x}, cell[2], k.returned[cell])
      BY <3>1, <3>4, <3>5 DEF ReturnedAsEarned
    <3> QED  BY <3>1, <3>6 DEF F
  <2>3. CASE cell[2] \notin Pilots
    <3>1. F = {}
      BY <1>1, <2>3 DEF Facts
    <3> QED  BY <2>3, <3>1 DEF ReturnedAsEarned
  <2> QED  BY <2>2, <2>3
<1> QED  BY <1>1, <1>3, <1>4, <1>5 DEF Validated

LEMMA Projects ==
    ASSUME NEW n, NEW f \in AccountedFrames(n), NEW k \in Captured, Idle(f, k, "nothing"),
           f.done = Len(f.plan), f.level = NoLevel, Quiet(k)
    PROVE  Projectable(k.plan, k.facts)
<1> DEFINE p == f.plan
           d == f.done
<1>1. /\ p \in Plans /\ d = Len(p) /\ k.plan = p
      /\ Exact(p, d, NoLevel, k.returned, k.facts)
      /\ k.facts \in SUBSET Facts
  BY DEF AccountedFrames, Captured, Idle, Base
<1> HIDE DEF p, d
<1>2. /\ DOMAIN p = 1..Len(p) /\ Len(p) \in Nat
      /\ \A m \in 1..Len(p) : /\ p[m] = <<p[m][1], p[m][2]>> /\ p[m][1] # NoLevel
                              /\ p[m] \in Elements(p)
  BY <1>1, PlanFacts
<1>3. ASSUME NEW x \in k.facts
      PROVE  (<<x.level, x.module>> \in Elements(p)) # (x.by = "scheduler")
  <2>1. PICK m \in 1..d :
                 \/ p[m] = <<x.level, x.module>>
                 \/ <<x.level, x.module>> \notin Elements(p) /\ x.by = "scheduler"
    BY <1>1 DEF Exact
  <2>2. ASSUME p[m] = <<x.level, x.module>>
        PROVE  <<x.level, x.module>> \in Elements(p) /\ x.by # "scheduler"
    <3>1. x.module \in Pilots /\ p[m][1] = x.level /\ p[m][2] = x.module
          /\ p[m][2] \in Pilots
      BY <1>1, <2>2 DEF Facts
    <3>2. PICK y \in k.facts : For(k.facts, p[m][1], p[m][2]) = {y} /\ y.by = "checker"
      <4>1. \A n1 \in 1..d :
              p[n1][2] \in Pilots =>
                \E y \in k.facts :
                  For(k.facts, p[n1][1], p[n1][2]) = {y} /\ y.by = "checker"
        <5>1. \A n1 \in 1..d :
                p[n1][2] \in Pilots =>
                  \E y \in k.facts :
                    /\ For(k.facts, p[n1][1], p[n1][2]) = {y}
                    /\ y.by = "checker" /\ y.finding = k.returned[p[n1]]
          BY <1>1, Zenon DEF Exact
        <5> QED  BY <5>1, Zenon
      <4> QED  BY <3>1, <4>1, Zenon
    <3>3. x \in For(k.facts, x.level, x.module)
      BY DEF For
    <3> QED  BY <1>1, <1>2, <2>2, <3>1, <3>2, <3>3
  <2> QED  BY <2>1, <2>2
<1>4. ASSUME NEW level \in Levels(p), NEW m \in Pilots
      PROVE  \E x \in k.facts : {y \in k.facts : y.level = level /\ y.module = m} = {x}
  <2>1. PICK i \in 1..d : p[i][1] = level
    BY <1>1, <1>2, <1>4 DEF Levels, Elements
  <2>2. \E x \in k.facts : For(k.facts, level, m) = {x}
    <3>1. CASE <<level, m>> \in Elements(p)
      <4>1. PICK j \in 1..d : p[j] = <<level, m>>
        BY <1>1, <1>2, <3>1 DEF Elements
      <4>2. p[j][1] = level /\ p[j][2] = m
        BY <4>1
      <4>3. \E x \in k.facts : For(k.facts, p[j][1], p[j][2]) = {x}
        BY <1>1, <4>2 DEF Exact
      <4> QED  BY <4>2, <4>3
    <3>2. CASE <<level, m>> \notin Elements(p)
      <4>1. p[i][1] # NoLevel /\ <<p[i][1], m>> \notin Elements(p)
        BY <1>1, <1>2, <2>1, <3>2
      <4>2. \E x \in k.facts : For(k.facts, p[i][1], m) = {x} /\ x.by = "scheduler"
        <5>1. \A n1 \in 1..d, o \in Pilots :
                p[n1][1] # NoLevel /\ <<p[n1][1], o>> \notin Elements(p) =>
                  \E x \in k.facts : For(k.facts, p[n1][1], o) = {x} /\ x.by = "scheduler"
          BY <1>1, Zenon DEF Exact
        <5> QED  BY <4>1, <5>1, Zenon
      <4> QED  BY <2>1, <4>2
    <3> QED  BY <3>1, <3>2
  <2> QED  BY <2>2 DEF For
<1> QED  BY <1>1, <1>3, <1>4 DEF Projectable

(* The published facts are the run's own. *)
LEMMA PublishesOwn ==
    ASSUME NEW n, NEW f \in AccountedFrames(n), NEW k \in Captured, Idle(f, k, "nothing"),
           f.done = Len(f.plan), Projectable(k.plan, k.facts), NEW x \in k.facts
    PROVE  x.by = "scheduler" \/ (x.by = "checker" /\ x.call \in k.own)
<1> SUFFICES ASSUME x.by # "scheduler" PROVE x.by = "checker" /\ x.call \in k.own
  OBVIOUS
<1> DEFINE p == f.plan
<1>1. /\ p \in Plans /\ k.plan = p /\ x \in Facts
      /\ \A m \in 1..Len(p) : p[m][2] \in Pilots => OwnFact(k, p[m])
  BY DEF AccountedFrames, Captured, Idle, Base
<1>2. <<x.level, x.module>> \in Elements(p) /\ x.module \in Pilots
  BY <1>1 DEF Projectable, Facts
<1>3. PICK m \in 1..Len(p) : p[m] = <<x.level, x.module>>
  BY <1>1, <1>2, PlanFacts DEF Elements
<1>4. p[m][1] = x.level /\ p[m][2] = x.module /\ x.level \in Levels(p)
  BY <1>1, <1>3, PlanFacts
<1>5. PICK y \in For(k.facts, x.level, x.module) : y.by = "checker" /\ y.call \in k.own
  BY <1>1, <1>2, <1>4 DEF OwnFact
<1>6. PICK z \in k.facts : {w \in k.facts : w.level = x.level /\ w.module = x.module} = {z}
  BY <1>1, <1>2, <1>4 DEF Projectable
<1>7. x = z /\ y = z
  BY <1>6 DEF For
<1> QED  BY <1>5, <1>7

(***************************************************************************)
(* What a checker in a copy of the context can do to a capture: it adds a  *)
(* fact, or it raises in a checker of the run's own.                       *)
(***************************************************************************)
Like(k, l) ==
    /\ l.plan = k.plan /\ l.level = k.level /\ l.module = k.module /\ l.actual = k.actual
    /\ l.returned = k.returned /\ l.outcome = k.outcome /\ l.document = k.document
    /\ l.own = k.own
    /\ k.facts \subseteq l.facts
    /\ Quiet(l) => Quiet(k) /\ l.facts = k.facts

LEMMA LikeItself == ASSUME NEW k PROVE Like(k, k)
  BY DEF Like

LEMMA BaseLike ==
    ASSUME NEW f, NEW k, NEW l, Like(k, l), Base(f, k)
    PROVE  Base(f, l)
<1>1. \A n \in 1..f.done : f.plan[n][2] \in Pilots => OwnFact(l, f.plan[n])
  BY DEF Base, Like, OwnFact, For
<1> QED  BY <1>1 DEF Base, Like

LEMMA IdleLike ==
    ASSUME NEW f, NEW k, NEW l, NEW what, Like(k, l), Idle(f, k, what)
    PROVE  Idle(f, l, what)
<1>1. Base(f, l)
  BY BaseLike DEF Idle
<1> QED  BY <1>1 DEF Idle, Like

LEMMA BusyLike ==
    ASSUME NEW f, NEW g, NEW k, NEW l, Like(k, l), Busy(f, g, k)
    PROVE  Busy(f, g, l)
<1>1. Base(f, l)
  BY BaseLike DEF Busy
<1>2. FactOf(g, l) = FactOf(g, k)
  BY DEF FactOf, Like
<1>3. g.stage = "observed" => FactOf(g, l) \in l.facts
  BY <1>2 DEF Busy, Like
<1>4. ASSUME Quiet(l)
      PROVE  /\ Exact(f.plan, f.done, f.level, l.returned, g.earlier)
             /\ l.facts = g.earlier \cup
                            (IF g.stage = "observed" THEN {FactOf(g, l)} ELSE {})
  BY <1>2, <1>4 DEF Busy, Like
<1> QED  BY <1>1, <1>3, <1>4 DEF Busy, Like

(* The checker goes on without recording. *)
LEMMA BusyGoesOn ==
    ASSUME NEW n, NEW f, NEW g \in CheckerFrames(n), NEW k, Busy(f, g, k),
           g.stage = "working", NEW finding
    PROVE  Busy(f, [g EXCEPT !.stage = "admitted", !.finding = finding], k)
<1> DEFINE h == [g EXCEPT !.stage = "admitted", !.finding = finding]
<1>1. h.stage = "admitted" /\ h.module = g.module /\ h.call = g.call /\ h.earlier = g.earlier
  BY DEF CheckerFrames
<1> HIDE DEF h
<1>2. Busy(f, h, k)
  BY <1>1 DEF Busy
<1> QED  BY <1>2 DEF h

LEMMA BusyRecords ==
    ASSUME NEW n, NEW f, NEW g \in CheckerFrames(n), NEW k \in Captured, Busy(f, g, k),
           g.stage = "admitted"
    PROVE  Busy(f, [g EXCEPT !.stage = "observed"],
                [k EXCEPT !.facts = @ \cup {FactOf(g, k)}])
<1> DEFINE h == [g EXCEPT !.stage = "observed"]
           l == [k EXCEPT !.facts = @ \cup {FactOf(g, k)}]
<1>1. /\ h.stage = "observed" /\ h.module = g.module /\ h.call = g.call /\ h.earlier = g.earlier
      /\ h.finding = g.finding /\ h.kind = g.kind
  BY DEF CheckerFrames
<1>2. /\ l.plan = k.plan /\ l.level = k.level /\ l.outcome = k.outcome /\ l.document = k.document
      /\ l.module = k.module /\ l.actual = k.actual
      /\ l.returned = k.returned /\ l.own = k.own /\ l.raised = k.raised
      /\ l.facts = k.facts \cup {FactOf(g, k)}
  BY DEF Captured
<1> HIDE DEF h, l
<1>3. FactOf(h, l) = FactOf(g, k)
  BY <1>1, <1>2 DEF FactOf
<1>4. Base(f, l)
  <2>1. \A i \in 1..f.done : f.plan[i][2] \in Pilots => OwnFact(l, f.plan[i])
    BY <1>2 DEF Busy, Base, OwnFact, For
  <2> QED  BY <1>2, <2>1 DEF Busy, Base
<1>5. Quiet(l) => Quiet(k)
  BY <1>2 DEF Quiet
<1>6. ASSUME Quiet(k)
      PROVE  /\ Exact(f.plan, f.done, f.level, l.returned, h.earlier)
             /\ l.facts = h.earlier \cup {FactOf(h, l)}
  BY <1>1, <1>2, <1>3, <1>6 DEF Busy
<1>7. Busy(f, h, l)
  BY <1>1, <1>2, <1>3, <1>4, <1>5, <1>6 DEF Busy
<1> QED  BY <1>7 DEF h, l

(* An exception takes the run out of its checker. *)
LEMMA BusyRaises ==
    ASSUME NEW f, NEW g, NEW k \in Captured, Busy(f, g, k), NEW what, what # "nothing",
           ~Quiet(k)
    PROVE  Idle(f, [k EXCEPT !.module = NoModule], what)
<1> DEFINE l == [k EXCEPT !.module = NoModule]
<1>2. /\ l.plan = k.plan /\ l.level = k.level /\ l.outcome = k.outcome /\ l.document = k.document
      /\ l.module = NoModule /\ l.actual = k.actual /\ l.facts = k.facts
      /\ l.returned = k.returned /\ l.own = k.own /\ l.raised = k.raised
  BY DEF Captured
<1> HIDE DEF l
<1>3. Base(f, l)
  <2>1. \A i \in 1..f.done : f.plan[i][2] \in Pilots => OwnFact(l, f.plan[i])
    BY <1>2 DEF Busy, Base, OwnFact, For
  <2> QED  BY <1>2, <2>1 DEF Busy, Base
<1>4. ~Quiet(l)
  BY <1>2 DEF Quiet
<1>5. Idle(f, l, what)
  BY <1>2, <1>3, <1>4 DEF Idle
<1> QED  BY <1>5 DEF l

LEMMA BusyReturns ==
    ASSUME NEW n, NEW f \in AccountedFrames(n), NEW g \in CheckerFrames(n), NEW k \in Captured,
           Busy(f, g, k), Finished(g)
    PROVE  /\ Quiet(k) => ReturnedAsEarned(k.facts \ g.earlier, g.module, g.finding)
           /\ Idle([f EXCEPT !.done = @ + 1],
                   [k EXCEPT !.module = NoModule,
                             !.returned = [x \in DOMAIN @ \cup {<<k.level, g.module>>} |->
                                             IF x = <<k.level, g.module>> THEN g.finding
                                             ELSE @[x]]],
                   "nothing")
<1> DEFINE p == f.plan
           d == f.done
           level == f.level
           m == g.module
           cell == <<k.level, m>>
           r == [x \in DOMAIN k.returned \cup {cell} |->
                   IF x = cell THEN g.finding ELSE k.returned[x]]
           h == [f EXCEPT !.done = @ + 1]
           l == [k EXCEPT !.module = NoModule,
                          !.returned = [x \in DOMAIN @ \cup {<<k.level, g.module>>} |->
                                          IF x = <<k.level, g.module>> THEN g.finding
                                          ELSE @[x]]]
           own == FactOf(g, k)
<1>1. /\ p \in Plans /\ d \in Nat /\ h.plan = p /\ h.done = d + 1 /\ h.level = level
      /\ h.validated = f.validated /\ level \in Levelled
  BY DEF AccountedFrames
<1>2. /\ l.plan = k.plan /\ l.level = k.level /\ l.outcome = k.outcome /\ l.document = k.document
      /\ l.module = NoModule /\ l.actual = k.actual /\ l.facts = k.facts
      /\ l.returned = r /\ l.own = k.own /\ l.raised = k.raised
  BY DEF Captured
<1>3. /\ k.plan = p /\ k.level = level /\ k.outcome = "running" /\ k.document = {}
      /\ k.module = m /\ level # NoLevel /\ d < Len(p) /\ p[d + 1] = <<level, m>>
      /\ Follows(k.actual, p, d + 1) /\ g.call \in k.own
      /\ g.stage = "observed" => own \in k.facts
      /\ ~f.validated
      /\ \A i \in 1..d : p[i][1] <= level
      /\ \A i \in 1..d : p[i][2] \in Pilots => OwnFact(k, p[i])
  BY DEF Busy, Base
<1>4. /\ own.level = level /\ own.module = m /\ own.finding = g.finding /\ own.by = "checker"
      /\ own.call = g.call
  BY <1>3 DEF FactOf, CheckerFrames
<1>5. /\ g.stage = "observed" <=> m \in Pilots
      /\ m \notin Pilots => g.stage # "observed"
  BY DEF Finished, CheckerFrames, Decided
<1> HIDE DEF p, d, level, h, l, own, r, m
<1>6. /\ Len(p) \in Nat /\ d + 1 \in 1..Len(p) /\ level \in Nat
      /\ \A i, j \in 1..Len(p) : i < j => p[i] # p[j] /\ p[i][1] <= p[j][1]
      /\ \A i \in 1..Len(p) : p[i] = <<p[i][1], p[i][2]>> /\ p[i] \in Elements(p)
      /\ \A i \in 1..d : i \in 1..Len(p) /\ i < d + 1 /\ i \in 1..(d + 1)
      /\ \A i \in 1..(d + 1) : i \in 1..d \/ i = d + 1
      /\ p[d + 1][1] = level /\ p[d + 1][2] = m
  BY <1>1, <1>3, PlanFacts DEF Levelled
<1>7. Base(h, l)
  <2>1. ASSUME NEW i \in 1..(d + 1), p[i][2] \in Pilots PROVE OwnFact(l, p[i])
    <3>1. CASE i \in 1..d
      <4>1. OwnFact(k, p[i])
        BY <1>3, <2>1, <3>1
      <4> QED  BY <1>2, <4>1 DEF OwnFact
    <3>2. CASE i = d + 1
      <4>1. own \in For(l.facts, p[i][1], p[i][2]) /\ own.by = "checker" /\ own.call \in l.own
        BY <1>2, <1>3, <1>4, <1>5, <1>6, <2>1, <3>2 DEF For
      <4> QED  BY <4>1 DEF OwnFact
    <3> QED  BY <1>6, <3>1, <3>2
  <2>2. \A i \in 1..(d + 1) : p[i][1] <= level
    BY <1>3, <1>6
  <2>3. \E i \in 1..Len(p) : i <= (d + 1) + 1 /\ p[i][1] = level
    <3>1. d + 1 <= (d + 1) + 1
      BY <1>1
    <3> QED  BY <1>6, <3>1
  <2>4. d + 1 \in 0..Len(p)
    BY <1>6
  <2> QED  BY <1>1, <1>2, <1>3, <2>1, <2>2, <2>3, <2>4 DEF Base
<1> DEFINE F == k.facts
           E == g.earlier
<1>8. ASSUME Quiet(k)
      PROVE  /\ Exact(p, d, level, k.returned, E)
             /\ m \in Pilots => F = E \cup {own}
             /\ m \notin Pilots => F = E
             /\ For(E, level, m) = {}
  <2>1. /\ Exact(p, d, level, k.returned, E)
        /\ F = E \cup (IF g.stage = "observed" THEN {own} ELSE {})
    BY <1>8 DEF Busy, p, d, level, own
  <2>2. ASSUME NEW x \in E, x.level = level, x.module = m PROVE FALSE
    <3>1. PICK i \in 1..d :
             \/ p[i] = <<x.level, x.module>>
             \/ p[i][1] = x.level /\ x.level # level
      BY <2>1 DEF Exact
    <3>2. p[i] = p[d + 1]
      BY <1>3, <2>2, <3>1
    <3> QED  BY <1>6, <3>2
  <2>3. For(E, level, m) = {}
    BY <2>2 DEF For
  <2> QED  BY <1>5, <2>1, <2>3
<1> HIDE DEF F, E
<1>9. ASSUME Quiet(k) PROVE ReturnedAsEarned(F \ E, m, g.finding)
  <2>1. CASE m \in Pilots
    <3>1. own \notin E
      BY <1>4, <1>8, <1>9 DEF For
    <3>2. F \ E = {own}
      BY <1>8, <1>9, <2>1, <3>1
    <3>3. {y \in {own} : y.module = m} = {own}
      BY <1>4
    <3>4. UNION {y.finding : y \in {own}} = own.finding
      OBVIOUS
    <3> QED  BY <1>4, <3>2, <3>3, <3>4 DEF ReturnedAsEarned
  <2>2. CASE m \notin Pilots
    BY <1>8, <1>9, <2>2 DEF ReturnedAsEarned
  <2> QED  BY <2>1, <2>2
<1>10. ASSUME Quiet(k) PROVE Exact(p, d + 1, level, r, F)
  <2>1. Exact(p, d, level, k.returned, E) /\ E \subseteq F /\ For(E, level, m) = {}
        /\ \A x \in F : x \in E \/ (x = own /\ m \in Pilots)
    BY <1>8, <1>10
  <2>2. /\ DOMAIN k.returned = {p[i] : i \in 1..d}
        /\ DOMAIN r = DOMAIN k.returned \cup {p[d + 1]}
        /\ r[p[d + 1]] = g.finding
        /\ \A i \in 1..d : r[p[i]] = k.returned[p[i]]
    <3>1. DOMAIN k.returned = {p[i] : i \in 1..d}
      BY <2>1 DEF Exact
    <3>2. cell = p[d + 1]
      BY <1>3
    <3>3. \A i \in 1..d : p[i] # p[d + 1] /\ p[i] \in DOMAIN k.returned
      BY <1>6, <3>1
    <3> HIDE DEF cell
    <3> QED  BY <3>1, <3>2, <3>3 DEF r
  <2>3. DOMAIN r = {p[i] : i \in 1..(d + 1)}
    BY <1>6, <2>2
  <2>4. \A i \in 1..d : For(F, p[i][1], p[i][2]) = For(E, p[i][1], p[i][2])
    <3> SUFFICES ASSUME NEW i \in 1..d, NEW x \in F, x \notin E,
                        x.level = p[i][1], x.module = p[i][2]
                 PROVE  FALSE
      BY <2>1 DEF For
    <3>1. x = own
      BY <2>1
    <3>2. p[i] = p[d + 1]
      BY <1>3, <1>4, <1>6, <3>1
    <3> QED  BY <1>6, <3>2
  <2>5. ASSUME NEW i \in 1..(d + 1), p[i][2] \in Pilots
        PROVE  \E x \in F : /\ For(F, p[i][1], p[i][2]) = {x}
                            /\ x.by = "checker" /\ x.finding = r[p[i]]
    <3>1. CASE i \in 1..d
      <4>1. PICK x \in E : /\ For(E, p[i][1], p[i][2]) = {x}
                           /\ x.by = "checker" /\ x.finding = k.returned[p[i]]
        BY <2>1, <2>5, <3>1 DEF Exact
      <4> QED  BY <2>1, <2>2, <2>4, <3>1, <4>1
    <3>2. CASE i = d + 1
      <4>1. m \in Pilots /\ own \in F
        BY <1>6, <1>8, <1>10, <2>5, <3>2
      <4>2. For(F, level, m) = {own}
        BY <1>4, <2>1, <4>1 DEF For
      <4> QED  BY <1>4, <1>6, <2>2, <3>2, <4>1, <4>2
    <3> QED  BY <1>6, <3>1, <3>2
  <2>6. ASSUME NEW i \in 1..(d + 1), NEW o \in Pilots, p[i][1] # level,
               <<p[i][1], o>> \notin Elements(p)
        PROVE  \E x \in F : For(F, p[i][1], o) = {x} /\ x.by = "scheduler"
    <3>1. i \in 1..d
      BY <1>6, <2>6
    <3>2. PICK x \in E : For(E, p[i][1], o) = {x} /\ x.by = "scheduler"
      BY <2>1, <2>6, <3>1 DEF Exact
    <3>3. For(F, p[i][1], o) = For(E, p[i][1], o)
      BY <1>4, <2>1, <2>6 DEF For
    <3> QED  BY <2>1, <3>2, <3>3
  <2>7. ASSUME NEW x \in F
        PROVE  \E i \in 1..(d + 1) :
                 \/ p[i] = <<x.level, x.module>>
                 \/ /\ p[i][1] = x.level /\ x.level # level
                    /\ <<x.level, x.module>> \notin Elements(p) /\ x.by = "scheduler"
    <3>1. CASE x \in E
      <4>1. PICK i \in 1..d :
                 \/ p[i] = <<x.level, x.module>>
                 \/ /\ p[i][1] = x.level /\ x.level # level
                    /\ <<x.level, x.module>> \notin Elements(p) /\ x.by = "scheduler"
        BY <2>1, <3>1 DEF Exact
      <4> QED  BY <1>6, <4>1
    <3>2. CASE x = own
      <4>1. p[d + 1] = <<x.level, x.module>> /\ d + 1 \in 1..(d + 1)
        BY <1>1, <1>3, <1>4, <3>2
      <4> QED  BY <4>1
    <3> QED  BY <2>1, <3>1, <3>2
  <2> QED  BY <2>3, <2>5, <2>6, <2>7 DEF Exact
<1>11. Quiet(l) <=> Quiet(k)
  BY <1>2 DEF Quiet
<1>12. Idle(h, l, "nothing")
  BY <1>1, <1>2, <1>3, <1>7, <1>10, <1>11 DEF Idle, F
<1> QED  BY <1>9, <1>12 DEF h, l, m, F, E

(***************************************************************************)
(* A stack with its captures: each accounted run in it is idle if it is on *)
(* top and else in the checker above it, and no two have the same capture. *)
(***************************************************************************)
Accounted(s) == {i \in 1..Len(s) : s[i].kind = "accounted"}

HeldBy(s) == {s[i].capture : i \in Accounted(s)}

Apart(s) == \A i, j \in Accounted(s) : s[i].capture = s[j].capture => i = j

Deep(s, cap) == \A i \in Accounted(s) : i # 1 => Busy(s[i], s[i - 1], cap[s[i].capture])

Upper(s, cap, what) ==
    /\ 1 \in Accounted(s) => Idle(s[1], cap[s[1].capture], what)
    /\ 2 \in Accounted(s) /\ Quiet(cap[s[2].capture]) => what = "nothing"

Fine(s, cap, what) == Apart(s) /\ Deep(s, cap) /\ Upper(s, cap, what)

LEMMA AccountedOver ==
    ASSUME NEW f, NEW s, NEW n, Over(f, s, n)
    PROVE  /\ \A i \in Accounted(s) : i \in Nat /\ i >= 1 /\ i + 1 \in Accounted(n)
                                      /\ n[i + 1] = s[i] /\ (i # 1 => n[i] = s[i - 1])
           /\ \A i \in Accounted(n) : i \in Nat /\ i >= 1
           /\ \A i \in Accounted(n) : i # 1 =>
                /\ i - 1 \in Accounted(s) /\ n[i] = s[i - 1]
                /\ i # 2 => n[i - 1] = s[(i - 1) - 1]
           /\ 1 \in Accounted(n) <=> f.kind = "accounted"
           /\ 2 \in Accounted(n) <=> 1 \in Accounted(s)
           /\ 1 \in Accounted(s) <=> Len(s) >= 1 /\ s[1].kind = "accounted"
           /\ n[1] = f /\ (1 \in Accounted(s) => n[2] = s[1])
<1>1. Len(s) \in Nat /\ Len(n) = Len(s) + 1 /\ n[1] = f /\ \A i \in 1..Len(s) : n[i + 1] = s[i]
  BY DEF Over
<1>2. ASSUME NEW i \in 1..Len(s)
      PROVE  /\ i \in Nat /\ i >= 1 /\ i + 1 \in 1..Len(n) /\ n[i + 1] = s[i]
             /\ i # 1 => n[i] = s[i - 1]
  <2>1. i \in Nat /\ i >= 1 /\ i + 1 \in 1..Len(n) /\ n[i + 1] = s[i]
    BY <1>1
  <2>2. ASSUME i # 1 PROVE n[i] = s[i - 1]
    <3>1. i - 1 \in 1..Len(s) /\ (i - 1) + 1 = i
      BY <1>1, <2>2
    <3>2. n[(i - 1) + 1] = s[i - 1]
      BY <1>1, <3>1
    <3> QED  BY <3>1, <3>2
  <2> QED  BY <2>1, <2>2
<1>3. ASSUME NEW i \in 1..Len(n), i # 1
      PROVE  /\ i - 1 \in 1..Len(s) /\ n[i] = s[i - 1]
             /\ i # 2 => n[i - 1] = s[(i - 1) - 1]
  <2>1. i - 1 \in 1..Len(s) /\ (i - 1) + 1 = i
    BY <1>1, <1>3
  <2>2. n[(i - 1) + 1] = s[i - 1]
    BY <1>1, <2>1
  <2>3. i # 2 => i - 1 # 1
    BY <2>1
  <2> QED  BY <1>2, <2>1, <2>2, <2>3
<1>4. 1 \in 1..Len(n) /\ \A i \in 1..Len(n) : i \in Nat /\ i >= 1
  BY <1>1
<1>5. /\ 2 \in 1..Len(n) <=> 1 \in 1..Len(s)
      /\ 1 \in 1..Len(s) => n[2] = s[1]
      /\ 1 \in 1..Len(s) <=> Len(s) >= 1
  <2>1. 2 \in 1..Len(n) <=> 1 \in 1..Len(s)
    BY <1>1
  <2>2. 1 \in 1..Len(s) => n[1 + 1] = s[1]
    BY <1>1
  <2>3. 1 \in 1..Len(s) <=> Len(s) >= 1
    BY <1>1
  <2> QED  BY <2>1, <2>2, <2>3
<1>6. \A i \in Accounted(s) : i \in Nat /\ i >= 1 /\ i + 1 \in Accounted(n)
                                      /\ n[i + 1] = s[i] /\ (i # 1 => n[i] = s[i - 1])
  BY <1>2 DEF Accounted
<1>7. \A i \in Accounted(n) : i # 1 =>
                /\ i - 1 \in Accounted(s) /\ n[i] = s[i - 1]
                /\ i # 2 => n[i - 1] = s[(i - 1) - 1]
  BY <1>3 DEF Accounted
<1>8. /\ 1 \in Accounted(n) <=> f.kind = "accounted"
      /\ 2 \in Accounted(n) <=> 1 \in Accounted(s)
      /\ 1 \in Accounted(s) <=> Len(s) >= 1 /\ s[1].kind = "accounted"
      /\ n[1] = f /\ (1 \in Accounted(s) => n[2] = s[1])
  BY <1>1, <1>4, <1>5 DEF Accounted
<1>9. \A i \in Accounted(n) : i \in Nat /\ i >= 1
  BY <1>4 DEF Accounted
<1> QED  BY <1>6, <1>7, <1>8, <1>9

LEMMA HeldOver ==
    ASSUME NEW f, NEW s, NEW n, Over(f, s, n)
    PROVE  /\ f.kind = "accounted" => HeldBy(n) = HeldBy(s) \cup {f.capture}
           /\ f.kind # "accounted" => HeldBy(n) = HeldBy(s)
           /\ Apart(n) <=> /\ Apart(s)
                           /\ f.kind = "accounted" => f.capture \notin HeldBy(s)
<1>1. /\ \A i \in Accounted(s) : i \in Nat /\ i >= 1 /\ i + 1 \in Accounted(n)
                                      /\ n[i + 1] = s[i]
      /\ \A i \in Accounted(n) : i \in Nat /\ i >= 1
      /\ \A i \in Accounted(n) : i # 1 => i - 1 \in Accounted(s) /\ n[i] = s[i - 1]
      /\ 1 \in Accounted(n) <=> f.kind = "accounted"
      /\ n[1] = f
  BY AccountedOver
<1>2. ASSUME NEW c \in HeldBy(n)
      PROVE  c \in HeldBy(s) \/ (f.kind = "accounted" /\ c = f.capture)
  BY <1>1 DEF HeldBy
<1>3. ASSUME NEW c \in HeldBy(s) PROVE c \in HeldBy(n)
  BY <1>1 DEF HeldBy
<1>4. f.kind = "accounted" => f.capture \in HeldBy(n)
  BY <1>1 DEF HeldBy
<1>5. ASSUME Apart(n) PROVE /\ Apart(s)
                            /\ f.kind = "accounted" => f.capture \notin HeldBy(s)
  <2>1. ASSUME NEW i \in Accounted(s), NEW j \in Accounted(s), s[i].capture = s[j].capture
        PROVE  i = j
    <3>1. i + 1 = j + 1
      BY <1>1, <1>5, <2>1 DEF Apart
    <3>2. i \in Nat /\ j \in Nat
      BY <1>1
    <3> QED  BY <3>1, <3>2
  <2>2. ASSUME f.kind = "accounted", NEW i \in Accounted(s), s[i].capture = f.capture
        PROVE  FALSE
    <3>1. i + 1 = 1
      BY <1>1, <1>5, <2>2 DEF Apart
    <3>2. i \in Nat /\ i >= 1
      BY <1>1
    <3> QED  BY <3>1, <3>2
  <2> QED  BY <2>1, <2>2 DEF Apart, HeldBy
<1>6. ASSUME Apart(s), f.kind = "accounted" => f.capture \notin HeldBy(s)
      PROVE  Apart(n)
  <2>1. ASSUME NEW i \in Accounted(n), NEW j \in Accounted(n), n[i].capture = n[j].capture
        PROVE  i = j
    <3>1. CASE i # 1 /\ j # 1
      <4>1. i - 1 = j - 1
        BY <1>1, <1>6, <2>1, <3>1 DEF Apart
      <4>2. i \in Nat /\ j \in Nat
        BY <1>1
      <4> QED  BY <4>1, <4>2
    <3>2. CASE i = 1 /\ j # 1
      BY <1>1, <1>6, <2>1, <3>2 DEF HeldBy
    <3>3. CASE i # 1 /\ j = 1
      BY <1>1, <1>6, <2>1, <3>3 DEF HeldBy
    <3> QED  BY <3>1, <3>2, <3>3
  <2> QED  BY <2>1 DEF Apart
<1> QED  BY <1>2, <1>3, <1>4, <1>5, <1>6

LEMMA DeepOver ==
    ASSUME NEW f, NEW s, NEW n, NEW cap, Over(f, s, n)
    PROVE  Deep(n, cap) <=> /\ Deep(s, cap)
                            /\ 1 \in Accounted(s) => Busy(s[1], f, cap[s[1].capture])
<1>1. /\ \A i \in Accounted(s) : i \in Nat /\ i >= 1 /\ i + 1 \in Accounted(n)
                                      /\ n[i + 1] = s[i] /\ (i # 1 => n[i] = s[i - 1])
      /\ \A i \in Accounted(n) : i # 1 =>
                /\ i - 1 \in Accounted(s) /\ n[i] = s[i - 1]
                /\ i # 2 => n[i - 1] = s[(i - 1) - 1]
      /\ \A i \in Accounted(n) : i \in Nat /\ i >= 1
      /\ 2 \in Accounted(n) <=> 1 \in Accounted(s)
      /\ n[1] = f /\ (1 \in Accounted(s) => n[2] = s[1])
  BY AccountedOver
<1>2. ASSUME Deep(n, cap)
      PROVE  /\ Deep(s, cap)
             /\ 1 \in Accounted(s) => Busy(s[1], f, cap[s[1].capture])
  <2>1. ASSUME NEW i \in Accounted(s), i # 1 PROVE Busy(s[i], s[i - 1], cap[s[i].capture])
    <3>1. i + 1 \in Accounted(n) /\ n[i + 1] = s[i] /\ n[i] = s[i - 1]
      BY <1>1, <2>1
    <3>2. i \in Nat /\ i >= 1 /\ i + 1 # 1 /\ (i + 1) - 1 = i
      BY <1>1
    <3>3. Busy(n[i + 1], n[(i + 1) - 1], cap[n[i + 1].capture])
      BY <1>2, <3>1, <3>2 DEF Deep
    <3> QED  BY <3>1, <3>2, <3>3
  <2>2. ASSUME 1 \in Accounted(s) PROVE Busy(s[1], f, cap[s[1].capture])
    <3>1. 2 \in Accounted(n) /\ n[2] = s[1] /\ n[1] = f /\ 2 # 1 /\ 2 - 1 = 1
      BY <1>1, <2>2
    <3>2. Busy(n[2], n[2 - 1], cap[n[2].capture])
      BY <1>2, <3>1 DEF Deep
    <3> QED  BY <3>1, <3>2
  <2> QED  BY <2>1, <2>2 DEF Deep
<1>3. ASSUME Deep(s, cap), 1 \in Accounted(s) => Busy(s[1], f, cap[s[1].capture])
      PROVE  Deep(n, cap)
  <2>1. ASSUME NEW i \in Accounted(n), i # 1 PROVE Busy(n[i], n[i - 1], cap[n[i].capture])
    <3>1. i - 1 \in Accounted(s) /\ n[i] = s[i - 1] /\ i \in Nat /\ i >= 1
      BY <1>1, <2>1
    <3>2. CASE i = 2
      <4>1. 2 - 1 = 1
        OBVIOUS
      <4> QED  BY <1>1, <1>3, <3>1, <3>2, <4>1
    <3>3. CASE i # 2
      <4>1. i - 1 # 1
        BY <3>1, <3>3
      <4>2. Busy(s[i - 1], s[(i - 1) - 1], cap[s[i - 1].capture])
        BY <1>3, <3>1, <4>1 DEF Deep
      <4>3. n[i - 1] = s[(i - 1) - 1]
        BY <1>1, <2>1, <3>3
      <4> QED  BY <3>1, <4>2, <4>3
    <3> QED  BY <3>2, <3>3
  <2> QED  BY <2>1 DEF Deep
<1> QED  BY <1>2, <1>3

(* What Fine says of the frame on top and of the rest. *)
LEMMA FineOver ==
    ASSUME NEW f, NEW s, NEW n, NEW cap, NEW what, Over(f, s, n)
    PROVE  Fine(n, cap, what) <=>
             /\ Apart(s) /\ Deep(s, cap)
             /\ f.kind = "accounted" =>
                  f.capture \notin HeldBy(s) /\ Idle(f, cap[f.capture], what)
             /\ Len(s) >= 1 /\ s[1].kind = "accounted" =>
                  /\ Busy(s[1], f, cap[s[1].capture])
                  /\ Quiet(cap[s[1].capture]) => what = "nothing"
<1>1. /\ 1 \in Accounted(n) <=> f.kind = "accounted"
      /\ 2 \in Accounted(n) <=> 1 \in Accounted(s)
      /\ 1 \in Accounted(s) <=> Len(s) >= 1 /\ s[1].kind = "accounted"
      /\ n[1] = f /\ (1 \in Accounted(s) => n[2] = s[1])
  BY AccountedOver
<1>2. Apart(n) <=> Apart(s) /\ (f.kind = "accounted" => f.capture \notin HeldBy(s))
  BY HeldOver
<1>3. Deep(n, cap) <=> /\ Deep(s, cap)
                       /\ 1 \in Accounted(s) => Busy(s[1], f, cap[s[1].capture])
  BY DeepOver
<1>4. Upper(n, cap, what) <=>
        /\ f.kind = "accounted" => Idle(f, cap[f.capture], what)
        /\ 1 \in Accounted(s) /\ Quiet(cap[s[1].capture]) => what = "nothing"
  BY <1>1 DEF Upper
<1> QED  BY <1>1, <1>2, <1>3, <1>4 DEF Fine

(* The captures change below the top at most at what is disturbed. *)
LEMMA DeepLike ==
    ASSUME NEW s, NEW cap, NEW cap2, Apart(s), Deep(s, cap),
           \A e \in HeldBy(s) : \/ Like(cap[e], cap2[e])
                                \/ 1 \in Accounted(s) /\ e = s[1].capture
    PROVE  Deep(s, cap2)
<1> SUFFICES ASSUME NEW i \in Accounted(s), i # 1
             PROVE  Busy(s[i], s[i - 1], cap2[s[i].capture])
  BY DEF Deep
<1>1. Busy(s[i], s[i - 1], cap[s[i].capture])
  BY DEF Deep
<1>2. s[i].capture \in HeldBy(s)
  BY DEF HeldBy
<1>3. Like(cap[s[i].capture], cap2[s[i].capture])
  BY <1>2 DEF Apart
<1> QED  BY <1>1, <1>3, BusyLike

LEMMA FineLike ==
    ASSUME NEW s, NEW cap, NEW cap2, NEW what, Fine(s, cap, what),
           \A e \in HeldBy(s) : Like(cap[e], cap2[e])
    PROVE  Fine(s, cap2, what)
<1>1. Deep(s, cap2)
  BY DeepLike DEF Fine
<1>2. \A i \in Accounted(s) : Like(cap[s[i].capture], cap2[s[i].capture])
  BY DEF HeldBy
<1>3. 1 \in Accounted(s) => Idle(s[1], cap2[s[1].capture], what)
  BY <1>2, IdleLike DEF Fine, Upper
<1>4. 2 \in Accounted(s) /\ Quiet(cap2[s[2].capture]) => what = "nothing"
  BY <1>2 DEF Fine, Upper, Like
<1> QED  BY <1>1, <1>3, <1>4 DEF Fine, Upper

(***************************************************************************)
(* The invariant: what every run and its capture owe each other, and what  *)
(* is left of a capture whose run is over.                                 *)
(***************************************************************************)
Kept(k) ==
    /\ k.level \in Levels(k.plan) \cup {NoLevel}
    /\ k.module # NoModule => k.level # NoLevel /\ k.outcome = "running"
    /\ k.outcome # "published" => k.document = {}
    /\ \A x \in k.document : x.by = "scheduler" \/ (x.by = "checker" /\ x.call \in k.own)
    /\ k.outcome = "rejected" => ~Quiet(k)

Ordered ==
    /\ \A t \in Threads : Fine(stack[t], captures, raising[t]) /\ raising[t] # "schedule"
    /\ \A t, u \in Threads : t # u => HeldBy(stack[t]) \cap HeldBy(stack[u]) = {}
    /\ \A c \in 1..Len(captures) :
         /\ Kept(captures[c])
         /\ captures[c].outcome = "running" => \E t \in Threads : c \in HeldBy(stack[t])

LEMMA KeptLike ==
    ASSUME NEW k, NEW l, Like(k, l), Kept(k)
    PROVE  Kept(l)
  BY DEF Kept, Like

LEMMA HeldExist ==
    ASSUME Sound, NEW t \in Threads
    PROVE  HeldBy(stack[t]) \subseteq 1..Len(captures)
<1> SUFFICES ASSUME NEW i \in Accounted(stack[t])
             PROVE  stack[t][i].capture \in 1..Len(captures)
  BY DEF HeldBy
<1>1. stack[t] \in Seq(Frames(Len(captures))) /\ i \in 1..Len(stack[t])
      /\ stack[t][i].kind = "accounted"
  BY DEF Sound, Accounted
<1>2. stack[t][i] \in Frames(Len(captures))
  BY <1>1
<1> QED  BY <1>1, <1>2, KindOfFrame DEF AccountedFrames

LEMMA OrderedStep ==
    ASSUME Sound, Sound', Ordered, NEW t \in Threads, Alone(t),
           Len(captures) <= Len(captures'),
           \A c \in 1..Len(captures) :
             c \notin HeldBy(stack[t]) => Like(captures[c], captures'[c]),
           \A c \in HeldBy(stack'[t]) : c \in HeldBy(stack[t]) \/ c > Len(captures),
           Fine(stack'[t], captures', raising'[t]), raising'[t] # "schedule",
           \A c \in 1..Len(captures') : c \in HeldBy(stack[t]) \/ c > Len(captures) =>
             /\ Kept(captures'[c])
             /\ captures'[c].outcome = "running" => c \in HeldBy(stack'[t])
    PROVE  Ordered'
<1>1. Len(captures) \in Nat /\ Len(captures') \in Nat
  BY DEF Sound
<1>2. \A u \in Threads : HeldBy(stack[u]) \subseteq 1..Len(captures)
  BY HeldExist
<1>3. \A u \in Threads \ {t} : stack'[u] = stack[u] /\ raising'[u] = raising[u]
  BY DEF Alone
<1>4. ASSUME NEW u \in Threads
      PROVE  Fine(stack'[u], captures', raising'[u]) /\ raising'[u] # "schedule"
  <2>1. CASE u = t
    BY <2>1
  <2>2. CASE u # t
    <3>1. \A e \in HeldBy(stack[u]) : Like(captures[e], captures'[e])
      BY <1>2, <2>2 DEF Ordered
    <3>2. Fine(stack[u], captures', raising[u])
      BY <3>1, FineLike DEF Ordered
    <3> QED  BY <1>3, <2>2, <3>2 DEF Ordered
  <2> QED  BY <2>1, <2>2
<1>5. ASSUME NEW u \in Threads, u # t, NEW c \in HeldBy(stack'[t]), c \in HeldBy(stack'[u])
      PROVE  FALSE
  <2>1. c \in HeldBy(stack[u]) /\ c \in 1..Len(captures)
    BY <1>2, <1>3, <1>5
  <2>2. c \notin HeldBy(stack[t])
    BY <1>5, <2>1 DEF Ordered
  <2> QED  BY <1>1, <1>5, <2>1, <2>2
<1>6. ASSUME NEW u \in Threads, NEW v \in Threads, u # v
      PROVE  HeldBy(stack'[u]) \cap HeldBy(stack'[v]) = {}
  <2>1. CASE u = t \/ v = t
    BY <1>5, <1>6, <2>1
  <2>2. CASE u # t /\ v # t
    BY <1>3, <1>6, <2>2 DEF Ordered
  <2> QED  BY <2>1, <2>2
<1>7. ASSUME NEW c \in 1..Len(captures')
      PROVE  /\ Kept(captures'[c])
             /\ captures'[c].outcome = "running" => \E u \in Threads : c \in HeldBy(stack'[u])
  <2>1. CASE c \in HeldBy(stack[t]) \/ c > Len(captures)
    BY <2>1
  <2>2. CASE c \notin HeldBy(stack[t]) /\ ~(c > Len(captures))
    <3>1. c \in 1..Len(captures)
      BY <1>1, <2>2
    <3>2. Like(captures[c], captures'[c]) /\ Kept(captures[c])
      BY <2>2, <3>1 DEF Ordered
    <3>3. ASSUME captures'[c].outcome = "running" PROVE \E u \in Threads : c \in HeldBy(stack'[u])
      <4>1. captures[c].outcome = "running"
        BY <3>2, <3>3 DEF Like
      <4>2. PICK u \in Threads : c \in HeldBy(stack[u])
        BY <3>1, <4>1 DEF Ordered
      <4> QED  BY <1>3, <2>2, <4>2
    <3> QED  BY <3>2, <3>3, KeptLike
  <2> QED  BY <2>1, <2>2
<1> QED  BY <1>4, <1>6, <1>7 DEF Ordered

LEMMA TopFine ==
    ASSUME Sound, Ordered, NEW t \in Threads, stack[t] # <<>>
    PROVE  /\ Over(Top(t), Tail(stack[t]), stack[t])
           /\ Apart(Tail(stack[t])) /\ Deep(Tail(stack[t]), captures)
           /\ Top(t).kind = "accounted" =>
                /\ Top(t).capture \notin HeldBy(Tail(stack[t]))
                /\ Idle(Top(t), captures[Top(t).capture], raising[t])
           /\ Len(Tail(stack[t])) >= 1 /\ Tail(stack[t])[1].kind = "accounted" =>
                /\ Busy(Tail(stack[t])[1], Top(t), captures[Tail(stack[t])[1].capture])
                /\ Quiet(captures[Tail(stack[t])[1].capture]) => raising[t] = "nothing"
           /\ Top(t).kind = "accounted" =>
                HeldBy(stack[t]) = HeldBy(Tail(stack[t])) \cup {Top(t).capture}
           /\ Top(t).kind # "accounted" => HeldBy(stack[t]) = HeldBy(Tail(stack[t]))
           /\ Top(t).kind # "checker" =>
                ~(Len(Tail(stack[t])) >= 1 /\ IsRunner(Tail(stack[t])[1]))
<1> DEFINE f == Top(t)
           s == Tail(stack[t])
<1>1. /\ Over(f, s, stack[t]) /\ s \in Seq(Frames(Len(captures)))
      /\ f.kind # "checker" => s = <<>> \/ ~IsRunner(s[1])
  BY TopFacts
<1>2. Fine(stack[t], captures, raising[t])
  BY DEF Ordered
<1>3. s = <<>> => ~(Len(s) >= 1)
  BY <1>1, NonEmpty, Zenon
<1> HIDE DEF f, s
<1>4. /\ Apart(s) /\ Deep(s, captures)
      /\ f.kind = "accounted" =>
           f.capture \notin HeldBy(s) /\ Idle(f, captures[f.capture], raising[t])
      /\ Len(s) >= 1 /\ s[1].kind = "accounted" =>
           /\ Busy(s[1], f, captures[s[1].capture])
           /\ Quiet(captures[s[1].capture]) => raising[t] = "nothing"
  BY <1>1, <1>2, FineOver
<1>5. /\ f.kind = "accounted" => HeldBy(stack[t]) = HeldBy(s) \cup {f.capture}
      /\ f.kind # "accounted" => HeldBy(stack[t]) = HeldBy(s)
  BY <1>1, HeldOver
<1> QED  BY <1>1, <1>3, <1>4, <1>5 DEF f, s

(* The thread's runs stay what they are, and one capture changes at most. *)
LEMMA OneChanges ==
    ASSUME Sound, Sound', Ordered, NEW t \in Threads, Alone(t),
           Len(captures') = Len(captures), NEW c,
           \A e \in 1..Len(captures) : e # c => captures'[e] = captures[e],
           c \in 1..Len(captures) => c \in HeldBy(stack[t]) /\ Kept(captures'[c]),
           HeldBy(stack'[t]) = HeldBy(stack[t]),
           Fine(stack'[t], captures', raising'[t]), raising'[t] # "schedule"
    PROVE  Ordered'
<1>1. Len(captures) \in Nat /\ HeldBy(stack[t]) \subseteq 1..Len(captures)
  BY HeldExist DEF Sound
<1>2. ASSUME NEW e \in 1..Len(captures), e \notin HeldBy(stack[t])
      PROVE  Like(captures[e], captures'[e])
  BY <1>2, LikeItself
<1>3. ASSUME NEW e \in 1..Len(captures'), e \in HeldBy(stack[t]) \/ e > Len(captures)
      PROVE  /\ Kept(captures'[e])
             /\ captures'[e].outcome = "running" => e \in HeldBy(stack'[t])
  <2>1. e \in 1..Len(captures) /\ e \in HeldBy(stack[t])
    BY <1>1, <1>3
  <2>2. Kept(captures'[e])
    BY <2>1 DEF Ordered
  <2> QED  BY <2>1, <2>2
<1>4. Len(captures) <= Len(captures')
  BY <1>1
<1> QED  BY <1>2, <1>3, <1>4, OrderedStep

(* A call that no accounted run is in, or waits for, is entered or goes on. *)
LEMMA LooseMoves ==
    ASSUME Sound, Sound', Ordered, NEW t \in Threads, Alone(t),
           Len(captures') = Len(captures), NEW s, NEW g, Over(g, s, stack'[t]),
           Apart(s), Deep(s, captures), ~(Len(s) >= 1 /\ s[1].kind = "accounted"),
           g.kind # "accounted", HeldBy(s) = HeldBy(stack[t]),
           \A e \in 1..Len(captures) : Like(captures[e], captures'[e]),
           raising'[t] # "schedule"
    PROVE  Ordered'
<1>1. Len(captures) \in Nat /\ HeldBy(stack[t]) \subseteq 1..Len(captures)
  BY HeldExist DEF Sound
<1>2. HeldBy(stack'[t]) = HeldBy(stack[t])
  BY HeldOver
<1>3. Deep(s, captures')
  BY <1>1, DeepLike
<1>4. Fine(stack'[t], captures', raising'[t])
  BY <1>3, FineOver
<1>5. ASSUME NEW e \in 1..Len(captures'), e \in HeldBy(stack[t]) \/ e > Len(captures)
      PROVE  /\ Kept(captures'[e])
             /\ captures'[e].outcome = "running" => e \in HeldBy(stack'[t])
  <2>1. e \in 1..Len(captures) /\ e \in HeldBy(stack[t])
    BY <1>1, <1>5
  <2>2. Kept(captures'[e])
    BY <2>1, KeptLike DEF Ordered
  <2> QED  BY <1>2, <2>1, <2>2
<1>6. Len(captures) <= Len(captures')
  BY <1>1
<1> QED  BY <1>2, <1>4, <1>5, <1>6, OrderedStep

(* The accounted runner on top goes on. *)
LEMMA RunnerMoves ==
    ASSUME Sound, Sound', Ordered, NEW t \in Threads, Alone(t), stack[t] # <<>>,
           Top(t).kind = "accounted", Len(captures') = Len(captures), NEW c,
           c = Top(t).capture,
           \A e \in 1..Len(captures) : e # c => captures'[e] = captures[e],
           NEW g, g.kind = "accounted", g.capture = c, Over(g, Tail(stack[t]), stack'[t]),
           Idle(g, captures'[c], raising'[t]), Kept(captures'[c]), raising'[t] # "schedule"
    PROVE  Ordered'
<1> DEFINE s == Tail(stack[t])
<1>1. /\ Over(g, s, stack'[t]) /\ Apart(s) /\ Deep(s, captures) /\ c \notin HeldBy(s)
      /\ ~(Len(s) >= 1 /\ IsRunner(s[1]))
      /\ HeldBy(stack[t]) = HeldBy(s) \cup {c}
  BY TopFine
<1>2. HeldBy(stack[t]) \subseteq 1..Len(captures)
  BY HeldExist
<1> HIDE DEF s
<1>3. HeldBy(stack'[t]) = HeldBy(stack[t])
  BY <1>1, HeldOver
<1>4. \A e \in HeldBy(s) : Like(captures[e], captures'[e])
  BY <1>1, <1>2, LikeItself
<1>5. Deep(s, captures')
  BY <1>1, <1>4, DeepLike
<1>6. ~(Len(s) >= 1 /\ s[1].kind = "accounted")
  BY <1>1 DEF IsRunner
<1>7. Fine(stack'[t], captures', raising'[t])
  BY <1>1, <1>5, <1>6, FineOver
<1> QED  BY <1>1, <1>2, <1>3, <1>7, OneChanges

(* The checker on top, invoked by an accounted run, goes on. *)
LEMMA CheckerMoves ==
    ASSUME Sound, Sound', Ordered, NEW t \in Threads, Alone(t), stack[t] # <<>>,
           Top(t).kind = "checker", Len(captures') = Len(captures), NEW c,
           c = Top(t).capture, c # NoCapture,
           \A e \in 1..Len(captures) : e # c => captures'[e] = captures[e],
           NEW g, g.kind = "checker", Over(g, Tail(stack[t]), stack'[t]),
           Busy(Tail(stack[t])[1], g, captures'[c]), Kept(captures'[c]),
           Quiet(captures'[c]) => raising'[t] = "nothing", raising'[t] # "schedule"
    PROVE  Ordered'
<1> DEFINE s == Tail(stack[t])
<1>1. /\ Over(g, s, stack'[t]) /\ Apart(s) /\ Deep(s, captures)
      /\ HeldBy(stack[t]) = HeldBy(s)
  BY TopFine
<1>2. HeldBy(stack[t]) \subseteq 1..Len(captures)
  BY HeldExist
<1>3. s # <<>> /\ IsRunner(s[1]) /\ c = Holds(s[1]) /\ s \in Seq(Frames(Len(captures)))
  BY TopFacts
<1>4. Len(s) >= 1 /\ s[1].kind = "accounted" /\ s[1].capture = c
  BY <1>3, NonEmpty DEF Holds, IsRunner
<1> HIDE DEF s
<1>5. HeldBy(stack'[t]) = HeldBy(stack[t])
  BY <1>1, HeldOver
<1>6. 1 \in Accounted(s)
  BY <1>1, <1>4, AccountedOver
<1>7. c \in HeldBy(s)
  BY <1>4, <1>6 DEF HeldBy
<1>8. \A e \in HeldBy(s) : Like(captures[e], captures'[e]) \/ e = s[1].capture
  BY <1>1, <1>2, <1>4, LikeItself
<1>9. Deep(s, captures')
  BY <1>1, <1>6, <1>8, DeepLike
<1>10. Busy(s[1], g, captures'[s[1].capture])
  BY <1>4 DEF s
<1>11. Fine(stack'[t], captures', raising'[t])
  BY <1>1, <1>4, <1>9, <1>10, FineOver
<1> QED  BY <1>1, <1>5, <1>7, <1>11, OneChanges

(* The accounted runner on top invokes a checker. *)
LEMMA RunnerEnters ==
    ASSUME Sound, Sound', Ordered, NEW t \in Threads, Alone(t), stack[t] # <<>>,
           Top(t).kind = "accounted", Len(captures') = Len(captures), NEW c,
           c = Top(t).capture,
           \A e \in 1..Len(captures) : e # c => captures'[e] = captures[e],
           NEW g, g.kind = "checker", Over(g, stack[t], stack'[t]),
           Busy(Top(t), g, captures'[c]), Kept(captures'[c]), raising'[t] = "nothing"
    PROVE  Ordered'
<1> DEFINE s == stack[t]
<1>1. Fine(s, captures, raising[t]) /\ HeldBy(s) \subseteq 1..Len(captures)
  BY HeldExist DEF Ordered
<1>2. s \in Seq(Frames(Len(captures))) /\ s[1] = Top(t)
  BY TopFacts DEF Sound
<1>3. Len(s) >= 1 /\ s[1].kind = "accounted" /\ s[1].capture = c
  BY <1>2, NonEmpty
<1>4. Over(g, s, stack'[t]) /\ Busy(s[1], g, captures'[c])
  BY <1>2
<1> HIDE DEF s
<1>5. HeldBy(stack'[t]) = HeldBy(s)
  BY <1>4, HeldOver
<1>6. 1 \in Accounted(s)
  BY <1>3, <1>4, AccountedOver
<1>7. c \in HeldBy(s)
  BY <1>3, <1>6 DEF HeldBy
<1>8. \A e \in HeldBy(s) : Like(captures[e], captures'[e]) \/ e = s[1].capture
  BY <1>1, <1>3, LikeItself
<1>9. Deep(s, captures')
  BY <1>1, <1>6, <1>8, DeepLike DEF Fine
<1>10. Fine(stack'[t], captures', raising'[t])
  BY <1>1, <1>3, <1>4, <1>9, FineOver DEF Fine
<1>11. raising'[t] # "schedule"
  OBVIOUS
<1> QED  BY <1>5, <1>7, <1>10, <1>11, OneChanges DEF s

(* A runner f on top of n is replaced by g, and only its capture changes. *)
LEMMA RunnerReplaced ==
    ASSUME NEW f, NEW g, NEW s, NEW n, NEW m, NEW cap, NEW cap2, NEW what,
           Over(f, s, n), Over(g, s, m), Apart(n), Deep(n, cap), Nested(n), IsRunner(f),
           g.kind = f.kind, f.kind = "accounted" => g.capture = f.capture,
           \A e \in HeldBy(s) : cap2[e] = cap[e],
           f.kind = "accounted" => Idle(g, cap2[f.capture], what)
    PROVE  HeldBy(m) = HeldBy(n) /\ Fine(m, cap2, what)
<1>1. /\ f.kind = "accounted" => HeldBy(n) = HeldBy(s) \cup {f.capture}
      /\ f.kind # "accounted" => HeldBy(n) = HeldBy(s)
      /\ Apart(s) /\ (f.kind = "accounted" => f.capture \notin HeldBy(s))
  BY HeldOver, Zenon
<1>2. /\ g.kind = "accounted" => HeldBy(m) = HeldBy(s) \cup {g.capture}
      /\ g.kind # "accounted" => HeldBy(m) = HeldBy(s)
  BY HeldOver, Zenon
<1>3. Len(s) >= 1 => ~IsRunner(s[1])
  BY NestedPop DEF IsRunner
<1>4. Deep(s, cap)
  BY DeepOver, Zenon
<1>5. Deep(s, cap2)
  BY <1>1, <1>4, LikeItself, DeepLike
<1>6. ~(Len(s) >= 1 /\ s[1].kind = "accounted")
  BY <1>3 DEF IsRunner
<1>7. g.kind = "accounted" => g.capture \notin HeldBy(s) /\ Idle(g, cap2[g.capture], what)
  BY <1>1
<1>8. Fine(m, cap2, what)
  BY <1>1, <1>5, <1>6, <1>7, FineOver, Zenon
<1> QED  BY <1>1, <1>2, <1>8

(* The checker on top ends, and its runner goes on. *)
LEMMA CheckerLeaves ==
    ASSUME Sound, Sound', Ordered, NEW t \in Threads, Alone(t), stack[t] # <<>>,
           Top(t).kind = "checker", Len(captures') = Len(captures), NEW c,
           c = Top(t).capture,
           \A e \in 1..Len(captures) : e # c => captures'[e] = captures[e],
           NEW f, NEW g, NEW s, Over(f, s, Tail(stack[t])),
           g.kind = f.kind, g.kind = "accounted" => g.capture = f.capture,
           Over(g, s, stack'[t]),
           c # NoCapture => Idle(g, captures'[c], raising'[t]) /\ Kept(captures'[c]),
           raising'[t] # "schedule"
    PROVE  Ordered'
<1> DEFINE n == Tail(stack[t])
<1>1. /\ Apart(n) /\ Deep(n, captures) /\ HeldBy(stack[t]) = HeldBy(n)
      /\ Over(Top(t), n, stack[t])
  BY TopFine
<1>2. HeldBy(stack[t]) \subseteq 1..Len(captures) /\ Len(captures) \in Nat
  BY HeldExist DEF Sound
<1>3. /\ IsRunner(f) /\ c = Holds(f) /\ f \in Frames(Len(captures))
  <2>1. /\ n # <<>> /\ IsRunner(n[1]) /\ c = Holds(n[1])
        /\ n \in Seq(Frames(Len(captures)))
    BY TopFacts
  <2>2. n[1] \in Frames(Len(captures)) /\ n[1] = f
    BY <2>1, Popping DEF Over
  <2> QED  BY <2>1, <2>2
<1>4. Nested(n)
  <2>1. Nested(stack[t])
    BY DEF Sound, ThreadsSound, OneThread
  <2> HIDE DEF n
  <2> QED  BY <1>1, <2>1, NestedPop, Zenon
<1>5. f.kind = "accounted" => c = f.capture /\ c \in 1..Len(captures) /\ c # NoCapture
  <2> SUFFICES ASSUME f.kind = "accounted"
               PROVE  c = f.capture /\ c \in 1..Len(captures) /\ c # NoCapture
    OBVIOUS
  <2>1. f \in AccountedFrames(Len(captures))
    BY <1>3, KindOfFrame, Zenon
  <2>2. f.capture \in 1..Len(captures)
    BY <2>1 DEF AccountedFrames
  <2>3. c = f.capture
    BY <1>3 DEF Holds
  <2> QED  BY <1>2, <2>2, <2>3 DEF NoCapture
<1>6. f.kind # "accounted" => c = NoCapture
  BY <1>3 DEF Holds
<1> HIDE DEF n
<1>7. Over(f, s, n)
  BY DEF n
<1>8. /\ f.kind = "accounted" => HeldBy(n) = HeldBy(s) \cup {c}
      /\ f.kind # "accounted" => HeldBy(n) = HeldBy(s)
      /\ f.kind = "accounted" => c \notin HeldBy(s)
  <2>1. /\ f.kind = "accounted" => HeldBy(n) = HeldBy(s) \cup {f.capture}
        /\ f.kind # "accounted" => HeldBy(n) = HeldBy(s)
        /\ f.kind = "accounted" => f.capture \notin HeldBy(s)
    <3>1. /\ f.kind = "accounted" => HeldBy(n) = HeldBy(s) \cup {f.capture}
          /\ f.kind # "accounted" => HeldBy(n) = HeldBy(s)
          /\ Apart(n) => (f.kind = "accounted" => f.capture \notin HeldBy(s))
      BY <1>7, HeldOver, Zenon
    <3> QED  BY <1>1, <3>1, Zenon
  <2> QED  BY <1>5, <2>1, Zenon
<1>9. ASSUME NEW e \in HeldBy(s) PROVE captures'[e] = captures[e]
  <2>1. e \in 1..Len(captures)
    BY <1>1, <1>2, <1>8
  <2>2. e # c
    BY <1>2, <1>6, <1>8, <2>1 DEF NoCapture
  <2> QED  BY <2>1, <2>2
<1>10. HeldBy(stack'[t]) = HeldBy(n) /\ Fine(stack'[t], captures', raising'[t])
  <2>1. /\ f.kind = "accounted" => g.capture = f.capture
        /\ f.kind = "accounted" => Idle(g, captures'[f.capture], raising'[t])
    BY <1>5
  <2> QED  BY <1>1, <1>3, <1>4, <1>7, <1>9, <2>1, RunnerReplaced
<1>11. c \in 1..Len(captures) => c \in HeldBy(stack[t]) /\ Kept(captures'[c])
  <2> SUFFICES ASSUME c \in 1..Len(captures) PROVE c \in HeldBy(stack[t]) /\ Kept(captures'[c])
    OBVIOUS
  <2>1. c # NoCapture
    BY <1>2 DEF NoCapture
  <2> QED  BY <1>1, <1>6, <1>8, <2>1
<1> QED  BY <1>1, <1>10, <1>11, OneChanges

(* A runner, or a checker called directly, ends. *)
LEMMA CallerGoesOn ==
    ASSUME Sound, Sound', Ordered, NEW t \in Threads, Alone(t), stack[t] # <<>>,
           Top(t).kind # "checker", Len(captures') = Len(captures),
           stack'[t] = Tail(stack[t]), raising'[t] = "nothing",
           \A e \in 1..Len(captures) :
             (Top(t).kind = "accounted" /\ e = Top(t).capture) \/ captures'[e] = captures[e],
           Top(t).kind = "accounted" =>
             /\ Kept(captures'[Top(t).capture])
             /\ captures'[Top(t).capture].outcome # "running"
    PROVE  Ordered'
<1> DEFINE s == Tail(stack[t])
           f == Top(t)
<1>1. /\ Over(f, s, stack[t]) /\ Apart(s) /\ Deep(s, captures)
      /\ f.kind = "accounted" => f.capture \notin HeldBy(s)
      /\ ~(Len(s) >= 1 /\ IsRunner(s[1]))
      /\ f.kind = "accounted" => HeldBy(stack[t]) = HeldBy(s) \cup {f.capture}
      /\ f.kind # "accounted" => HeldBy(stack[t]) = HeldBy(s)
      /\ stack'[t] = s
  BY TopFine
<1>2. HeldBy(stack[t]) \subseteq 1..Len(captures) /\ Len(captures) \in Nat
  BY HeldExist DEF Sound
<1>3. /\ \A e \in 1..Len(captures) :
             (f.kind = "accounted" /\ e = f.capture) \/ captures'[e] = captures[e]
      /\ f.kind = "accounted" =>
             Kept(captures'[f.capture]) /\ captures'[f.capture].outcome # "running"
  OBVIOUS
<1> HIDE DEF s, f
<1>4. \A e \in HeldBy(s) : captures'[e] = captures[e] /\ Like(captures[e], captures'[e])
  BY <1>1, <1>2, <1>3, LikeItself
<1>5. Deep(s, captures')
  BY <1>1, <1>4, DeepLike
<1>6. 1 \notin Accounted(s)
  BY <1>1, AccountedOver DEF IsRunner
<1>7. Fine(stack'[t], captures', raising'[t]) /\ raising'[t] # "schedule"
  BY <1>1, <1>5, <1>6 DEF Fine, Upper
<1>8. ASSUME NEW e \in 1..Len(captures'), e \in HeldBy(stack[t]) \/ e > Len(captures)
      PROVE  /\ Kept(captures'[e])
             /\ captures'[e].outcome = "running" => e \in HeldBy(stack'[t])
  <2>1. e \in 1..Len(captures) /\ e \in HeldBy(stack[t])
    BY <1>2, <1>8
  <2>2. CASE f.kind = "accounted" /\ e = f.capture
    BY <1>3, <2>2
  <2>3. CASE e \in HeldBy(s)
    <3>1. Kept(captures[e]) /\ captures'[e] = captures[e]
      BY <1>4, <2>1, <2>3 DEF Ordered
    <3> QED  BY <1>1, <2>3, <3>1
  <2> QED  BY <1>1, <2>1, <2>2, <2>3
<1>9. \A e \in 1..Len(captures) :
             e \notin HeldBy(stack[t]) => Like(captures[e], captures'[e])
  BY <1>1, <1>3, LikeItself
<1>10. \A e \in HeldBy(stack'[t]) : e \in HeldBy(stack[t])
  BY <1>1
<1>11. Len(captures) <= Len(captures')
  BY <1>2
<1> QED  BY <1>7, <1>8, <1>9, <1>10, <1>11, OrderedStep

(***************************************************************************)
(* Every action keeps the invariant.                                       *)
(***************************************************************************)
LEMMA Replaced ==
    ASSUME NEW S, NEW s \in Seq(S), NEW n \in Seq(S), NEW i \in 1..Len(s), NEW x,
           n = [s EXCEPT ![i] = x]
    PROVE  /\ Len(n) = Len(s) /\ n[i] = x
           /\ \A j \in 1..Len(s) : j # i => n[j] = s[j]
  OBVIOUS

LEMMA IdleKept ==
    ASSUME NEW f, f.plan \in Plans, NEW k, NEW what, Idle(f, k, what)
    PROVE  Kept(k)
<1>1. Base(f, k) /\ k.module = NoModule
  BY DEF Idle
<1>2. k.level \in Levels(k.plan) \cup {NoLevel}
  BY <1>1, PlanFacts DEF Base
<1> QED  BY <1>1, <1>2 DEF Base, Kept

LEMMA BusyKept ==
    ASSUME NEW f, f.plan \in Plans, NEW g, NEW k, Busy(f, g, k)
    PROVE  Kept(k)
<1>1. Base(f, k) /\ f.level # NoLevel
  BY DEF Busy
<1>2. k.level \in Levels(k.plan) \cup {NoLevel}
  BY <1>1, PlanFacts DEF Base
<1> QED  BY <1>1, <1>2 DEF Base, Kept

LEMMA AccountedGoesOn ==
    ASSUME NEW n, NEW f \in AccountedFrames(n)
    PROVE  /\ f.plan \in Plans /\ f.kind = "accounted" /\ f.done \in Nat /\ f.capture \in 1..n
           /\ \A l : LET g == [f EXCEPT !.level = l] IN
                g.kind = "accounted" /\ g.capture = f.capture /\ g.plan = f.plan
           /\ LET g == [f EXCEPT !.validated = TRUE] IN
                g.kind = "accounted" /\ g.capture = f.capture /\ g.plan = f.plan
           /\ LET g == [f EXCEPT !.done = @ + 1] IN
                g.kind = "accounted" /\ g.capture = f.capture /\ g.plan = f.plan
  BY DEF AccountedFrames

LEMMA RunnerOnTop ==
    ASSUME Sound, Ordered, NEW t \in Threads, In(t, {"accounted"})
    PROVE  /\ stack[t] # <<>> /\ Top(t) \in AccountedFrames(Len(captures))
           /\ Top(t).kind = "accounted" /\ context[t] = Top(t).capture
           /\ Top(t).capture \in 1..Len(captures) /\ Top(t).capture # NoCapture
           /\ captures[Top(t).capture] \in Captured /\ captures \in Seq(Captured)
           /\ Over(Top(t), Tail(stack[t]), stack[t])
           /\ Idle(Top(t), captures[Top(t).capture], raising[t])
<1>1. /\ stack[t] # <<>> /\ Top(t) \in AccountedFrames(Len(captures))
      /\ Top(t).kind = "accounted" /\ context[t] = Top(t).capture
      /\ Top(t).capture \in 1..Len(captures) /\ Top(t).capture # NoCapture
      /\ captures[Top(t).capture] \in Captured
  BY AccountedOnTop, Zenon
<1>2. captures \in Seq(Captured)
  BY DEF Sound
<1> QED  BY <1>1, <1>2, TopFine

LEMMA BeginLevelOrdered ==
    ASSUME Sound, Ordered, NEW t \in Threads, BeginLevel(t)
    PROVE  Ordered'
<1> DEFINE f == Top(t)
           c == f.capture
           k == captures[c]
           level == f.plan[f.done + 1][1]
           g == [f EXCEPT !.level = level]
           l == [k EXCEPT !.level = level]
<1>1. /\ In(t, {"accounted"}) /\ raising[t] = "nothing"
      /\ f.level = NoLevel /\ f.done < Len(f.plan)
  BY DEF BeginLevel, Runs, In
<1>2. /\ stack[t] # <<>> /\ f \in AccountedFrames(Len(captures))
      /\ f.kind = "accounted" /\ context[t] = c /\ c \in 1..Len(captures) /\ c # NoCapture
      /\ k \in Captured /\ captures \in Seq(Captured)
      /\ Idle(f, k, raising[t])
  BY <1>1, RunnerOnTop
<1>3. k.level = NoLevel /\ level \in Levels(k.plan) /\ Idle(g, l, "nothing")
  BY <1>1, <1>2, BeginsLevel
<1>4. captures' = [captures EXCEPT ![c] = l] /\ raising' = raising
  BY <1>2, <1>3 DEF BeginLevel
<1>5. Sound' /\ Over(g, Tail(stack[t]), stack'[t])
  BY <1>1, <1>4, BeginLevelStep
<1>6. Alone(t)
  BY ActsAlone
<1>7. captures' \in Seq(Captured)
  BY <1>5 DEF Sound
<1>8. g.kind = "accounted" /\ g.capture = c /\ g.plan \in Plans
  BY <1>2, AccountedGoesOn
<1> HIDE DEF l, g
<1>9. /\ Len(captures') = Len(captures) /\ captures'[c] = l
      /\ \A e \in 1..Len(captures) : e # c => captures'[e] = captures[e]
  BY <1>2, <1>4, <1>7, Replaced
<1>10. Idle(g, captures'[c], raising'[t]) /\ Kept(captures'[c]) /\ raising'[t] # "schedule"
  BY <1>1, <1>3, <1>4, <1>8, <1>9, IdleKept
<1> QED  BY <1>2, <1>5, <1>6, <1>8, <1>9, <1>10, RunnerMoves

LEMMA EndLevelOrdered ==
    ASSUME Sound, Ordered, NEW t \in Threads, EndLevel(t)
    PROVE  Ordered'
<1> DEFINE f == Top(t)
           c == f.capture
           k == captures[c]
           g == [f EXCEPT !.level = NoLevel]
           l == [k EXCEPT !.level = NoLevel, !.facts = @ \cup IdleFacts(k, f.level)]
<1>1. /\ In(t, {"accounted"}) /\ raising[t] = "nothing"
      /\ f.level # NoLevel /\ ~MoreAtLevel(f)
  BY DEF EndLevel, Runs, In
<1>2. /\ stack[t] # <<>> /\ f \in AccountedFrames(Len(captures))
      /\ f.kind = "accounted" /\ context[t] = c /\ c \in 1..Len(captures) /\ c # NoCapture
      /\ k \in Captured /\ captures \in Seq(Captured)
      /\ Idle(f, k, raising[t])
  BY <1>1, RunnerOnTop
<1>3. /\ k.level = f.level /\ k.module = NoModule /\ RanAsPlanned(k.actual, k.plan, f.level)
      /\ Idle(g, l, "nothing")
  BY <1>1, <1>2, EndsLevel
<1>4. /\ Sound' /\ captures' = [captures EXCEPT ![c] = l] /\ raising' = raising
      /\ Over(g, Tail(stack[t]), stack'[t])
  BY <1>2, <1>3, EndLevelStep
<1>6. Alone(t)
  BY ActsAlone
<1>7. captures' \in Seq(Captured)
  BY <1>4 DEF Sound
<1>8. g.kind = "accounted" /\ g.capture = c /\ g.plan \in Plans
  BY <1>2, AccountedGoesOn
<1> HIDE DEF l, g
<1>9. /\ Len(captures') = Len(captures) /\ captures'[c] = l
      /\ \A e \in 1..Len(captures) : e # c => captures'[e] = captures[e]
  BY <1>2, <1>4, <1>7, Replaced
<1>10. Idle(g, captures'[c], raising'[t]) /\ Kept(captures'[c]) /\ raising'[t] # "schedule"
  BY <1>1, <1>3, <1>4, <1>8, <1>9, IdleKept
<1> QED  BY <1>2, <1>4, <1>6, <1>8, <1>9, <1>10, RunnerMoves

LEMMA ValidateOrdered ==
    ASSUME Sound, Ordered, NEW t \in Threads, Validate(t)
    PROVE  Ordered'
<1> DEFINE f == Top(t)
           c == f.capture
           k == captures[c]
           v == [f EXCEPT !.validated = TRUE]
<1>1. /\ In(t, {"accounted"}) /\ raising[t] = "nothing"
      /\ f.done = Len(f.plan) /\ f.level = NoLevel
  BY DEF Validate, Runs, In
<1>2. /\ stack[t] # <<>> /\ f \in AccountedFrames(Len(captures))
      /\ f.kind = "accounted" /\ c \in 1..Len(captures)
      /\ k \in Captured /\ Idle(f, k, "nothing")
      /\ Over(f, Tail(stack[t]), stack[t])
  BY <1>1, RunnerOnTop
<1>3. Quiet(k) => Validated(k)
  BY <1>1, <1>2, Validates
<1>4. Alone(t)
  BY ActsAlone
<1>5. v.kind = "accounted" /\ v.capture = c /\ v.plan \in Plans /\ f.plan \in Plans
  BY <1>2, AccountedGoesOn
<1>6. Kept(k)
  BY <1>2, <1>5, IdleKept
<1>7. Sound' /\ captures' = captures
  BY ValidateStep
<1>8. CASE raising' = raising /\ Over(v, Tail(stack[t]), stack'[t])
  <2>1. Idle(v, k, "nothing")
    <3>1. /\ v.plan = f.plan /\ v.level = f.level /\ v.done = f.done
      BY <1>2 DEF AccountedFrames
    <3> HIDE DEF v
    <3>2. Base(v, k)
      BY <1>1, <1>2, <3>1 DEF Idle, Base
    <3> QED  BY <1>2, <3>1, <3>2 DEF Idle
  <2> HIDE DEF v
  <2> QED  BY <1>1, <1>2, <1>4, <1>5, <1>6, <1>7, <1>8, <2>1, RunnerMoves
<1>9. CASE ~Validated(k) /\ raising'[t] = "accounting" /\ stack' = stack
  <2>1. Idle(f, k, "accounting")
    BY <1>2, <1>3, <1>9 DEF Idle
  <2> HIDE DEF f
  <2> QED  BY <1>1, <1>2, <1>4, <1>6, <1>7, <1>9, <2>1, RunnerMoves DEF f
<1> QED  BY <1>8, <1>9, ValidateStep

LEMMA PublishOrdered ==
    ASSUME Sound, Ordered, NEW t \in Threads, Publish(t)
    PROVE  Ordered'
<1> DEFINE f == Top(t)
           c == f.capture
           k == captures[c]
           l == [k EXCEPT !.outcome = "published", !.document = k.facts]
<1>1. In(t, {"accounted"}) /\ raising[t] = "nothing" /\ f.validated
  BY DEF Publish, Runs, In
<1>2. /\ stack[t] # <<>> /\ f \in AccountedFrames(Len(captures))
      /\ f.kind = "accounted" /\ c \in 1..Len(captures)
      /\ k \in Captured /\ captures \in Seq(Captured) /\ Idle(f, k, "nothing")
      /\ Over(f, Tail(stack[t]), stack[t])
  BY <1>1, RunnerOnTop
<1>3. f.done = Len(f.plan) /\ f.level = NoLevel
  BY <1>1, <1>2 DEF Idle, Base
<1>4. Alone(t)
  BY ActsAlone
<1>5. Kept(k)
  BY <1>2, AccountedGoesOn, IdleKept
<1>6. CASE /\ Projectable(k.plan, k.facts) /\ raising' = raising
           /\ captures' = [captures EXCEPT ![c] = l]
           /\ stack'[t] = Tail(stack[t])
  <2>1. Sound' /\ captures' \in Seq(Captured)
    BY PublishStep DEF Sound
  <2>2. Kept(l) /\ l.outcome # "running"
    <3>1. /\ l.level = k.level /\ l.plan = k.plan /\ l.module = k.module /\ l.own = k.own
          /\ l.outcome = "published" /\ l.document = k.facts
      BY <1>2 DEF Captured
    <3>2. k.module = NoModule
      BY <1>2 DEF Idle
    <3>3. \A x \in k.facts : x.by = "scheduler" \/ (x.by = "checker" /\ x.call \in k.own)
      BY <1>2, <1>3, <1>6, PublishesOwn
    <3> HIDE DEF l
    <3> QED  BY <1>5, <3>1, <3>2, <3>3 DEF Kept
  <2> HIDE DEF l
  <2>3. /\ Len(captures') = Len(captures) /\ captures'[c] = l
        /\ \A e \in 1..Len(captures) : e # c => captures'[e] = captures[e]
    BY <1>2, <1>6, <2>1, Replaced
  <2> QED  BY <1>1, <1>2, <1>4, <1>6, <2>1, <2>2, <2>3, CallerGoesOn
<1>7. CASE /\ ~Projectable(k.plan, k.facts) /\ raising'[t] = "accounting"
           /\ captures' = captures /\ stack' = stack
  <2>1. ~Quiet(k)
    BY <1>2, <1>3, <1>7, Projects
  <2>2. Idle(f, k, "accounting")
    BY <1>2, <2>1 DEF Idle
  <2>3. Sound'
    BY PublishStep
  <2> HIDE DEF f
  <2> QED  BY <1>1, <1>2, <1>4, <1>5, <1>7, <2>2, <2>3, RunnerMoves DEF f
<1> QED  BY <1>6, <1>7, PublishStep

(* The caller's code is in no run of its own: the call it makes is loose. *)
LEMMA CallerEnters ==
    ASSUME Sound, Sound', Ordered, NEW t \in Threads, Alone(t), CallersCode(t),
           captures' = captures, raising' = raising, NEW g, g.kind # "accounted",
           Over(g, stack[t], stack'[t])
    PROVE  Ordered'
<1>1. raising[t] = "nothing" /\ (Len(stack[t]) >= 1 => ~IsRunner(stack[t][1]))
  BY CallersStack
<1>2. ~(Len(stack[t]) >= 1 /\ stack[t][1].kind = "accounted")
  BY <1>1 DEF IsRunner
<1>3. Apart(stack[t]) /\ Deep(stack[t], captures)
  BY DEF Ordered, Fine
<1>4. \A e \in 1..Len(captures) : Like(captures[e], captures'[e])
  BY LikeItself
<1>5. Len(captures') = Len(captures) /\ raising'[t] # "schedule"
  BY <1>1
<1> QED  BY <1>2, <1>3, <1>4, <1>5, LooseMoves

LEMMA StartPublicOrdered ==
    ASSUME Sound, Ordered, NEW t \in Threads, StartPublic(t)
    PROVE  Ordered'
<1> DEFINE g == [kind |-> "public", saved |-> context[t], done |-> 0]
<1>1. Sound' /\ Over(g, stack[t], stack'[t]) /\ g.kind # "accounted"
  BY StartPublicStep
<1>2. Alone(t)
  BY ActsAlone
<1>3. CallersCode(t) /\ captures' = captures /\ raising' = raising
  BY DEF StartPublic
<1> HIDE DEF g
<1> QED  BY <1>1, <1>2, <1>3, CallerEnters

LEMMA CallDirectlyOrdered ==
    ASSUME Sound, Ordered, NEW t \in Threads, NEW m \in Pilots, CallDirectly(t, m)
    PROVE  Ordered'
<1> DEFINE g == [kind |-> "direct", call |-> calls + 1, module |-> m,
                 stage |-> "working", finding |-> {}]
<1>1. Sound' /\ Over(g, stack[t], stack'[t]) /\ g.kind # "accounted"
  BY CallDirectlyStep
<1>2. Alone(t)
  BY ActsAlone
<1>3. CallersCode(t) /\ captures' = captures /\ raising' = raising
  BY DEF CallDirectly
<1> HIDE DEF g
<1> QED  BY <1>1, <1>2, <1>3, CallerEnters

LEMMA SpawnOrdered ==
    ASSUME Ordered, NEW t \in Threads, NEW u \in Threads, Spawn(t, u)
    PROVE  Ordered'
<1>1. stack' = stack /\ captures' = captures /\ raising' = raising
  BY DEF Spawn
<1> QED  BY <1>1 DEF Ordered

LEMMA FreshIdle ==
    ASSUME NEW plan \in Plans, NEW f, f.plan = plan, f.level = NoLevel, f.done = 0,
           f.validated = FALSE
    PROVE  Idle(f, FreshCapture(plan), "nothing")
<1> DEFINE k == FreshCapture(plan)
<1>1. /\ k.plan = plan /\ k.level = NoLevel /\ k.module = NoModule /\ k.actual = <<>>
      /\ k.facts = {} /\ k.outcome = "running" /\ k.document = {}
      /\ k.returned = [cell \in {} |-> {}]
  BY DEF FreshCapture
<1> HIDE DEF k
<1>2. Len(plan) \in Nat
  BY PlanFacts
<1>3. Base(f, k)
  BY <1>1, <1>2 DEF Base
<1>4. Follows(k.actual, f.plan, f.done)
  BY <1>1 DEF Follows
<1>5. Exact(f.plan, f.done, f.level, k.returned, k.facts)
  <2>1. \A n \in 1..0 : FALSE
    OBVIOUS
  <2>2. DOMAIN k.returned = {} /\ {plan[n] : n \in 1..0} = {}
    BY <1>1, <2>1
  <2> QED  BY <1>1, <2>1, <2>2 DEF Exact
<1>6. Idle(f, k, "nothing")
  BY <1>1, <1>3, <1>4, <1>5 DEF Idle
<1> QED  BY <1>6 DEF k

LEMMA StartAccountedOrdered ==
    ASSUME Sound, Ordered, NEW t \in Threads, NEW plan \in Plans, StartAccounted(t, plan)
    PROVE  Ordered'
<1> DEFINE c == Len(captures) + 1
           f == [kind |-> "accounted", capture |-> Len(captures) + 1,
                 plan |-> plan, saved |-> context[t], level |-> NoLevel, done |-> 0,
                 validated |-> FALSE]
           s == stack[t]
<1>1. /\ Sound' /\ Over(f, s, stack'[t])
      /\ Len(captures') = c /\ captures'[c] = FreshCapture(plan)
      /\ \A e \in 1..Len(captures) : captures'[e] = captures[e]
  BY StartAccountedStep
<1>2. Alone(t)
  BY ActsAlone
<1>3. /\ raising[t] = "nothing" /\ raising' = raising
      /\ Len(s) >= 1 => ~IsRunner(s[1])
  BY CallersStack DEF StartAccounted
<1>4. HeldBy(s) \subseteq 1..Len(captures) /\ Len(captures) \in Nat
  BY HeldExist DEF Sound
<1>5. Apart(s) /\ Deep(s, captures)
  BY DEF Ordered, Fine
<1>6. f.kind = "accounted" /\ f.capture = c /\ f.plan \in Plans
  OBVIOUS
<1>7. Idle(f, captures'[c], "nothing")
  BY <1>1, FreshIdle
<1>8. Kept(captures'[c])
  BY <1>6, <1>7, IdleKept
<1>9. c \notin HeldBy(s) /\ c > Len(captures) /\ Len(captures) <= Len(captures')
  BY <1>1, <1>4
<1> HIDE DEF f, s, c
<1>10. HeldBy(stack'[t]) = HeldBy(s) \cup {c}
  BY <1>1, <1>6, HeldOver
<1>11. \A e \in HeldBy(s) : Like(captures[e], captures'[e])
  BY <1>1, <1>4, LikeItself
<1>12. Deep(s, captures')
  BY <1>5, <1>11, DeepLike
<1>13. ~(Len(s) >= 1 /\ s[1].kind = "accounted")
  BY <1>3 DEF IsRunner
<1>14. f.capture \notin HeldBy(s) /\ Idle(f, captures'[f.capture], raising'[t])
  BY <1>3, <1>6, <1>7, <1>9
<1>15. Fine(stack'[t], captures', raising'[t]) /\ raising'[t] # "schedule"
  BY <1>1, <1>3, <1>5, <1>12, <1>13, <1>14, FineOver
<1>16. ASSUME NEW e \in 1..Len(captures'), e \in HeldBy(stack[t]) \/ e > Len(captures)
       PROVE  /\ Kept(captures'[e])
              /\ captures'[e].outcome = "running" => e \in HeldBy(stack'[t])
  <2>1. CASE e = c
    BY <1>8, <1>10, <2>1
  <2>2. CASE e # c
    <3>1. e \in 1..Len(captures)
      BY <1>1, <1>4, <2>2 DEF c
    <3>2. e \in HeldBy(s) /\ captures'[e] = captures[e] /\ Kept(captures[e])
      BY <1>1, <1>4, <1>16, <3>1 DEF Ordered, s
    <3> QED  BY <1>10, <3>2
  <2> QED  BY <2>1, <2>2
<1>17. \A e \in 1..Len(captures) : e \notin HeldBy(stack[t]) => Like(captures[e], captures'[e])
  BY <1>1, LikeItself
<1>18. \A e \in HeldBy(stack'[t]) : e \in HeldBy(stack[t]) \/ e > Len(captures)
  BY <1>9, <1>10 DEF s
<1> QED  BY <1>1, <1>2, <1>9, <1>15, <1>16, <1>17, <1>18, OrderedStep

(* A public runner, or a checker called directly, ends. *)
LEMMA FinishPublicOrdered ==
    ASSUME Sound, Ordered, NEW t \in Threads, FinishPublic(t)
    PROVE  Ordered'
<1>1. /\ Sound' /\ captures' = captures /\ raising'[t] = "nothing"
      /\ stack[t] # <<>> /\ Top(t).kind = "public" /\ stack'[t] = Tail(stack[t])
  BY FinishPublicStep
<1>2. Alone(t)
  BY ActsAlone
<1> QED  BY <1>1, <1>2, CallerGoesOn

LEMMA ReturnDirectOrdered ==
    ASSUME Sound, Ordered, NEW t \in Threads, ReturnDirect(t)
    PROVE  Ordered'
<1>1. /\ Sound' /\ captures' = captures /\ raising'[t] = "nothing"
      /\ stack[t] # <<>> /\ Top(t).kind = "direct" /\ stack'[t] = Tail(stack[t])
  BY ReturnDirectStep
<1>2. Alone(t)
  BY ActsAlone
<1> QED  BY <1>1, <1>2, CallerGoesOn

LEMMA InvokeOrdered ==
    ASSUME Sound, Ordered, NEW t \in Threads, Invoke(t)
    PROVE  Ordered'
<1> DEFINE f == Top(t)
           c == context[t]
           k == captures[c]
           m == f.plan[f.done + 1][2]
           l == [k EXCEPT !.actual = Append(@, <<k.level, m>>), !.module = m,
                          !.own = @ \cup {calls + 1}]
           g == [kind |-> "checker", call |-> calls + 1, module |-> m,
                 stage |-> "working", finding |-> {}, capture |-> c, earlier |-> k.facts]
<1>1. /\ Sound' /\ stack[t] # <<>> /\ raising[t] = "nothing" /\ f = stack[t][1]
  BY InvokeStep
<1>2. Alone(t) /\ captures \in Seq(Captured) /\ captures' \in Seq(Captured) /\ calls \in Nat
  <2>1. Alone(t)
    BY ActsAlone, Zenon
  <2> QED  BY <1>1, <2>1, CaptureContextAssumption DEF Sound
<1>3. ASSUME c = NoCapture, f.kind = "public", captures' = captures, NEW o \in Modules,
             Over([kind |-> "checker", call |-> calls + 1, module |-> o,
                   stage |-> "working", finding |-> {},
                   capture |-> NoCapture, earlier |-> {}], stack[t], stack'[t])
      PROVE  Ordered'
  <2> DEFINE h == [kind |-> "checker", call |-> calls + 1, module |-> o,
                   stage |-> "working", finding |-> {},
                   capture |-> NoCapture, earlier |-> {}]
  <2>1. h.kind # "accounted" /\ Over(h, stack[t], stack'[t])
    BY <1>3
  <2>2. ~(Len(stack[t]) >= 1 /\ stack[t][1].kind = "accounted")
    BY <1>1, <1>3
  <2>3. Apart(stack[t]) /\ Deep(stack[t], captures)
    BY DEF Ordered, Fine
  <2>4. \A e \in 1..Len(captures) : Like(captures[e], captures'[e])
    BY <1>3, LikeItself
  <2>5. raising' = raising
    BY <1>3 DEF Invoke
  <2> HIDE DEF h
  <2> QED  BY <1>1, <1>2, <1>3, <2>1, <2>2, <2>3, <2>4, <2>5, LooseMoves
<1>4. ASSUME f.kind = "accounted", MoreAtLevel(f)
      PROVE  /\ f \in AccountedFrames(Len(captures)) /\ c = f.capture /\ c # NoCapture
             /\ c \in 1..Len(captures)
             /\ k.level # NoLevel /\ k.module = NoModule
             /\ Len(k.actual) < Len(k.plan)
             /\ k.plan[Len(k.actual) + 1] = <<k.level, m>>
             /\ Busy(f, g, l)
  <2>1. In(t, {"accounted"})
    BY <1>1, <1>4 DEF In
  <2>2. /\ f \in AccountedFrames(Len(captures)) /\ c = f.capture /\ c \in 1..Len(captures)
        /\ c # NoCapture /\ k \in Captured /\ Idle(f, k, "nothing")
    BY <1>1, <2>1, RunnerOnTop
  <2>3. calls + 1 \in Nat
    BY <1>2
  <2>4. /\ k.level # NoLevel /\ k.module = NoModule
        /\ Len(k.actual) < Len(k.plan)
        /\ k.plan[Len(k.actual) + 1] = <<k.level, m>>
        /\ Busy(f, g, l)
    BY <1>4, <2>2, <2>3, Invokes
  <2> QED  BY <2>2, <2>4
<1>5. ASSUME f.kind = "accounted", MoreAtLevel(f), captures' = [captures EXCEPT ![c] = l],
             Over(g, stack[t], stack'[t])
      PROVE  Ordered'
  <2>1. f \in AccountedFrames(Len(captures)) /\ c = f.capture /\ c \in 1..Len(captures)
        /\ c # NoCapture /\ Busy(f, g, l)
    BY <1>4, <1>5
  <2>2. g.kind = "checker" /\ f.plan \in Plans
    BY <2>1, AccountedGoesOn
  <2>3. raising' = raising
    <3>1. \/ raising' = raising
          \/ stack' = stack
      BY DEF Invoke
    <3>2. stack' # stack
      BY <1>5 DEF Over
    <3> QED  BY <3>1, <3>2
  <2> HIDE DEF l, g, f, c
  <2>4. /\ Len(captures') = Len(captures) /\ captures'[c] = l
        /\ \A e \in 1..Len(captures) : e # c => captures'[e] = captures[e]
    BY <1>2, <1>5, <2>1, Replaced
  <2>5. Busy(f, g, captures'[c]) /\ Kept(captures'[c])
    BY <2>1, <2>2, <2>4, BusyKept
  <2>6. Busy(Top(t), g, captures'[c]) /\ Top(t).kind = "accounted" /\ c = Top(t).capture
    BY <1>5, <2>1, <2>5 DEF f
  <2> QED  BY <1>1, <1>2, <1>5, <2>2, <2>3, <2>4, <2>5, <2>6, RunnerEnters
<1>6. \/ /\ c = NoCapture /\ f.kind = "public" /\ captures' = captures
         /\ \E o \in Modules :
               Over([kind |-> "checker", call |-> calls + 1, module |-> o,
                     stage |-> "working", finding |-> {},
                     capture |-> NoCapture, earlier |-> {}], stack[t], stack'[t])
      \/ /\ f.kind = "accounted" /\ MoreAtLevel(f) /\ captures' = [captures EXCEPT ![c] = l]
         /\ Over(g, stack[t], stack'[t])
      \/ /\ f.kind = "accounted" /\ MoreAtLevel(f)
         /\ ~ /\ k.level # NoLevel /\ k.module = NoModule
              /\ Len(k.actual) < Len(k.plan)
              /\ k.plan[Len(k.actual) + 1] = <<k.level, m>>
  BY InvokeStep
<1> HIDE DEF f, c, k, m, l, g
<1> QED  BY <1>3, <1>4, <1>5, <1>6

(* A checker on top that an accounted run has invoked. *)
LEMMA OwnCheckerOnTop ==
    ASSUME Sound, Ordered, NEW t \in Threads, stack[t] # <<>>, Top(t).kind = "checker",
           Top(t).capture # NoCapture
    PROVE  /\ Top(t) \in CheckerFrames(Len(captures)) /\ context[t] = Top(t).capture
           /\ Top(t).capture \in 1..Len(captures)
           /\ captures[Top(t).capture] \in Captured /\ captures \in Seq(Captured)
           /\ Tail(stack[t])[1] \in AccountedFrames(Len(captures))
           /\ Tail(stack[t])[1].plan \in Plans
           /\ Over(Top(t), Tail(stack[t]), stack[t])
           /\ Busy(Tail(stack[t])[1], Top(t), captures[Top(t).capture])
           /\ Kept(captures[Top(t).capture])
           /\ Quiet(captures[Top(t).capture]) => raising[t] = "nothing"
<1> DEFINE f == Tail(stack[t])[1]
           c == Top(t).capture
<1>1. /\ Tail(stack[t]) # <<>> /\ IsRunner(f) /\ c = Holds(f) /\ context[t] = c
      /\ Tail(stack[t]) \in Seq(Frames(Len(captures)))
      /\ Top(t) \in Frames(Len(captures))
  BY TopFacts
<1>2. f \in Frames(Len(captures)) /\ Len(Tail(stack[t])) >= 1
  BY <1>1, Popping
<1>3. f.kind = "accounted" /\ f.capture = c
  BY <1>1 DEF Holds
<1>4. f \in AccountedFrames(Len(captures)) /\ Top(t) \in CheckerFrames(Len(captures))
  BY <1>1, <1>2, <1>3, KindOfFrame, Zenon
<1>5. c \in 1..Len(captures) /\ f.plan \in Plans
  BY <1>3, <1>4 DEF AccountedFrames
<1>6. captures[c] \in Captured /\ captures \in Seq(Captured)
  BY <1>5 DEF Sound
<1>7. /\ Busy(f, Top(t), captures[f.capture])
      /\ Quiet(captures[f.capture]) => raising[t] = "nothing"
      /\ Over(Top(t), Tail(stack[t]), stack[t])
  BY <1>2, <1>3, TopFine
<1>8. Kept(captures[c])
  BY <1>5 DEF Ordered
<1> QED  BY <1>1, <1>3, <1>4, <1>5, <1>6, <1>7, <1>8

(* A checker on top that none has. *)
LEMMA LooseOnTop ==
    ASSUME Sound, Ordered, NEW t \in Threads, stack[t] # <<>>,
           \/ Top(t).kind = "direct"
           \/ Top(t).kind = "checker" /\ Top(t).capture = NoCapture
    PROVE  /\ Apart(Tail(stack[t])) /\ Deep(Tail(stack[t]), captures)
           /\ ~(Len(Tail(stack[t])) >= 1 /\ Tail(stack[t])[1].kind = "accounted")
           /\ HeldBy(Tail(stack[t])) = HeldBy(stack[t])
           /\ Over(Top(t), Tail(stack[t]), stack[t])
<1> DEFINE s == Tail(stack[t])
<1>1. /\ Apart(s) /\ Deep(s, captures) /\ HeldBy(s) = HeldBy(stack[t])
      /\ Top(t).kind # "checker" => ~(Len(s) >= 1 /\ IsRunner(s[1]))
      /\ Over(Top(t), s, stack[t])
  BY TopFine
<1>2. ASSUME Len(s) >= 1, s[1].kind = "accounted" PROVE FALSE
  <2>1. Top(t).kind = "checker" /\ Top(t).capture = NoCapture
    BY <1>1, <1>2 DEF IsRunner
  <2>2. s \in Seq(Frames(Len(captures))) /\ s # <<>> /\ Top(t).capture = Holds(s[1])
    BY <2>1, TopFacts
  <2>3. s[1] \in Frames(Len(captures))
    BY <2>2, Popping
  <2>4. s[1] \in AccountedFrames(Len(captures))
    BY <1>2, <2>3, KindOfFrame, Zenon
  <2>5. s[1].capture \in 1..Len(captures)
    BY <2>4 DEF AccountedFrames
  <2>6. s[1].capture = NoCapture
    BY <1>2, <2>1, <2>2 DEF Holds
  <2>7. Len(captures) \in Nat
    BY DEF Sound
  <2>8. \A n \in Nat : \A x \in 1..n : x # NoCapture
    BY DEF NoCapture
  <2> QED  BY <2>5, <2>6, <2>7, <2>8, Zenon
<1> QED  BY <1>1, <1>2

LEMMA CheckerKind ==
    ASSUME NEW n, NEW f \in Frames(n), f.kind \in {"checker", "direct"}, NEW stage, NEW finding
    PROVE  /\ [f EXCEPT !.stage = stage].kind = f.kind
           /\ [f EXCEPT !.stage = stage, !.finding = finding].kind = f.kind
<1>1. CASE f.kind = "checker"
  <2>1. f \in CheckerFrames(n)
    BY <1>1, KindOfFrame, Zenon
  <2> QED  BY <2>1 DEF CheckerFrames
<1>2. CASE f.kind = "direct"
  <2>1. f \in DirectFrames
    BY <1>2, KindOfFrame, Zenon
  <2> QED  BY <2>1 DEF DirectFrames
<1> QED  BY <1>1, <1>2

LEMMA CheckerIs ==
    ASSUME Sound, NEW t \in Threads, In(t, {"checker", "direct"})
    PROVE  /\ stack[t] # <<>> /\ Top(t) \in Frames(Len(captures))
           /\ Top(t).kind \in {"checker", "direct"}
           /\ Top(t).kind = "checker" => Top(t).capture = context[t]
           /\ \/ Top(t).kind = "checker" /\ Top(t).capture # NoCapture
              \/ Top(t).kind = "direct"
              \/ Top(t).kind = "checker" /\ Top(t).capture = NoCapture
<1>1. Top(t).kind \in {"checker", "direct"}
  BY DEF In
<1>2. /\ stack[t] # <<>> /\ Top(t) \in Frames(Len(captures))
      /\ Top(t).kind = "checker" => Top(t).capture = context[t]
  BY CheckerOnTop, Zenon
<1> QED  BY <1>1, <1>2

LEMMA AdmitOrdered ==
    ASSUME Sound, Ordered, NEW t \in Threads, Admit(t)
    PROVE  Ordered'
<1> DEFINE g == Top(t)
           c == context[t]
           k == captures[c]
           s == Tail(stack[t])
<1>1. /\ Sound' /\ captures' = captures /\ In(t, {"checker", "direct"})
      /\ g.stage = "working" /\ raising[t] = "nothing" /\ Alone(t)
  BY AdmitStep, ActsAlone
<1>2. /\ stack[t] # <<>> /\ g \in Frames(Len(captures))
      /\ g.kind \in {"checker", "direct"}
      /\ g.kind = "checker" => g.capture = c
      /\ \/ g.kind = "checker" /\ g.capture # NoCapture
         \/ g.kind = "direct"
         \/ g.kind = "checker" /\ g.capture = NoCapture
  BY <1>1, CheckerIs
<1>3. \/ /\ raising' = raising
         /\ \E stage \in {"observed", "admitted"}, finding \in SUBSET Nat :
              /\ stage = "observed" => c = NoCapture
              /\ stage = "admitted" => c # NoCapture
              /\ Over([g EXCEPT !.stage = stage, !.finding = finding], s, stack'[t])
      \/ /\ c # NoCapture
         /\ ~(k.module = g.module /\ k.level # NoLevel)
         /\ raising'[t] = "accounting" /\ stack' = stack
  BY AdmitStep
<1>4. CASE g.kind = "checker" /\ g.capture # NoCapture
  <2>1. /\ g \in CheckerFrames(Len(captures)) /\ c = g.capture /\ Busy(s[1], g, k) /\ Kept(k)
    BY <1>2, <1>4, OwnCheckerOnTop
  <2>2. k.module = g.module /\ k.level # NoLevel
    BY <2>1 DEF Busy, Base
  <2>3. PICK stage \in {"observed", "admitted"}, finding \in SUBSET Nat :
          /\ raising' = raising /\ stage = "admitted"
          /\ Over([g EXCEPT !.stage = stage, !.finding = finding], s, stack'[t])
    BY <1>3, <1>4, <2>1, <2>2
  <2> DEFINE h == [g EXCEPT !.stage = "admitted", !.finding = finding]
  <2>4. Over(h, s, stack'[t]) /\ Busy(s[1], h, k) /\ h.kind = "checker"
    BY <1>1, <1>4, <2>1, <2>3, BusyGoesOn DEF CheckerFrames
  <2> HIDE DEF h
  <2> QED  BY <1>1, <1>2, <1>4, <2>1, <2>3, <2>4, CheckerMoves
<1>5. CASE g.kind = "direct" \/ (g.kind = "checker" /\ g.capture = NoCapture)
  <2>1. /\ Apart(s) /\ Deep(s, captures)
        /\ ~(Len(s) >= 1 /\ s[1].kind = "accounted")
        /\ HeldBy(s) = HeldBy(stack[t]) /\ Over(g, s, stack[t])
    BY <1>2, <1>5, LooseOnTop
  <2>2. \A e \in 1..Len(captures) : Like(captures[e], captures'[e])
    BY <1>1, LikeItself
  <2>3. PICK h : Over(h, s, stack'[t]) /\ h.kind = g.kind
    <3>1. CASE stack' = stack
      BY <2>1, <3>1
    <3>2. CASE stack' # stack
      <4>1. PICK stage \in {"observed", "admitted"}, finding \in SUBSET Nat :
              Over([g EXCEPT !.stage = stage, !.finding = finding], s, stack'[t])
        BY <1>3, <3>2
      <4> DEFINE o == [g EXCEPT !.stage = stage, !.finding = finding]
      <4>2. o.kind = g.kind
        BY <1>2, CheckerKind
      <4>3. Over(o, s, stack'[t])
        BY <4>1
      <4> HIDE DEF o
      <4> QED  BY <4>2, <4>3
    <3> QED  BY <3>1, <3>2
  <2>4. h.kind # "accounted" /\ raising'[t] # "schedule" /\ Len(captures') = Len(captures)
    BY <1>1, <1>2, <1>3, <2>3
  <2> QED  BY <1>1, <2>1, <2>2, <2>3, <2>4, LooseMoves
<1> QED  BY <1>2, <1>4, <1>5

LEMMA RecordFactOrdered ==
    ASSUME Sound, Ordered, NEW t \in Threads, RecordFact(t)
    PROVE  Ordered'
<1> DEFINE g == Top(t)
           c == context[t]
           k == captures[c]
           s == Tail(stack[t])
           h == [g EXCEPT !.stage = "observed"]
           l == [k EXCEPT !.facts = @ \cup {FactOf(g, k)}]
<1>1. /\ Sound' /\ In(t, {"checker", "direct"})
      /\ g.stage = "admitted" /\ raising[t] = "nothing" /\ Alone(t)
      /\ captures \in Seq(Captured) /\ captures' \in Seq(Captured) /\ c \in 0..Len(captures)
      /\ Len(captures) \in Nat
  <2>1. /\ Sound' /\ In(t, {"checker", "direct"})
        /\ g.stage = "admitted" /\ raising[t] = "nothing" /\ Alone(t)
    BY RecordFactStep, ActsAlone, Zenon
  <2> QED  BY <2>1 DEF Sound
<1>2. /\ stack[t] # <<>> /\ g \in Frames(Len(captures))
      /\ g.kind \in {"checker", "direct"}
      /\ g.kind = "checker" => g.capture = c
      /\ \/ g.kind = "checker" /\ g.capture # NoCapture
         \/ g.kind = "direct"
         \/ g.kind = "checker" /\ g.capture = NoCapture
  BY <1>1, CheckerIs
<1>3. \/ /\ raising' = raising /\ Over(h, s, stack'[t])
         /\ c = NoCapture => captures' = captures
         /\ c # NoCapture => captures' = [captures EXCEPT ![c] = l]
      \/ /\ k.level = NoLevel
         /\ raising'[t] = "accounting" /\ stack' = stack /\ captures' = captures
  BY RecordFactStep
<1>4. h.kind = g.kind
  BY <1>2, CheckerKind
<1>5. ASSUME c # NoCapture, captures' = [captures EXCEPT ![c] = l]
      PROVE  /\ c \in 1..Len(captures) /\ Len(captures') = Len(captures) /\ captures'[c] = l
             /\ \A e \in 1..Len(captures) : e # c => captures'[e] = captures[e]
  <2>1. c \in 1..Len(captures)
    BY <1>1, <1>5 DEF NoCapture
  <2> HIDE DEF l
  <2> QED  BY <1>1, <1>5, <2>1, Replaced
<1>6. CASE g.kind = "checker" /\ g.capture # NoCapture
  <2>1. /\ g \in CheckerFrames(Len(captures)) /\ c = g.capture /\ Busy(s[1], g, k)
        /\ k \in Captured /\ s[1].plan \in Plans
    BY <1>2, <1>6, OwnCheckerOnTop
  <2>2. k.level # NoLevel
    BY <2>1 DEF Busy, Base
  <2>3. Busy(s[1], h, l)
    BY <1>1, <2>1, BusyRecords
  <2> HIDE DEF h, l
  <2>4. raising' = raising /\ Over(h, s, stack'[t]) /\ captures' = [captures EXCEPT ![c] = l]
    BY <1>3, <1>6, <2>1, <2>2
  <2>5. /\ Len(captures') = Len(captures) /\ captures'[c] = l
        /\ \A e \in 1..Len(captures) : e # c => captures'[e] = captures[e]
    BY <1>5, <1>6, <2>1, <2>4
  <2>6. Busy(s[1], h, captures'[c]) /\ Kept(captures'[c])
    BY <2>1, <2>3, <2>5, BusyKept
  <2> QED  BY <1>1, <1>2, <1>4, <1>6, <2>1, <2>4, <2>5, <2>6, CheckerMoves
<1>7. CASE g.kind = "direct" \/ (g.kind = "checker" /\ g.capture = NoCapture)
  <2>1. /\ Apart(s) /\ Deep(s, captures)
        /\ ~(Len(s) >= 1 /\ s[1].kind = "accounted")
        /\ HeldBy(s) = HeldBy(stack[t]) /\ Over(g, s, stack[t])
    BY <1>2, <1>7, LooseOnTop
  <2>2. g.kind = "direct" \/ c = NoCapture
    BY <1>2, <1>7
  <2>3. c \in 1..Len(captures) /\ g.kind = "direct" => Like(k, l)
    <3> SUFFICES ASSUME c \in 1..Len(captures), g.kind = "direct" PROVE Like(k, l)
      OBVIOUS
    <3>1. k \in Captured
      BY <1>1
    <3>2. /\ l.plan = k.plan /\ l.level = k.level /\ l.module = k.module /\ l.actual = k.actual
          /\ l.returned = k.returned /\ l.outcome = k.outcome /\ l.document = k.document
          /\ l.own = k.own /\ l.facts = k.facts \cup {FactOf(g, k)}
      BY <3>1 DEF Captured
    <3>3. FactOf(g, k).by = "direct"
      BY DEF FactOf
    <3>4. ~Quiet(l)
      BY <3>2, <3>3 DEF Quiet
    <3> HIDE DEF l
    <3> QED  BY <3>2, <3>4 DEF Like
  <2> HIDE DEF l
  <2>4. /\ Len(captures') = Len(captures)
        /\ \A e \in 1..Len(captures) : Like(captures[e], captures'[e])
    <3>1. CASE captures' = captures
      BY <3>1, LikeItself
    <3>2. CASE c # NoCapture /\ captures' = [captures EXCEPT ![c] = l]
      <4>1. /\ c \in 1..Len(captures) /\ Len(captures') = Len(captures) /\ captures'[c] = l
            /\ \A e \in 1..Len(captures) : e # c => captures'[e] = captures[e]
        BY <1>5, <3>2
      <4>2. Like(captures[c], l)
        BY <2>2, <2>3, <3>2, <4>1
      <4>3. ASSUME NEW e \in 1..Len(captures) PROVE Like(captures[e], captures'[e])
        <5>1. CASE e = c
          BY <4>1, <4>2, <5>1
        <5>2. CASE e # c
          BY <4>1, <5>2, LikeItself
        <5> QED  BY <5>1, <5>2
      <4> QED  BY <4>1, <4>3
    <3> QED  BY <1>3, <3>1, <3>2
  <2> HIDE DEF h
  <2>5. PICK o : Over(o, s, stack'[t]) /\ o.kind = g.kind
    BY <1>3, <1>4, <2>1
  <2>6. o.kind # "accounted" /\ raising'[t] # "schedule"
    BY <1>1, <1>2, <1>3, <2>5
  <2> QED  BY <1>1, <2>1, <2>4, <2>5, <2>6, LooseMoves
<1> QED  BY <1>2, <1>6, <1>7

LEMMA FailOrdered ==
    ASSUME Sound, Ordered, NEW t \in Threads, Fail(t)
    PROVE  Ordered'
<1> DEFINE g == Top(t)
           c == g.capture
           k == captures[c]
           s == Tail(stack[t])
           l == [k EXCEPT !.raised = TRUE]
<1>1. /\ Sound' /\ In(t, {"checker", "direct"}) /\ stack' = stack /\ Alone(t)
      /\ raising[t] = "nothing" /\ raising'[t] = "checker"
      /\ g.kind = "checker" /\ c # NoCapture => captures' = [captures EXCEPT ![c] = l]
      /\ ~(g.kind = "checker" /\ c # NoCapture) => captures' = captures
  BY FailStep, ActsAlone, Zenon
<1>2. captures' \in Seq(Captured)
  BY <1>1 DEF Sound
<1>3. /\ stack[t] # <<>> /\ g \in Frames(Len(captures))
      /\ g.kind \in {"checker", "direct"}
      /\ \/ g.kind = "checker" /\ c # NoCapture
         \/ g.kind = "direct"
         \/ g.kind = "checker" /\ c = NoCapture
  BY <1>1, CheckerIs
<1>4. CASE g.kind = "checker" /\ c # NoCapture
  <2>1. /\ c \in 1..Len(captures) /\ k \in Captured /\ captures \in Seq(Captured)
        /\ Busy(s[1], g, k) /\ Over(g, s, stack[t]) /\ Kept(k)
    BY <1>3, <1>4, OwnCheckerOnTop
  <2>2. Like(k, l) /\ ~Quiet(l)
    <3>1. /\ l.plan = k.plan /\ l.level = k.level /\ l.module = k.module /\ l.actual = k.actual
          /\ l.returned = k.returned /\ l.outcome = k.outcome /\ l.document = k.document
          /\ l.own = k.own /\ l.facts = k.facts /\ l.raised = TRUE
      BY <2>1 DEF Captured
    <3> HIDE DEF l
    <3> QED  BY <3>1 DEF Like, Quiet
  <2>3. Busy(s[1], g, l) /\ Kept(l)
    BY <2>1, <2>2, BusyLike, KeptLike
  <2> HIDE DEF l
  <2>4. /\ Len(captures') = Len(captures) /\ captures'[c] = l
        /\ \A e \in 1..Len(captures) : e # c => captures'[e] = captures[e]
    BY <1>1, <1>2, <1>4, <2>1, Replaced
  <2>5. /\ Busy(s[1], g, captures'[c]) /\ Kept(captures'[c])
        /\ ~Quiet(captures'[c]) /\ Over(g, s, stack'[t])
    BY <1>1, <2>1, <2>2, <2>3, <2>4
  <2> QED  BY <1>1, <1>3, <1>4, <2>4, <2>5, CheckerMoves
<1>5. CASE g.kind = "direct" \/ (g.kind = "checker" /\ c = NoCapture)
  <2>1. /\ Apart(s) /\ Deep(s, captures)
        /\ ~(Len(s) >= 1 /\ s[1].kind = "accounted")
        /\ HeldBy(s) = HeldBy(stack[t]) /\ Over(g, s, stack'[t])
    BY <1>1, <1>3, <1>5, LooseOnTop
  <2>2. captures' = captures /\ Len(captures') = Len(captures)
    BY <1>1, <1>5
  <2>3. \A e \in 1..Len(captures) : Like(captures[e], captures'[e])
    BY <2>2, LikeItself
  <2>4. g.kind # "accounted" /\ raising'[t] # "schedule"
    BY <1>1, <1>3
  <2> QED  BY <1>1, <2>1, <2>2, <2>3, <2>4, LooseMoves
<1> QED  BY <1>3, <1>4, <1>5

LEMMA ReturnOrdered ==
    ASSUME Sound, Ordered, NEW t \in Threads, Return(t)
    PROVE  Ordered'
<1> DEFINE g == Top(t)
           c == g.capture
           k == captures[c]
           m == g.module
           f == Tail(stack[t])[1]
           s == Tail(Tail(stack[t]))
           cell == <<k.level, m>>
           earned == ReturnedAsEarned(k.facts \ g.earlier, m, g.finding)
           h == [f EXCEPT !.done = @ + 1]
           l == [k EXCEPT !.module = NoModule,
                          !.returned = [x \in DOMAIN @ \cup {cell} |->
                                          IF x = cell THEN g.finding ELSE @[x]]]
           r == [k EXCEPT !.module = NoModule]
<1>1. /\ Sound' /\ In(t, {"checker"}) /\ Finished(g) /\ raising[t] = "nothing"
      /\ Over(f, s, Tail(stack[t])) /\ Alone(t)
  BY ReturnStep, ActsAlone, Zenon
<1>2. \/ /\ c = NoCapture \/ earned
         /\ raising' = raising /\ Over(h, s, stack'[t])
         /\ c = NoCapture => captures' = captures
         /\ c # NoCapture => captures' = [captures EXCEPT ![c] = l]
      \/ /\ c # NoCapture /\ ~earned
         /\ raising'[t] = "accounting" /\ stack'[t] = Tail(stack[t])
         /\ captures' = [captures EXCEPT ![c] = r]
  BY ReturnStep
<1>3. captures' \in Seq(Captured)
  BY <1>1 DEF Sound
<1>4. stack[t] # <<>> /\ g.kind = "checker"
  BY <1>1 DEF In
<1>5. h.kind = f.kind /\ (f.kind = "accounted" => h.capture = f.capture)
  <2>1. Tail(stack[t]) # <<>> /\ Tail(stack[t]) \in Seq(Frames(Len(captures))) /\ IsRunner(f)
    BY <1>4, TopFacts
  <2>2. f \in Frames(Len(captures))
    BY <2>1, Popping
  <2>3. f \in AccountedFrames(Len(captures)) \/ f \in PublicFrames(Len(captures))
    BY <2>1, <2>2, KindOfFrame DEF IsRunner
  <2> QED  BY <2>3 DEF AccountedFrames, PublicFrames
<1>6. CASE c = NoCapture
  <2> HIDE DEF h, l, f, s
  <2>1. captures' = captures /\ raising' = raising /\ Over(h, s, stack'[t])
    BY <1>2, <1>6
  <2>2. Over(f, s, Tail(stack[t]))
    BY <1>1 DEF f, s
  <2>3. raising'[t] # "schedule" /\ Len(captures') = Len(captures)
    BY <1>1, <2>1
  <2> QED  BY <1>1, <1>4, <1>5, <1>6, <2>1, <2>2, <2>3, CheckerLeaves
<1>7. CASE c # NoCapture
  <2>1. /\ g \in CheckerFrames(Len(captures)) /\ c \in 1..Len(captures)
        /\ k \in Captured /\ captures \in Seq(Captured)
        /\ f \in AccountedFrames(Len(captures)) /\ f.plan \in Plans /\ Busy(f, g, k)
    BY <1>4, <1>7, OwnCheckerOnTop
  <2>2. (Quiet(k) => earned) /\ Idle(h, l, "nothing")
    BY <1>1, <2>1, BusyReturns
  <2>3. ~Quiet(k) => Idle(f, r, "accounting")
    BY <2>1, BusyRaises
  <2>4. h.plan \in Plans
    BY <2>1, AccountedGoesOn
  <2>5. CASE /\ earned /\ raising' = raising /\ Over(h, s, stack'[t])
             /\ captures' = [captures EXCEPT ![c] = l]
    <3>1. Idle(h, l, raising'[t]) /\ Kept(l) /\ raising'[t] # "schedule"
      BY <1>1, <2>2, <2>4, <2>5, IdleKept
    <3> HIDE DEF l, h, f, s
    <3>2. /\ Len(captures') = Len(captures) /\ captures'[c] = l
          /\ \A e \in 1..Len(captures) : e # c => captures'[e] = captures[e]
      BY <1>3, <2>1, <2>5, Replaced
    <3>3. Idle(h, captures'[c], raising'[t]) /\ Kept(captures'[c])
      BY <3>1, <3>2
    <3>4. Over(f, s, Tail(stack[t]))
      BY <1>1 DEF f, s
    <3> QED  BY <1>1, <1>4, <1>5, <2>5, <3>1, <3>2, <3>3, <3>4, CheckerLeaves
  <2>6. CASE /\ ~earned /\ raising'[t] = "accounting" /\ stack'[t] = Tail(stack[t])
             /\ captures' = [captures EXCEPT ![c] = r]
    <3>1. Idle(f, r, raising'[t]) /\ Kept(r) /\ raising'[t] # "schedule"
      BY <2>1, <2>2, <2>3, <2>6, IdleKept
    <3> HIDE DEF r, f, s
    <3>2. /\ Len(captures') = Len(captures) /\ captures'[c] = r
          /\ \A e \in 1..Len(captures) : e # c => captures'[e] = captures[e]
      BY <1>3, <2>1, <2>6, Replaced
    <3>3. Idle(f, captures'[c], raising'[t]) /\ Kept(captures'[c])
      BY <3>1, <3>2
    <3>4. Over(f, s, Tail(stack[t])) /\ Over(f, s, stack'[t])
      BY <1>1, <2>6 DEF f, s
    <3> QED  BY <1>1, <1>4, <3>1, <3>2, <3>3, <3>4, CheckerLeaves
  <2> HIDE DEF l, r, h, f, s, earned
  <2> QED  BY <1>2, <1>7, <2>5, <2>6
<1> QED  BY <1>6, <1>7

LEMMA UnwindOrdered ==
    ASSUME Sound, Ordered, NEW t \in Threads, Unwind(t)
    PROVE  Ordered'
<1> DEFINE g == Top(t)
           c == g.capture
           k == captures[c]
           r == [k EXCEPT !.module = NoModule]
           l == [k EXCEPT !.outcome = "rejected"]
<1>1. /\ Sound' /\ stack[t] # <<>> /\ stack'[t] = Tail(stack[t]) /\ raising[t] # "nothing"
      /\ Alone(t)
  BY UnwindStep, ActsAlone, Zenon
<1>2. \/ /\ g.kind = "checker" /\ raising' = raising
         /\ c = NoCapture => captures' = captures
         /\ c # NoCapture => captures' = [captures EXCEPT ![c] = r]
      \/ /\ g.kind = "accounted" /\ raising'[t] = "nothing"
         /\ captures' = [captures EXCEPT ![c] = l]
      \/ /\ g.kind \in {"public", "direct"} /\ raising'[t] = "nothing"
         /\ captures' = captures
  BY UnwindStep
<1>3. captures' \in Seq(Captured) /\ raising[t] # "schedule"
  BY <1>1 DEF Sound, Ordered
<1>4. CASE /\ g.kind = "checker" /\ raising' = raising
           /\ c = NoCapture => captures' = captures
           /\ c # NoCapture => captures' = [captures EXCEPT ![c] = r]
  <2> DEFINE f == Tail(stack[t])[1]
             s == Tail(Tail(stack[t]))
  <2>1. Over(f, s, Tail(stack[t])) /\ Over(f, s, stack'[t])
    <3>1. Tail(stack[t]) # <<>> /\ Tail(stack[t]) \in Seq(Frames(Len(captures)))
      BY <1>1, <1>4, TopFacts
    <3>2. Over(f, s, Tail(stack[t]))
      BY <3>1, Popping
    <3> QED  BY <1>1, <3>2
  <2>2. CASE c = NoCapture
    <3>1. captures' = captures /\ Len(captures') = Len(captures) /\ raising'[t] # "schedule"
      BY <1>3, <1>4, <2>2
    <3> HIDE DEF f, s
    <3> QED  BY <1>1, <1>4, <2>1, <2>2, <3>1, CheckerLeaves
  <2>3. CASE c # NoCapture
    <3>1. /\ c \in 1..Len(captures) /\ k \in Captured /\ captures \in Seq(Captured)
          /\ f.plan \in Plans /\ Busy(f, g, k)
          /\ Quiet(k) => raising[t] = "nothing"
      BY <1>1, <1>4, <2>3, OwnCheckerOnTop
    <3>2. Idle(f, r, raising'[t]) /\ raising'[t] # "schedule"
      BY <1>1, <1>3, <1>4, <3>1, BusyRaises
    <3>3. Kept(r)
      BY <3>1, <3>2, IdleKept
    <3> HIDE DEF r, f, s
    <3>4. /\ Len(captures') = Len(captures) /\ captures'[c] = r
          /\ \A e \in 1..Len(captures) : e # c => captures'[e] = captures[e]
      BY <1>3, <1>4, <2>3, <3>1, Replaced
    <3>5. Idle(f, captures'[c], raising'[t]) /\ Kept(captures'[c])
      BY <3>2, <3>3, <3>4
    <3> QED  BY <1>1, <1>4, <2>1, <3>2, <3>4, <3>5, CheckerLeaves
  <2> QED  BY <2>2, <2>3
<1>5. CASE /\ g.kind = "accounted" /\ raising'[t] = "nothing"
           /\ captures' = [captures EXCEPT ![c] = l]
  <2>1. In(t, {"accounted"})
    BY <1>1, <1>5 DEF In
  <2>2. /\ c \in 1..Len(captures) /\ k \in Captured /\ captures \in Seq(Captured)
        /\ g \in AccountedFrames(Len(captures)) /\ Idle(g, k, raising[t])
    BY <2>1, RunnerOnTop
  <2>3. Kept(l) /\ l.outcome # "running"
    <3>1. /\ l.level = k.level /\ l.plan = k.plan /\ l.module = k.module /\ l.own = k.own
          /\ l.outcome = "rejected" /\ l.document = k.document /\ l.raised = k.raised
          /\ l.facts = k.facts
      BY <2>2 DEF Captured
    <3>2. k.module = NoModule /\ k.document = {} /\ ~Quiet(k)
      BY <1>1, <2>2 DEF Idle, Base
    <3>3. Kept(k)
      BY <2>2 DEF Ordered
    <3> HIDE DEF l
    <3> QED  BY <3>1, <3>2, <3>3 DEF Kept, Quiet
  <2> HIDE DEF l
  <2>4. /\ Len(captures') = Len(captures) /\ captures'[c] = l
        /\ \A e \in 1..Len(captures) : e # c => captures'[e] = captures[e]
    BY <1>3, <1>5, <2>2, Replaced
  <2> QED  BY <1>1, <1>5, <2>3, <2>4, CallerGoesOn
<1>6. CASE g.kind \in {"public", "direct"} /\ raising'[t] = "nothing" /\ captures' = captures
  <2>1. g.kind # "checker" /\ g.kind # "accounted" /\ Len(captures') = Len(captures)
    BY <1>6
  <2> QED  BY <1>1, <1>6, <2>1, CallerGoesOn
<1> HIDE DEF r, l
<1> QED  BY <1>2, <1>4, <1>5, <1>6

LEMMA InitOrdered == Init => Ordered
<1> SUFFICES ASSUME Init PROVE Ordered
  OBVIOUS
<1>1. Len(captures) = 0 /\ Accounted(<<>>) = {}
  BY DEF Init, Accounted
<1>2. \A t \in Threads : stack[t] = <<>> /\ raising[t] = "nothing"
  BY DEF Init
<1>3. HeldBy(<<>>) = {}
  BY <1>1 DEF HeldBy
<1>4. Fine(<<>>, captures, "nothing")
  BY <1>1 DEF Fine, Apart, Deep, Upper
<1>5. 1..Len(captures) = {}
  BY <1>1
<1> QED  BY <1>2, <1>3, <1>4, <1>5 DEF Ordered

LEMMA NextOrdered == Sound /\ Ordered /\ [Next]_vars => Ordered'
<1> SUFFICES ASSUME Sound, Ordered, [Next]_vars PROVE Ordered'
  OBVIOUS
<1>1. CASE UNCHANGED vars
  BY <1>1 DEF vars, Ordered
<1>2. ASSUME NEW t \in Threads,
             \/ StartPublic(t) \/ \E plan \in Plans : StartAccounted(t, plan)
             \/ \E m \in Pilots : CallDirectly(t, m)
             \/ \E u \in Threads : Spawn(t, u)
             \/ BeginLevel(t) \/ Invoke(t) \/ EndLevel(t)
             \/ Validate(t) \/ Publish(t) \/ FinishPublic(t)
             \/ Admit(t) \/ RecordFact(t) \/ Return(t) \/ ReturnDirect(t)
             \/ Fail(t) \/ Unwind(t)
      PROVE  Ordered'
  BY <1>2, StartPublicOrdered, StartAccountedOrdered, CallDirectlyOrdered, SpawnOrdered,
     BeginLevelOrdered, InvokeOrdered, EndLevelOrdered, ValidateOrdered, PublishOrdered,
     FinishPublicOrdered, AdmitOrdered, RecordFactOrdered, ReturnOrdered,
     ReturnDirectOrdered, FailOrdered, UnwindOrdered, Zenon
<1> QED  BY <1>1, <1>2 DEF Next

IInv == Sound /\ Ordered

LEMMA Inductive == Spec => []IInv
<1>1. Init => IInv
  BY InitSound, InitOrdered DEF IInv
<1>2. IInv /\ [Next]_vars => IInv'
  BY NextSound, NextOrdered DEF IInv
<1> QED  BY <1>1, <1>2, PTL DEF Spec

(* Contexts hold captures that exist, an exception travels only through a  *)
(* call, and a capture is inside a level or cell only while its run runs.  *)
THEOREM TypeCorrect == Spec => []TypeOK
<1>1. IInv => TypeOK
  <2> SUFFICES ASSUME Sound, Ordered PROVE TypeOK
    BY DEF IInv
  <2>1. 0..Len(captures) = Numbers \cup {NoCapture}
    <3>1. Len(captures) \in Nat
      BY DEF Sound
    <3> QED  BY <3>1 DEF Numbers, NoCapture
  <2>2. /\ context \in [Threads -> Numbers \cup {NoCapture}]
        /\ inherited \in [Threads -> Numbers \cup {NoCapture}]
    BY <2>1 DEF Sound
  <2>3. raising \in [Threads -> {"nothing", "checker", "schedule", "accounting"}]
    BY DEF Sound, Errors
  <2>4. \A t \in Threads : raising[t] # "nothing" => stack[t] # <<>>
    BY DEF Sound, ThreadsSound, OneThread
  <2>5. calls \in 0..MaxCalls
    BY DEF Sound
  <2>6. ASSUME NEW c \in Numbers
        PROVE  /\ captures[c].level \in Levels(captures[c].plan) \cup {NoLevel}
               /\ captures[c].module \in Modules \cup {NoModule}
               /\ captures[c].module # NoModule =>
                    captures[c].level # NoLevel /\ captures[c].outcome = "running"
               /\ captures[c].outcome # "published" => captures[c].document = {}
    <3>1. Kept(captures[c])
      BY DEF Ordered, Numbers
    <3>2. captures[c] \in Captured
      BY DEF Sound, Numbers
    <3>3. captures[c].module \in Modules \cup {NoModule}
      BY <3>2 DEF Captured
    <3> QED  BY <3>1, <3>3 DEF Kept
  <2> QED  BY <2>2, <2>3, <2>4, <2>5, <2>6 DEF TypeOK
<1> QED  BY <1>1, Inductive, PTL

(* Runs may nest and threads may carry a context away, but no run ever     *)
(* finds the schedule of its capture disturbed: what _begin_level, _invoke *)
(* and _end_level guard against never happens.                             *)
THEOREM RunsApart == Spec => []RunsNeverCollide
<1>1. IInv => RunsNeverCollide
  BY DEF IInv, Ordered, RunsNeverCollide
<1> QED  BY <1>1, Inductive, PTL

(* What a run publishes for an obligation was recorded by the checker that *)
(* this run invoked for it, or by the schedule.                            *)
THEOREM PublishedOwn == Spec => []PublishedFactsAreOwn
<1>1. IInv => PublishedFactsAreOwn
  BY DEF IInv, Ordered, Kept, PublishedFactsAreOwn, Numbers
<1> QED  BY <1>1, Inductive, PTL

(* A run whose own checkers do not raise, and in whose context nobody      *)
(* calls a checker directly, is never refused.                             *)
THEOREM OnlyDirectDisturbs == Spec => []OnlyDirectCallsDisturb
<1>1. IInv => OnlyDirectCallsDisturb
  BY DEF IInv, Ordered, Kept, Quiet, OnlyDirectCallsDisturb, Numbers
<1> QED  BY <1>1, Inductive, PTL

(***************************************************************************)
(* The checkers that hold a capture's cell.                                *)
(***************************************************************************)
InsideOf(c) ==
    {p \in Threads \X (1..MaxCalls) :
       /\ p[2] \in DOMAIN stack[p[1]]
       /\ stack[p[1]][p[2]].kind = "checker"
       /\ stack[p[1]][p[2]].capture = c}

(* Under a checker with a capture is the run that has it. *)
LEMMA UnderChecker ==
    ASSUME Sound, Ordered, NEW t \in Threads, NEW i \in 1..Len(stack[t]),
           stack[t][i].kind = "checker", NEW c \in Numbers, stack[t][i].capture = c
    PROVE  /\ i + 1 \in Accounted(stack[t]) /\ stack[t][i + 1].capture = c
           /\ captures[c].module = stack[t][i].module
           /\ captures[c].module # NoModule
<1> DEFINE s == stack[t]
<1>1. s \in Seq(Frames(Len(captures))) /\ Nested(s) /\ Len(s) \in Nat
  BY DEF Sound, ThreadsSound, OneThread
<1>2. i + 1 \in 1..Len(s) /\ IsRunner(s[i + 1]) /\ c = Holds(s[i + 1])
  BY <1>1 DEF Nested
<1>3. c # NoCapture /\ i \in Nat /\ i >= 1
  <2>1. Len(captures) \in Nat
    BY DEF Sound
  <2> QED  BY <1>1, <2>1 DEF Numbers, NoCapture
<1>4. s[i + 1].kind = "accounted" /\ s[i + 1].capture = c
  BY <1>2, <1>3 DEF Holds
<1>5. i + 1 \in Accounted(s)
  BY <1>2, <1>4 DEF Accounted
<1>6. Deep(s, captures)
  BY DEF Ordered, Fine
<1>7. i + 1 # 1 /\ (i + 1) - 1 = i
  BY <1>3
<1>8. Busy(s[i + 1], s[(i + 1) - 1], captures[s[i + 1].capture])
  BY <1>5, <1>6, <1>7 DEF Deep
<1>9. Busy(s[i + 1], s[i], captures[c])
  BY <1>4, <1>7, <1>8
<1>10. captures[c].module = s[i].module
  BY <1>9 DEF Busy
<1>11. s[i].module \in Modules
  <2>1. s[i] \in Frames(Len(captures))
    BY <1>1
  <2>2. s[i] \in CheckerFrames(Len(captures))
    BY <2>1, KindOfFrame, Zenon
  <2> QED  BY <2>2 DEF CheckerFrames
<1> QED  BY <1>4, <1>5, <1>10, <1>11, CaptureContextAssumption

LEMMA OneChecker ==
    ASSUME Sound, Ordered, NEW c \in Numbers, NEW p \in InsideOf(c), NEW q \in InsideOf(c)
    PROVE  p = q
<1> DEFINE t == p[1]
           i == p[2]
           u == q[1]
           j == q[2]
<1>1. /\ t \in Threads /\ i \in DOMAIN stack[t] /\ stack[t][i].kind = "checker"
      /\ stack[t][i].capture = c /\ p = <<t, i>>
      /\ u \in Threads /\ j \in DOMAIN stack[u] /\ stack[u][j].kind = "checker"
      /\ stack[u][j].capture = c /\ q = <<u, j>>
  BY DEF InsideOf
<1>2. i \in 1..Len(stack[t]) /\ j \in 1..Len(stack[u]) /\ i \in Nat /\ j \in Nat
  <2>1. \A v \in Threads : DOMAIN stack[v] = 1..Len(stack[v]) /\ Len(stack[v]) \in Nat
    BY DEF Sound
  <2> QED  BY <1>1, <2>1
<1> HIDE DEF t, i, u, j
<1>3. /\ i + 1 \in Accounted(stack[t]) /\ stack[t][i + 1].capture = c
      /\ j + 1 \in Accounted(stack[u]) /\ stack[u][j + 1].capture = c
  BY <1>1, <1>2, UnderChecker
<1>4. c \in HeldBy(stack[t]) /\ c \in HeldBy(stack[u])
  BY <1>3 DEF HeldBy
<1>5. t = u
  BY <1>1, <1>4 DEF Ordered
<1>6. i + 1 = j + 1
  BY <1>1, <1>3, <1>5 DEF Ordered, Fine, Apart
<1> QED  BY <1>1, <1>2, <1>5, <1>6

LEMMA SomeChecker ==
    ASSUME Sound, Ordered, NEW c \in Numbers, captures[c].module # NoModule
    PROVE  InsideOf(c) # {}
<1>1. Kept(captures[c]) /\ c \in 1..Len(captures)
  BY DEF Ordered, Numbers
<1>2. captures[c].outcome = "running"
  BY <1>1 DEF Kept
<1>3. PICK t \in Threads : c \in HeldBy(stack[t])
  BY <1>1, <1>2 DEF Ordered
<1> DEFINE s == stack[t]
<1>4. PICK i \in Accounted(s) : s[i].capture = c
  BY <1>3 DEF HeldBy
<1>5. /\ s \in Seq(Frames(Len(captures))) /\ Nested(s) /\ Len(s) \in Nat /\ Len(s) <= calls
      /\ DOMAIN s = 1..Len(s)
  BY DEF Sound, ThreadsSound, OneThread
<1>6. i \in 1..Len(s) /\ s[i].kind = "accounted"
  BY DEF Accounted
<1>7. Deep(s, captures) /\ Upper(s, captures, raising[t])
  BY DEF Ordered, Fine
<1>8. i # 1
  <2> SUFFICES ASSUME i = 1 PROVE FALSE
    OBVIOUS
  <2>1. Idle(s[1], captures[c], raising[t])
    BY <1>4, <1>7 DEF Upper
  <2> QED  BY <2>1 DEF Idle
<1>9. i - 1 \in 1..Len(s) /\ (i - 1) + 1 = i
  BY <1>5, <1>6, <1>8
<1>10. s[i - 1].kind = "checker"
  BY <1>5, <1>6, <1>9 DEF Nested, IsRunner
<1>11. s[i - 1].capture = Holds(s[i])
  BY <1>5, <1>9, <1>10 DEF Nested
<1>12. s[i - 1].capture = c
  BY <1>4, <1>6, <1>11 DEF Holds
<1>13. i - 1 \in 1..MaxCalls
  BY <1>5, <1>9, CaptureContextAssumption DEF Sound
<1>14. <<t, i - 1>> \in InsideOf(c)
  BY <1>5, <1>9, <1>10, <1>12, <1>13 DEF InsideOf
<1> QED  BY <1>14

(* A capture is in a cell exactly while one thread is in a checker that    *)
(* its own run invoked for it, and never in two.                           *)
THEOREM CellsHeld == Spec => []CellsFollowCheckers
<1>1. IInv => CellsFollowCheckers
  <2> SUFFICES ASSUME Sound, Ordered, NEW c \in Numbers
               PROVE  /\ Cardinality(InsideOf(c)) =
                           IF captures[c].module = NoModule THEN 0 ELSE 1
                      /\ \A p \in InsideOf(c) : stack[p[1]][p[2]].module = captures[c].module
    BY DEF IInv, CellsFollowCheckers, InsideOf
  <2>1. ASSUME NEW p \in InsideOf(c)
        PROVE  stack[p[1]][p[2]].module = captures[c].module /\ captures[c].module # NoModule
    <3>1. /\ p[1] \in Threads /\ p[2] \in DOMAIN stack[p[1]]
          /\ stack[p[1]][p[2]].kind = "checker" /\ stack[p[1]][p[2]].capture = c
      BY DEF InsideOf
    <3>2. p[2] \in 1..Len(stack[p[1]])
      BY <3>1 DEF Sound
    <3> QED  BY <3>1, <3>2, UnderChecker
  <2>2. CASE captures[c].module = NoModule
    <3>1. InsideOf(c) = {}
      BY <2>1, <2>2
    <3> QED  BY <2>1, <2>2, <3>1, FS_EmptySet
  <2>3. CASE captures[c].module # NoModule
    <3>1. PICK p : p \in InsideOf(c)
      BY <2>3, SomeChecker
    <3>2. InsideOf(c) = {p}
      BY <3>1, OneChecker
    <3> QED  BY <2>1, <2>3, <3>2, FS_Singleton
  <2> QED  BY <2>2, <2>3
<1> QED  BY <1>1, Inductive, PTL
=============================================================================
