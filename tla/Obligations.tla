---------------------------- MODULE Obligations -----------------------------
(***************************************************************************)
(* The pilot obligations of src/trace_tests/accounting.py: what a checker  *)
(* declares about each branch it can take, how the facts it produced and   *)
(* the findings it returned are projected into one accounting row per      *)
(* attempted level and obligation, and how a finished document is          *)
(* revalidated before it is emitted.  Everything here is a pure operator;  *)
(* Execution, AtomicRun and PilotRun say how the values come about.        *)
(***************************************************************************)
EXTENDS Findings, Sequences

CONSTANTS Modules,  \* the checker modules
          Keys,     \* the pilot obligations, named by their finding code
          Owner,    \* the module that owns each obligation
          Rule,     \* the declared branches: <<owner, branch>> to a rule
          Branches  \* the branch names producers may use, declared or not

Roles == {"target_completed", "target_attempted_unresolved", "prerequisite",
          "not_applicable", "not_attempted", "scheduler_nonexecution"}

BranchRule == [role : Roles, finding : Option(Codes), statuses : SUBSET Status,
               blocker : Option(Codes), blockerStatuses : SUBSET Status,
               blockerTexts : SUBSET Texts]

(***************************************************************************)
(* What the three registered specifications guarantee by inspection: one   *)
(* obligation per owner, a finding rule speaks of the owner's own key, a   *)
(* prerequisite is declared exactly by the prerequisite role, and only the *)
(* scheduler role leaves both out.                                         *)
(***************************************************************************)
ASSUME RegistryAssumption ==
    /\ Keys \subseteq Codes
    /\ Owner \in [Keys -> Modules]
    /\ \A j, k \in Keys : Owner[j] = Owner[k] => j = k
    /\ DOMAIN Rule \subseteq Modules \X Branches
    /\ \A b \in DOMAIN Rule :
         /\ Rule[b] \in BranchRule
         /\ \E k \in Keys : Owner[k] = b[1] /\ Rule[b].finding \subseteq {k}
         /\ Rule[b].role = "scheduler_nonexecution" =>
              Rule[b].finding = {} /\ Rule[b].blocker = {}
         /\ Rule[b].finding = {} /\ Rule[b].blocker = {} =>
              Rule[b].role = "scheduler_nonexecution"

(* The obligations a module owns: the code calls the one there is, if any, *)
(* the module's pilot code.                                                *)
PilotCode(module) == {k \in Keys : Owner[k] = module}

(***************************************************************************)
(* A witness copies the fields of a finding object when it is seen and     *)
(* keeps the object's identity.  A fact is what one call of _observe       *)
(* records: the branch taken, the finding earned on it (if any), and       *)
(* whether the frozen policy counts that finding.                          *)
(***************************************************************************)
Witness(Ids) == [id : Ids, code : Codes, status : Status, text : Texts]

Fact(Ids) == [branch : Branches, earned : Option(Witness(Ids)),
              counts : Option(BOOLEAN)]

Positions(findings, code) == {p \in DOMAIN findings : findings[p].code = code}

OnlyOne(S) == \E x \in S : S = {x}

(* The ways to pair two sets of positions one to one and in order: there   *)
(* is one if they are equally large, and none otherwise.                   *)
InOrder(I, P) ==
    {match \in [I -> P] : /\ \A p \in P : \E i \in I : match[i] = p
                          /\ \A i, j \in I : i < j => match[i] < match[j]}

(* The applicability and the evaluation state a producer's role stands for. *)
RoleProjection(role) ==
    [applicability |-> IF role = "not_applicable" THEN "not_applicable"
                       ELSE "applicable",
     state |-> CASE role = "target_attempted_unresolved" -> "attempted_unresolved"
                 [] role = "prerequisite" -> "blocked_by_prerequisite"
                 [] role \in {"not_attempted", "scheduler_nonexecution"} -> "not_attempted"
                 [] role \in {"target_completed", "not_applicable"} -> "completed"]

(* A rule's prerequisite explains a row at `level': exactly one finding of *)
(* the run carries its code, says what the rule says, and fails the level. *)
BlockedBy(rule, findings, policy, level) ==
    \E c \in rule.blocker :
      /\ OnlyOne(Positions(findings, c))
      /\ \A p \in Positions(findings, c) :
           /\ findings[p].status \in rule.blockerStatuses
           /\ findings[p].text \in rule.blockerTexts
           /\ CountsAsLevelFailure(policy, findings[p], level)

-----------------------------------------------------------------------------
(***************************************************************************)
(* _project.  `facts' gives every cell <<level, module>> the facts         *)
(* recorded for it; `returned' the findings of the scheduled cells.        *)
(***************************************************************************)
(* Mutant: any declared branch will do, the scheduler's too. *)
RecognisedIfDeclared(cell, fact, scheduled) == <<cell[2], fact.branch>> \in DOMAIN Rule

RecognisedFact(cell, fact, scheduled) ==
    /\ <<cell[2], fact.branch>> \in DOMAIN Rule
    /\ (cell \in scheduled) # (Rule[<<cell[2], fact.branch>>].role = "scheduler_nonexecution")

ProjectableFact(cell, fact, returned, policy) ==
    LET rule == Rule[<<cell[2], fact.branch>>] IN
    /\ IF rule.role = "prerequisite"
         THEN BlockedBy(rule, returned[cell], policy, cell[1])
         ELSE rule.blocker = {} /\ rule.blockerStatuses = {} /\ rule.blockerTexts = {}
    /\ IF rule.finding = {}
         THEN fact.earned = {} /\ fact.counts = {}
         ELSE \E w \in fact.earned :
                /\ w.code \in rule.finding
                /\ w.status \in rule.statuses
                /\ \E b \in BOOLEAN : fact.counts = {b}

Projectable(levels, facts, returned, policy) ==
    /\ \A cell \in DOMAIN facts : \A i \in DOMAIN facts[cell] :
         RecognisedFact(cell, facts[cell][i], DOMAIN returned)
    /\ \A l \in levels, k \in Keys :
         /\ Len(facts[<<l, Owner[k]>>]) = 1
         /\ ProjectableFact(<<l, Owner[k]>>, facts[<<l, Owner[k]>>][1], returned, policy)

Row(owner, fact) ==
    LET rule == Rule[<<owner, fact.branch>>] IN
    [branch      |-> fact.branch,
     projection  |-> RoleProjection(rule.role),
     unscheduled |-> rule.role = "scheduler_nonexecution",
     blocker     |-> IF rule.role = "prerequisite" THEN rule.blocker ELSE {},
     finding     |-> IF rule.finding = {} THEN {}
                     ELSE {[code |-> w.code, status |-> w.status] : w \in fact.earned},
     counts      |-> IF rule.finding = {} THEN {} ELSE fact.counts]

Rows(levels, facts) ==
    [c \in levels \X Keys |-> Row(Owner[c[2]], facts[<<c[1], Owner[c[2]]>>][1])]

(* The findings of a level, as <<module, position>> pairs. *)
FindingsAt(results, level) ==
    UNION {{<<cell[2], p>> : p \in DOMAIN results[cell]} :
             cell \in {c \in DOMAIN results : c[1] = level}}

(* Mutant: only failed findings count, and no unverified one. *)
TallyOfFailed(results, level, policy) ==
    LET At(f) == results[<<level, f[1]>>][f[2]] IN
    [failures   |-> Cardinality({f \in FindingsAt(results, level) : At(f).status = "fail"}),
     unverified |-> Cardinality({f \in FindingsAt(results, level) :
                                   At(f).status = "unverified"})]

Tally(results, level, policy) ==
    LET At(f) == results[<<level, f[1]>>][f[2]] IN
    [failures   |-> Cardinality({f \in FindingsAt(results, level) :
                                   CountsAsLevelFailure(policy, At(f), level)}),
     unverified |-> Cardinality({f \in FindingsAt(results, level) :
                                   At(f).status = "unverified"})]

(* The value part of a witness: what the sealed payload keeps of it. *)
Sealed(w) == [code |-> w.code, status |-> w.status, text |-> w.text]

SealedResults(returned) ==
    [cell \in DOMAIN returned |-> [p \in DOMAIN returned[cell] |-> Sealed(returned[cell][p])]]

Document(levels, facts, returned, policy) ==
    [policy  |-> policy,
     results |-> SealedResults(returned),
     rows    |-> Rows(levels, facts),
     tallies |-> [l \in levels |-> Tally(returned, l, policy)]]

-----------------------------------------------------------------------------
(***************************************************************************)
(* _validate_document_relations: the check a sealed document must pass     *)
(* before a report may carry it.  It sees the rows, the results and the    *)
(* tallies only, never the facts they were computed from.                  *)
(***************************************************************************)
RowMatchesResults(row, level, key, results, policy) ==
    LET cell == <<level, Owner[key]>>
        rule == Rule[<<Owner[key], row.branch>>]
        findings == IF cell \in DOMAIN results THEN results[cell] ELSE <<>>
    IN  /\ <<Owner[key], row.branch>> \in DOMAIN Rule
        /\ row.projection = RoleProjection(rule.role)
        /\ row.unscheduled = (rule.role = "scheduler_nonexecution")
        /\ row.blocker = rule.blocker
        /\ IF rule.finding = {}
             THEN /\ row.finding = {} /\ row.counts = {}
                  /\ IF row.blocker # {} THEN BlockedBy(rule, findings, policy, level)
                                         ELSE cell \notin DOMAIN results
             ELSE \E c \in rule.finding :
                    /\ OnlyOne(Positions(findings, c))
                    /\ \A p \in Positions(findings, c) :
                         /\ row.finding = {[code |-> c, status |-> findings[p].status]}
                         /\ findings[p].status \in rule.statuses
                         /\ row.counts = {CountsAsLevelFailure(policy, findings[p], level)}

EmissionAccepts(levels, document) ==
    /\ DOMAIN document.rows = levels \X Keys
    /\ DOMAIN document.tallies = levels
    /\ \A l \in levels, k \in Keys :
         RowMatchesResults(document.rows[<<l, k>>], l, k, document.results, document.policy)
    /\ \A l \in levels :
         document.tallies[l] = Tally(document.results, l, document.policy)
=============================================================================
