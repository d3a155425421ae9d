------------------------- MODULE PolicyAdmin_proofs -------------------------
(***************************************************************************)
(* Policy rules as data, for any number of admins, workers and rules: what *)
(* the evaluator's points mean, what concurrent admin requests leave in    *)
(* the table and its trail, and which rules a worker decides by.           *)
(*                                                                         *)
(* The points are dealt with by themselves, for every set of valid rules.  *)
(* The rest rests on one invariant of a session, SessionOK: what it has    *)
(* written is no row exactly if it deletes, and from the moment it has     *)
(* listed the table it is a valid rule.                                    *)
(***************************************************************************)
EXTENDS PolicyAdmin, TLAPS

---------------------------------------------------------------------------
(* The evaluator.                                                          *)

(* A matching rule has one of six scores.                                  *)
LEMMA Scores ==
  ASSUME NEW r, NEW q
  PROVE  /\ ToolPoints(r, q) \in {1, 4} /\ ScopePoints(r, q) \in {1, 2, 3}
         /\ Specificity(r, q) \in {11, 12, 13, 41, 42, 43}
<1>1. ToolPoints(r, q) \in {1, 4} /\ ScopePoints(r, q) \in {1, 2, 3}
  BY DEF ToolPoints, ScopePoints
<1> QED
  BY <1>1 DEF Specificity

(* Some matching rule has the best score, finite table or not.             *)
LEMMA SomeRuleIsTied ==
  ASSUME NEW R, NEW q, Matching(R, q) # {}
  PROVE  Tied(R, q) # {}
<1> DEFINE S == Matching(R, q)
           Has(n) == \E r \in S : Specificity(r, q) = n
<1>1. \A r \in S : Specificity(r, q) \in {11, 12, 13, 41, 42, 43}
  BY Scores
<1>2. ASSUME NEW n \in {11, 12, 13, 41, 42, 43}, Has(n),
             \A o \in S : Specificity(o, q) <= n
      PROVE  Tied(R, q) # {}
  BY <1>2 DEF Tied
<1>3. Has(11) \/ Has(12) \/ Has(13) \/ Has(41) \/ Has(42) \/ Has(43)
  BY <1>1
<1>4. CASE Has(43)
  BY <1>1, <1>2, <1>4
<1>5. CASE Has(42) /\ ~Has(43)
  BY <1>1, <1>2, <1>5
<1>6. CASE Has(41) /\ ~Has(42) /\ ~Has(43)
  BY <1>1, <1>2, <1>6
<1>7. CASE Has(13) /\ ~Has(41) /\ ~Has(42) /\ ~Has(43)
  BY <1>1, <1>2, <1>7
<1>8. CASE Has(12) /\ ~Has(13) /\ ~Has(41) /\ ~Has(42) /\ ~Has(43)
  BY <1>1, <1>2, <1>8
<1>9. CASE Has(11) /\ ~Has(12) /\ ~Has(13) /\ ~Has(41) /\ ~Has(42) /\ ~Has(43)
  BY <1>1, <1>2, <1>9
<1> HIDE DEF Has
<1> QED
  BY <1>3, <1>4, <1>5, <1>6, <1>7, <1>8, <1>9

(* The points order rules exactly as the reference does: the tool before   *)
(* the scope, the agent before the service before the wildcard.            *)
LEMMA PointsMeanPrecedence ==
  ASSUME NEW r, NEW o, NEW q
  PROVE  Specificity(o, q) < Specificity(r, q) <=> Beats(r, o, q)
<1> DEFINE tr == ToolPoints(r, q)  to == ToolPoints(o, q)
           sr == ScopePoints(r, q) so == ScopePoints(o, q)
<1>1. tr \in {1, 4} /\ to \in {1, 4} /\ sr \in {1, 2, 3} /\ so \in {1, 2, 3}
  BY Scores
<1>2. Specificity(r, q) = tr * 10 + sr /\ Specificity(o, q) = to * 10 + so
  BY DEF Specificity
<1>3. (tr = 4 <=> r.tool = q.tool) /\ (to = 4 <=> o.tool = q.tool)
  BY DEF ToolPoints
<1>4. so < sr <=> ScopeBeats(r, o, q)
  BY DEF ScopePoints, ScopeBeats
<1> HIDE DEF tr, to, sr, so
<1>5. to * 10 + so < tr * 10 + sr <=> (to < tr \/ (to = tr /\ so < sr))
  BY <1>1
<1> QED
  BY <1>1, <1>2, <1>3, <1>4, <1>5 DEF Beats

(* For every set of valid rules, finite or not, and every request: the     *)
(* evaluator may allow it exactly if some matching allow rule is more      *)
(* specific than every matching deny rule.                                 *)
THEOREM EvaluationIsPrecedence ==
  ASSUME NEW R, NEW q,
         \A r \in R : r.allowed \in BOOLEAN /\ ValidRule(r)
  PROVE  MayAllow(R, q) <=> SomeAllowBeatsEveryDeny(R, q)
<1> DEFINE S == Matching(R, q)
           denies == {r \in Tied(R, q) : ~r.allowed}
<1>0. S \subseteq R /\ Tied(R, q) \subseteq S /\ Winners(R, q) \subseteq Tied(R, q)
  BY DEF Matching, Tied, Winners
<1>1. CASE q.class = DESTRUCTIVE
  <2>1. ~MayAllow(R, q)
    BY <1>1 DEF MayAllow, evaluate_policy, Verdict
  <2>2. \A r \in S : r.class = DESTRUCTIVE
    BY <1>1 DEF Matching, Matches, DESTRUCTIVE, NoClass
  <2>3. \A r \in S : ~r.allowed
    BY <2>2, <1>0 DEF ValidRule
  <2> QED
    BY <2>1, <2>3 DEF SomeAllowBeatsEveryDeny
<1>2. CASE q.class # DESTRUCTIVE /\ S = {}
  <2>1. ~MayAllow(R, q)
    BY <1>2 DEF MayAllow, evaluate_policy, Verdict
  <2> QED
    BY <2>1, <1>2 DEF SomeAllowBeatsEveryDeny
<1>3. CASE q.class # DESTRUCTIVE /\ S # {}
  <2>1. evaluate_policy(R, q) = {WinnerVerdict(r) : r \in Winners(R, q)}
    BY <1>3 DEF evaluate_policy
  <2>2. ASSUME NEW r \in R PROVE WinnerVerdict(r).allowed <=> r.allowed
    BY <2>2 DEF WinnerVerdict, Verdict, ValidRule
  <2>3. MayAllow(R, q) <=> \E r \in Winners(R, q) : r.allowed
    BY <2>1, <2>2, <1>0 DEF MayAllow
  <2>4. (\E r \in Winners(R, q) : r.allowed) <=> denies = {}
    <3>1. CASE denies = {}
      <4>1. Winners(R, q) = Tied(R, q) /\ Tied(R, q) # {}
        BY <3>1, <1>3, SomeRuleIsTied DEF Winners
      <4> QED
        BY <3>1, <4>1
    <3>2. CASE denies # {}
      <4>1. Winners(R, q) = denies
        BY <3>2 DEF Winners
      <4> QED
        BY <3>2, <4>1
    <3> QED
      BY <3>1, <3>2
  <2>5. ASSUME denies = {} PROVE SomeAllowBeatsEveryDeny(R, q)
    <3>1. PICK t \in Tied(R, q) : TRUE
      BY <1>3, SomeRuleIsTied
    <3>2. t \in S /\ t.allowed
      BY <2>5, <1>0
    <3>3. ASSUME NEW d \in S, ~d.allowed PROVE Beats(t, d, q)
      <4>1. Specificity(d, q) <= Specificity(t, q)
        BY <3>3 DEF Tied
      <4>2. Specificity(d, q) # Specificity(t, q)
        <5> SUFFICES ASSUME Specificity(d, q) = Specificity(t, q) PROVE d \in Tied(R, q)
          BY <2>5, <3>3
        <5> QED
          BY <3>3 DEF Tied
      <4>3. Specificity(d, q) \in Int /\ Specificity(t, q) \in Int
        BY Scores
      <4>4. Specificity(d, q) < Specificity(t, q)
        BY <4>1, <4>2, <4>3
      <4> QED
        BY <4>4, PointsMeanPrecedence
    <3> QED
      BY <3>2, <3>3 DEF SomeAllowBeatsEveryDeny
  <2>6. ASSUME SomeAllowBeatsEveryDeny(R, q) PROVE denies = {}
    <3>1. PICK r \in S : \A d \in S : ~d.allowed => Beats(r, d, q)
      BY <2>6 DEF SomeAllowBeatsEveryDeny
    <3> SUFFICES ASSUME NEW d \in denies PROVE FALSE
      OBVIOUS
    <3>2. Specificity(d, q) < Specificity(r, q)
      BY <3>1, <1>0, PointsMeanPrecedence
    <3>3. Specificity(r, q) <= Specificity(d, q)
      BY DEF Tied
    <3>4. Specificity(d, q) \in Int /\ Specificity(r, q) \in Int
      BY Scores
    <3> QED
      BY <3>2, <3>3, <3>4
  <2> QED
    BY <2>3, <2>4, <2>5, <2>6
<1> QED
  BY <1>1, <1>2, <1>3

---------------------------------------------------------------------------
(* The table, its trail and the caches.                                    *)

SessionOK(x) ==
  /\ x.pc # "idle" => x.id \in RuleIds
  /\ x.pc # "idle" /\ x.op # "deleted" => x.entity \in Row
  /\ x.pc = "flush" /\ x.op = "updated" => x.loaded \in Row
  /\ x.pc \in {"flushed", "listed", "done"} => (x.write = NoRow <=> x.op = "deleted")
  /\ x.pc \in {"listed", "done"} => x.write = NoRow \/ ValidRule(x.write)

(* The table a message began with, and every later one, is remembered.     *)
WorkerOK(x, table) ==
  /\ x.pc \in {"refresh", "decide"} => table \in x.since
  /\ x.pc = "decide" => x.cache \in x.since

PolicyInv ==
  /\ PolicyTypeOK
  /\ \A s \in Admins : SessionOK(ses[s])
  /\ \A w \in Workers : WorkerOK(worker[w], rules)
  /\ TrailTellsPresence
  /\ Readable(rules)

---------------------------------------------------------------------------
Columns == {"tool", "class", "scope", "allowed", "reason", "version"}

(* A session's record with some fields replaced is again one.              *)
LEMMA IdleIsASession == IdleSession \in Session /\ SessionOK(IdleSession) /\ IdleSession.pc = "idle"
<1>1. Empty \in Table
  BY DEF Empty, Table, MaybeRow
<1>2. IdleSession \in Session
  BY <1>1, SMT DEF IdleSession, Session, MaybeRow
<1> QED
  BY <1>2 DEF IdleSession, SessionOK

(* The UPDATE of a row leaves a row.                                       *)
LEMMA MergedIsARow ==
  ASSUME NEW e \in Row, NEW l \in Row, NEW c \in Row
  PROVE  Merged(e, l, c) \in Row
<1>1. DOMAIN c = Columns
  BY DEF Row, Columns
<1>2. Merged(e, l, c) = [x \in Columns |-> IF e[x] # l[x] THEN e[x] ELSE c[x]]
  BY <1>1 DEF Merged
<1> QED
  BY <1>2 DEF Row, Columns

(* A row is not NoRow.                                                     *)
LEMMA RowIsARow == \A r \in Row : r # NoRow
BY NoRowAssumption

(* One session moves on; the table, its trail and the workers stay.        *)
LEMMA SessionMoves ==
  ASSUME PolicyInv, NEW s \in Admins, NEW new \in Session, SessionOK(new),
         SetSession(s, new), UNCHANGED <<rules, trail, worker>>, api' \in Table
  PROVE  PolicyInv'
<1>1. ses \in [Admins -> Session] /\ ses' = [ses EXCEPT ![s] = new]
  BY DEF PolicyInv, PolicyTypeOK, SetSession
<1>2. ses' \in [Admins -> Session]
  BY <1>1
<1>3. PolicyTypeOK'
  BY <1>2 DEF PolicyInv, PolicyTypeOK
<1>4. \A o \in Admins : SessionOK(ses'[o])
  BY <1>1 DEF PolicyInv
<1>5. \A w \in Workers : WorkerOK(worker'[w], rules')
  BY DEF PolicyInv
<1>6. TrailTellsPresence' /\ Readable(rules)'
  BY DEF PolicyInv, TrailTellsPresence, Readable
<1> QED
  BY <1>3, <1>4, <1>5, <1>6 DEF PolicyInv, SessionOK, WorkerOK

(* A request that ends without a commit.                                   *)
LEMMA AbortStep ==
  ASSUME PolicyInv, NEW s \in Admins, Abort(s), UNCHANGED <<rules, trail, api, worker>>
  PROVE  PolicyInv'
BY IdleIsASession, SessionMoves DEF Abort, PolicyInv, PolicyTypeOK

---------------------------------------------------------------------------
(* A POST checks and inserts a rule.                                       *)
LEMMA CreateStep ==
  ASSUME PolicyInv, NEW s \in Admins, NEW i \in RuleIds, Create(s, i)
  PROVE  PolicyInv'
<1>1. PICK n \in [tool : Tools, class : Classes, scope : Scopes, allowed : NewAllowed,
                  reason : Reasons, version : {1}] :
        SetSession(s, [IdleSession EXCEPT !.pc = "flush", !.id = i, !.entity = n])
  BY DEF Create
<1> DEFINE new == [IdleSession EXCEPT !.pc = "flush", !.id = i, !.entity = n]
<1>2. n \in Row
  BY VersionAssumption, DomainAssumption DEF Row
<1>3. new \in Session
  BY <1>2, IdleIsASession, ZenonT(60) DEF Session, MaybeRow
<1>4. new.pc = "flush" /\ new.id = i /\ new.entity = n /\ new.op = "created"
  <2>1. IdleSession.op = "created"
    BY DEF IdleSession
  <2> QED
    BY <2>1, IdleIsASession DEF Session
<1> HIDE DEF new
<1>5. SessionOK(new)
  BY <1>2, <1>4 DEF SessionOK
<1> QED
  BY <1>1, <1>3, <1>5, SessionMoves DEF Create, PolicyInv, PolicyTypeOK, new

(* A replacement is a row of the next version.                             *)
LEMMA ReplacementIsARow ==
  ASSUME NEW r \in Row, r.version < MaxVersion, NEW n \in Replacements(r)
  PROVE  n \in Row
<1>1. n.version \in 1 .. MaxVersion
  BY VersionAssumption DEF Replacements, Row
<1>2. n.allowed \in BOOLEAN
  BY DomainAssumption DEF Replacements, Row
<1>3. n.tool \in Tools /\ n.class \in Classes /\ n.scope \in Scopes /\ n.reason \in Reasons
  BY DEF Replacements, Row
<1>4. n = [tool |-> n.tool, class |-> n.class, scope |-> n.scope, allowed |-> n.allowed,
           reason |-> n.reason, version |-> n.version]
  BY DEF Replacements
<1> QED
  BY <1>1, <1>2, <1>3, <1>4 DEF Row

(* A PATCH reads a rule and replaces it in memory.                         *)
LEMMA StartUpdateStep ==
  ASSUME PolicyInv, NEW s \in Admins, NEW i \in RuleIds, StartUpdate(s, i)
  PROVE  PolicyInv'
<1>1. PICK n \in Replacements(rules[i]) :
        SetSession(s, [IdleSession EXCEPT !.pc = "save", !.op = "updated", !.id = i, !.entity = n])
  BY DEF StartUpdate
<1> DEFINE new == [IdleSession EXCEPT !.pc = "save", !.op = "updated", !.id = i, !.entity = n]
<1>2. rules[i] \in Row /\ rules[i].version < MaxVersion
  BY DEF StartUpdate, PolicyInv, PolicyTypeOK, Table, MaybeRow
<1>3. n \in Row
  BY <1>2, ReplacementIsARow
<1>4. new \in Session
  BY <1>3, IdleIsASession, ZenonT(60) DEF Session, MaybeRow
<1>5. new.pc = "save" /\ new.id = i /\ new.entity = n
  BY IdleIsASession DEF Session
<1> HIDE DEF new
<1>6. SessionOK(new)
  BY <1>3, <1>5 DEF SessionOK
<1> QED
  BY <1>1, <1>4, <1>6, SessionMoves DEF StartUpdate, PolicyInv, PolicyTypeOK, new

(* A DELETE finds its rule.                                                *)
LEMMA StartDeleteStep ==
  ASSUME PolicyInv, NEW s \in Admins, NEW i \in RuleIds, StartDelete(s, i)
  PROVE  PolicyInv'
<1> DEFINE new == [IdleSession EXCEPT !.pc = "save", !.op = "deleted", !.id = i]
<1>1. SetSession(s, new)
  BY DEF StartDelete
<1>2. new \in Session
  BY IdleIsASession, ZenonT(60) DEF Session
<1>3. new.pc = "save" /\ new.id = i /\ new.op = "deleted"
  BY IdleIsASession DEF Session
<1> HIDE DEF new
<1>4. SessionOK(new)
  BY <1>3 DEF SessionOK
<1> QED
  BY <1>1, <1>2, <1>4, SessionMoves DEF StartDelete, PolicyInv, PolicyTypeOK

(* The SELECT of the row that is to be changed.                            *)
LEMMA LoadStep ==
  ASSUME PolicyInv, NEW s \in Admins, Load(s)
  PROVE  PolicyInv'
<1> DEFINE i == ses[s].id
           new == [ses[s] EXCEPT !.pc = "flush", !.loaded = rules[i]]
<1>1. CASE rules[i] = NoRow
  BY <1>1, AbortStep DEF Load
<1>2. CASE rules[i] # NoRow
  <2>1. ses[s] \in Session /\ SessionOK(ses[s]) /\ ses[s].pc = "save"
    BY DEF Load, PolicyInv, PolicyTypeOK
  <2>2. i \in RuleIds
    BY <2>1 DEF SessionOK
  <2>3. rules[i] \in Row
    BY <1>2, <2>2 DEF PolicyInv, PolicyTypeOK, Table, MaybeRow
  <2>4. new \in Session
    BY <2>1, <2>3, ZenonT(60) DEF Session, MaybeRow
  <2>5. /\ new.pc = "flush" /\ new.id = i /\ new.loaded = rules[i]
        /\ new.op = ses[s].op /\ new.entity = ses[s].entity
    BY <2>1 DEF Session
  <2>6. SetSession(s, new)
    BY <1>2 DEF Load
  <2> HIDE DEF new
  <2>7. SessionOK(new)
    BY <2>1, <2>2, <2>3, <2>5 DEF SessionOK
  <2> QED
    BY <2>4, <2>6, <2>7, SessionMoves DEF Load, PolicyInv, PolicyTypeOK
<1> QED
  BY <1>1, <1>2

(* A session that has written keeps SessionOK.                             *)
LEMMA FlushedSession ==
  ASSUME NEW x \in Session, SessionOK(x), x.pc = "flush", NEW w \in MaybeRow,
         w = NoRow <=> x.op = "deleted"
  PROVE  LET new == [x EXCEPT !.pc = "flushed", !.loaded = NoRow, !.write = w]
         IN  new \in Session /\ SessionOK(new)
<1> DEFINE new == [x EXCEPT !.pc = "flushed", !.loaded = NoRow, !.write = w]
<1>1. NoRow \in MaybeRow
  BY DEF MaybeRow
<1>2. new \in Session
  BY <1>1, ZenonT(60) DEF Session
<1>3. /\ new.pc = "flushed" /\ new.id = x.id /\ new.op = x.op /\ new.entity = x.entity
      /\ new.write = w
  BY DEF Session
<1> HIDE DEF new
<1>4. SessionOK(new)
  BY <1>3 DEF SessionOK
<1> QED
  BY <1>2, <1>4 DEF new

(* The flush: an update finds a row, so what it writes is a row.           *)
LEMMA FlushStep ==
  ASSUME PolicyInv, NEW s \in Admins, Flush(s)
  PROVE  PolicyInv'
<1> DEFINE i == ses[s].id
           new == [ses[s] EXCEPT !.pc = "flushed", !.loaded = NoRow, !.write = Flushed(s)]
<1>1. CASE Abort(s)
  BY <1>1, AbortStep DEF Flush
<1>2. CASE SetSession(s, new) /\ ~(ses[s].op = "updated" /\ rules[i] = NoRow)
  <2>1. ses[s] \in Session /\ SessionOK(ses[s]) /\ ses[s].pc = "flush"
    BY DEF Flush, PolicyInv, PolicyTypeOK
  <2>2. i \in RuleIds /\ ses[s].op \in {"created", "updated", "deleted"}
    BY <2>1 DEF SessionOK, Session
  <2>3. CASE ses[s].op = "deleted"
    <3>1. Flushed(s) = NoRow
      BY <2>3 DEF Flushed
    <3> QED
      BY <3>1, <2>3, <1>2, <2>1, <2>2, SessionMoves, FlushedSession DEF Flush, PolicyInv, PolicyTypeOK, MaybeRow
  <2>4. CASE ses[s].op = "created"
    <3>1. Flushed(s) \in Row
      BY <2>1, <2>4 DEF Flushed, SessionOK
    <3> QED
      BY <3>1, <2>4, <1>2, <2>1, <2>2, RowIsARow, SessionMoves, FlushedSession
         DEF Flush, PolicyInv, PolicyTypeOK, MaybeRow
  <2>5. CASE ses[s].op = "updated"
    <3>1. rules[i] \in Row
      BY <1>2, <2>2, <2>5 DEF PolicyInv, PolicyTypeOK, Table, MaybeRow
    <3>2. ses[s].entity \in Row /\ ses[s].loaded \in Row
      BY <2>1, <2>5 DEF SessionOK
    <3>3. Flushed(s) \in Row
      BY <2>5, <3>1, <3>2, MergedIsARow DEF Flushed
    <3> QED
      BY <3>3, <2>5, <1>2, <2>1, <2>2, RowIsARow, SessionMoves, FlushedSession
         DEF Flush, PolicyInv, PolicyTypeOK, MaybeRow
  <2> QED
    BY <2>2, <2>3, <2>4, <2>5
<1> QED
  BY <1>1, <1>2 DEF Flush

(* Listing the table raises on an invalid rule, its own write included.    *)
LEMMA ListRulesStep ==
  ASSUME PolicyInv, NEW s \in Admins, ListRules(s)
  PROVE  PolicyInv'
<1> DEFINE i == ses[s].id
           view == [rules EXCEPT ![i] = ses[s].write]
           new == [ses[s] EXCEPT !.pc = "listed", !.view = view]
<1>1. CASE ~Readable(view)
  BY <1>1, AbortStep DEF ListRules
<1>2. CASE Readable(view)
  <2>1. ses[s] \in Session /\ SessionOK(ses[s]) /\ ses[s].pc = "flushed"
    BY DEF ListRules, PolicyInv, PolicyTypeOK
  <2>2. i \in RuleIds /\ ses[s].write \in MaybeRow /\ rules \in Table
    BY <2>1 DEF SessionOK, Session, PolicyInv, PolicyTypeOK
  <2>3. view \in Table /\ view[i] = ses[s].write
    BY <2>2 DEF Table
  <2>4. ses[s].write = NoRow \/ ValidRule(ses[s].write)
    BY <1>2, <2>2, <2>3 DEF Readable
  <2>5. SetSession(s, new)
    BY <1>2 DEF ListRules
  <2> HIDE DEF view
  <2>6. new \in Session
    BY <2>1, <2>3, ZenonT(60) DEF Session
  <2>7. /\ new.pc = "listed" /\ new.id = i /\ new.op = ses[s].op
        /\ new.entity = ses[s].entity /\ new.write = ses[s].write
    BY <2>1 DEF Session
  <2> HIDE DEF new
  <2>8. SessionOK(new)
    BY <2>1, <2>2, <2>4, <2>7 DEF SessionOK
  <2> QED
    BY <2>5, <2>6, <2>8, SessionMoves DEF ListRules, PolicyInv, PolicyTypeOK
<1> QED
  BY <1>1, <1>2

(* The API's cache is replaced after the commit.                           *)
LEMMA PublishStep ==
  ASSUME PolicyInv, NEW s \in Admins, Publish(s)
  PROVE  PolicyInv'
<1> DEFINE new == [ses[s] EXCEPT !.pc = "done", !.view = Empty]
<1>1. ses[s] \in Session /\ SessionOK(ses[s]) /\ ses[s].pc = "listed" /\ SetSession(s, new)
  BY DEF Publish, PolicyInv, PolicyTypeOK
<1>2. Empty \in Table /\ api' \in Table
  BY <1>1 DEF Empty, Table, MaybeRow, Publish, Session
<1>3. new \in Session
  BY <1>1, <1>2, ZenonT(60) DEF Session
<1>4. /\ new.pc = "done" /\ new.id = ses[s].id /\ new.op = ses[s].op
      /\ new.entity = ses[s].entity /\ new.write = ses[s].write
  BY <1>1 DEF Session
<1> HIDE DEF new
<1>5. SessionOK(new)
  BY <1>1, <1>4 DEF SessionOK
<1> QED
  BY <1>1, <1>2, <1>3, <1>5, SessionMoves DEF Publish

(* The commit writes the row and its trail together, and every worker in   *)
(* the middle of a message remembers the new table.                        *)
LEMMA CommitStep ==
  ASSUME PolicyInv, NEW s \in Admins, Commit(s)
  PROVE  PolicyInv'
<1> DEFINE i == ses[s].id
           w == ses[s].write
           new == [rules EXCEPT ![i] = w]
<1>1. ses[s] \in Session /\ SessionOK(ses[s]) /\ ses[s].pc = "done"
  BY DEF Commit, PolicyInv, PolicyTypeOK
<1>2. i \in RuleIds /\ w \in MaybeRow /\ (w = NoRow <=> ses[s].op = "deleted")
  BY <1>1 DEF SessionOK, Session
<1>3. w = NoRow \/ ValidRule(w)
  BY <1>1 DEF SessionOK
<1>4. /\ rules' = new /\ trail' = [trail EXCEPT ![i] = ses[s].op] /\ api' = api
      /\ ses' = [ses EXCEPT ![s] = IdleSession]
      /\ worker' = [v \in Workers |->
                      [worker[v] EXCEPT !.since = IF @ = {} THEN {} ELSE @ \cup {new}]]
  BY DEF Commit, Abort, SetSession
<1>5. rules \in Table /\ ses[s].op \in {"created", "updated", "deleted"}
  BY <1>1 DEF PolicyInv, PolicyTypeOK, Session
<1>6. new \in Table /\ \A j \in RuleIds : new[j] = IF j = i THEN w ELSE rules[j]
  BY <1>2, <1>5 DEF Table
<1>7. TrailTellsPresence'
  <2> SUFFICES ASSUME NEW j \in RuleIds
               PROVE  rules'[j] = NoRow <=> trail'[j] \in {"none", "deleted"}
    BY DEF TrailTellsPresence
  <2>1. trail'[j] = IF j = i THEN ses[s].op ELSE trail[j]
    BY <1>4 DEF PolicyInv, PolicyTypeOK
  <2> QED
    BY <1>2, <1>4, <1>5, <1>6, <2>1 DEF PolicyInv, TrailTellsPresence
<1>8. Readable(rules)'
  BY <1>3, <1>4, <1>6 DEF PolicyInv, Readable
<1>9. ASSUME NEW v \in Workers
      PROVE  worker'[v] \in WorkerProcess /\ WorkerOK(worker'[v], rules')
  <2> DEFINE x == worker[v]
             since == IF x.since = {} THEN {} ELSE x.since \cup {new}
  <2>1. x \in WorkerProcess /\ WorkerOK(x, rules)
    BY DEF PolicyInv, PolicyTypeOK
  <2>2. worker'[v] = [x EXCEPT !.since = since]
    BY <1>4
  <2>3. since \in SUBSET Table /\ x.since \subseteq since
        /\ (x.since # {} => new \in since)
    BY <1>6, <2>1 DEF WorkerProcess
  <2> HIDE DEF since
  <2>4. /\ worker'[v] \in WorkerProcess
        /\ worker'[v].pc = x.pc /\ worker'[v].cache = x.cache /\ worker'[v].since = since
    BY <2>1, <2>2, <2>3 DEF WorkerProcess
  <2>5. WorkerOK(worker'[v], new)
    BY <2>1, <2>3, <2>4 DEF WorkerOK
  <2> QED
    BY <1>4, <2>4, <2>5
<1>10. worker' \in [Workers -> WorkerProcess]
  BY <1>4, <1>9
<1>11. ses' \in [Admins -> Session] /\ \A o \in Admins : SessionOK(ses'[o])
  BY <1>4, IdleIsASession DEF PolicyInv, PolicyTypeOK
<1>12. trail' \in [RuleIds -> {"none", "created", "updated", "deleted"}]
  BY <1>4, <1>5 DEF PolicyInv, PolicyTypeOK
<1>13. PolicyTypeOK'
  BY <1>4, <1>6, <1>10, <1>11, <1>12 DEF PolicyInv, PolicyTypeOK
<1> QED
  BY <1>7, <1>8, <1>9, <1>11, <1>13 DEF PolicyInv, SessionOK, WorkerOK

(* One worker moves on.                                                    *)
LEMMA WorkerMoves ==
  ASSUME PolicyInv, NEW w \in Workers, NEW new \in WorkerProcess, WorkerOK(new, rules),
         worker' = [worker EXCEPT ![w] = new], UNCHANGED <<rules, trail, ses, api>>
  PROVE  PolicyInv'
<1>1. worker' \in [Workers -> WorkerProcess]
  BY DEF PolicyInv, PolicyTypeOK
<1>2. \A v \in Workers : WorkerOK(worker'[v], rules')
  BY DEF PolicyInv, PolicyTypeOK
<1>3. PolicyTypeOK' /\ TrailTellsPresence' /\ Readable(rules)'
  BY <1>1 DEF PolicyInv, PolicyTypeOK, TrailTellsPresence, Readable
<1>4. \A s \in Admins : SessionOK(ses'[s])
  BY DEF PolicyInv
<1> QED
  BY <1>2, <1>3, <1>4 DEF PolicyInv, SessionOK, WorkerOK

(* A worker lists the table and decides by what it has listed.             *)
LEMMA StepOfWorker ==
  ASSUME PolicyInv, NEW w \in Workers, WorkerStep(w)
  PROVE  PolicyInv'
<1>0. worker[w] \in WorkerProcess /\ WorkerOK(worker[w], rules) /\ rules \in Table
      /\ Empty \in Table /\ worker \in [Workers -> WorkerProcess]
  BY DEF PolicyInv, PolicyTypeOK, Empty, Table, MaybeRow
<1>1. CASE WorkerStart(w)
  <2> DEFINE new == [pc |-> "poll", cache |-> rules, since |-> {}]
  <2>1. new \in WorkerProcess /\ WorkerOK(new, rules)
    BY <1>0 DEF WorkerProcess, WorkerOK
  <2> QED
    BY <1>1, <2>1, WorkerMoves DEF WorkerStart
<1>2. CASE WorkerCrash(w)
  <2> DEFINE new == [pc |-> "down", cache |-> Empty, since |-> {}]
  <2>1. new \in WorkerProcess /\ WorkerOK(new, rules)
    BY <1>0 DEF WorkerProcess, WorkerOK
  <2> QED
    BY <1>2, <2>1, WorkerMoves DEF WorkerCrash
<1>3. CASE BeginMessage(w)
  <2> DEFINE new == [worker[w] EXCEPT !.pc = "refresh", !.since = {rules}]
  <2>1. new \in WorkerProcess /\ WorkerOK(new, rules)
    BY <1>0 DEF WorkerProcess, WorkerOK
  <2>2. worker' = [worker EXCEPT ![w] = new]
    BY <1>0, <1>3 DEF BeginMessage
  <2> QED
    BY <1>3, <2>1, <2>2, WorkerMoves DEF BeginMessage
<1>4. CASE RefreshPolicyCache(w)
  <2>0. worker[w].pc = "refresh" /\ Readable(rules)
    BY <1>4 DEF RefreshPolicyCache, PolicyInv
  <2> DEFINE new == [worker[w] EXCEPT !.pc = "decide", !.cache = rules]
  <2>1. new \in WorkerProcess /\ WorkerOK(new, rules)
    BY <1>0, <2>0 DEF WorkerProcess, WorkerOK
  <2>2. worker' = [worker EXCEPT ![w] = new]
    BY <1>0, <1>4, <2>0 DEF RefreshPolicyCache
  <2> QED
    BY <1>4, <2>1, <2>2, WorkerMoves DEF RefreshPolicyCache
<1>5. CASE EndMessage(w)
  <2> DEFINE new == [worker[w] EXCEPT !.pc = "poll", !.since = {}]
  <2>1. new \in WorkerProcess /\ WorkerOK(new, rules)
    BY <1>0 DEF WorkerProcess, WorkerOK
  <2>2. worker' = [worker EXCEPT ![w] = new]
    BY <1>0, <1>5 DEF EndMessage
  <2> QED
    BY <1>5, <2>1, <2>2, WorkerMoves DEF EndMessage
<1> QED
  BY <1>1, <1>2, <1>3, <1>4, <1>5 DEF WorkerStep

(* The API comes back with the table as it is.                             *)
LEMMA ApiRestartStep ==
  ASSUME PolicyInv, ApiRestart
  PROVE  PolicyInv'
<1>1. ses' \in [Admins -> Session] /\ \A s \in Admins : SessionOK(ses'[s])
  BY IdleIsASession DEF ApiRestart
<1>2. PolicyTypeOK'
  BY <1>1 DEF ApiRestart, PolicyInv, PolicyTypeOK
<1>3. TrailTellsPresence' /\ Readable(rules)'
  BY DEF ApiRestart, PolicyInv, TrailTellsPresence, Readable
<1>4. \A w \in Workers : WorkerOK(worker'[w], rules')
  BY DEF ApiRestart, PolicyInv
<1> QED
  BY <1>1, <1>2, <1>3, <1>4 DEF PolicyInv, SessionOK, WorkerOK

(* PolicyInv holds in the initial states.                                  *)
LEMMA InitPolicy == Init => PolicyInv
<1> SUFFICES ASSUME Init PROVE PolicyInv
  OBVIOUS
<1>1. Empty \in Table
  BY DEF Empty, Table, MaybeRow
<1>2. PolicyTypeOK
  BY <1>1, IdleIsASession DEF Init, PolicyTypeOK, WorkerProcess
<1>3. \A s \in Admins : SessionOK(ses[s])
  BY IdleIsASession DEF Init
<1>4. \A w \in Workers : WorkerOK(worker[w], rules)
  BY DEF Init, WorkerOK
<1>5. TrailTellsPresence /\ Readable(rules)
  BY DEF Init, Empty, TrailTellsPresence, Readable
<1> QED
  BY <1>2, <1>3, <1>4, <1>5 DEF PolicyInv

(* Every step preserves PolicyInv.                                         *)
LEMMA StepPolicy == PolicyInv /\ [Next]_vars => PolicyInv'
<1> SUFFICES ASSUME PolicyInv, [Next]_vars PROVE PolicyInv'
  OBVIOUS
<1>1. ASSUME NEW s \in Admins, AdminStep(s) PROVE PolicyInv'
  BY <1>1, CreateStep, StartUpdateStep, StartDeleteStep, LoadStep, FlushStep, ListRulesStep,
     PublishStep, CommitStep, AbortStep DEF AdminStep, Rollback
<1>2. CASE UNCHANGED vars
  BY <1>2 DEF vars, PolicyInv, PolicyTypeOK, SessionOK, WorkerOK, TrailTellsPresence, Readable
<1> QED
  BY <1>1, <1>2, StepOfWorker, ApiRestartStep DEF Next

(* PolicyInv holds throughout every behaviour.                             *)
LEMMA PolicyInvariant == Spec => []PolicyInv
BY InitPolicy, StepPolicy, PTL DEF Spec

---------------------------------------------------------------------------
(* Sessions, rows, caches and histories keep their shapes.                 *)
THEOREM PolicyTypeCorrect == Spec => []PolicyTypeOK
<1>1. PolicyInv => PolicyTypeOK
  BY DEF PolicyInv
<1> QED
  BY <1>1, PolicyInvariant, PTL

(* However many admins change and delete one rule at a time, its last      *)
(* change record says whether it exists.                                   *)
THEOREM TrailsTellPresence == Spec => []TrailTellsPresence
<1>1. PolicyInv => TrailTellsPresence
  BY DEF PolicyInv
<1> QED
  BY <1>1, PolicyInvariant, PTL

(* No interleaving of partial updates commits an allowed destructive rule, *)
(* although no single request asks for one and the UPDATE writes only the  *)
(* columns that differ from a row read earlier.                            *)
THEOREM NoDestructiveIsAllowed == Spec => []NoDestructiveAllow
<1>1. PolicyInv => NoDestructiveAllow
  BY DEF PolicyInv, Readable, ValidRule, RulesOf, NoDestructiveAllow
<1> QED
  BY <1>1, PolicyInvariant, PTL

(* A worker decides by rules that were the committed ones at some moment   *)
(* since its message began.                                                *)
THEOREM WorkersAreFresh == Spec => []WorkerIsFresh
<1>1. PolicyInv => WorkerIsFresh
  BY DEF PolicyInv, WorkerOK, WorkerIsFresh
<1> QED
  BY <1>1, PolicyInvariant, PTL

(* For every table that admins can leave, and every request, the points of *)
(* evaluate_policy decide as its comment says.                             *)
THEOREM MostSpecificRuleWins == Spec => []MostSpecificWins
<1>1. ASSUME PolicyInv PROVE MostSpecificWins
  <2>1. \A r \in RulesOf(rules) : r.allowed \in BOOLEAN /\ ValidRule(r)
    BY <1>1 DEF PolicyInv, PolicyTypeOK, Table, MaybeRow, Row, RulesOf, Readable
  <2> QED
    BY <2>1, EvaluationIsPrecedence DEF MostSpecificWins
<1> QED
  BY <1>1, PolicyInvariant, PTL
=============================================================================
