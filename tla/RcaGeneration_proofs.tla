----------------------- MODULE RcaGeneration_proofs -----------------------
(***************************************************************************)
(* Proofs about what the model is shown and which of its answers are       *)
(* stored, for any incidents, scenarios, tool results and bounds.          *)
(*                                                                         *)
(* None of the three properties is inductive.  The commander decides by    *)
(* the evidence of the thread, which outlives an attempt, and the pack is  *)
(* cut from the recorder, which is drained with it; that the one covers    *)
(* the other rests on a thread being collected for once only: when every   *)
(* collector it needs has contributed or failed, the commander never sends *)
(* it to a specialist again (GenerationInv).                               *)
(*                                                                         *)
(* The keys of the hits are never looked at: a sequence is typed by its    *)
(* own elements.                                                           *)
(***************************************************************************)
EXTENDS RcaGeneration, FiniteSetTheorems, WellFoundedInduction, TLAPS

IsSeq(s) == s \in Seq(ToSet(s))

---------------------------------------------------------------------------
(* Sequences.                                                              *)

(* A function on 1 .. n is a sequence.                                     *)
LEMMA FunctionIsSeq ==
  ASSUME NEW n \in Nat, NEW s, DOMAIN s = 1 .. n, s = [j \in 1 .. n |-> s[j]]
  PROVE  IsSeq(s)
<1>1. \A j \in 1 .. n : s[j] \in ToSet(s)
  BY DEF ToSet
<1> DEFINE S == ToSet(s)
<1> HIDE DEF S
<1>2. s \in [1 .. n -> S]
  BY <1>1 DEF S
<1> QED
  BY <1>2 DEF S, IsSeq

(* A sequence over any set is a sequence over its own elements.            *)
LEMMA TypedIsSeq ==
  ASSUME NEW S, NEW s \in Seq(S)
  PROVE  IsSeq(s) /\ ToSet(s) \subseteq S
<1>1. Len(s) \in Nat /\ DOMAIN s = 1 .. Len(s) /\ \A j \in 1 .. Len(s) : s[j] \in S
  OBVIOUS
<1>2. s = [j \in 1 .. Len(s) |-> s[j]]
  OBVIOUS
<1>3. IsSeq(s)
  BY <1>1, <1>2, FunctionIsSeq
<1> QED
  BY <1>1, <1>3 DEF ToSet

(* The empty sequence.                                                     *)
LEMMA EmptyIsSeq == IsSeq(<<>>) /\ ToSet(<<>>) = {}
<1>1. <<>> \in Seq({})
  OBVIOUS
<1>2. ToSet(<<>>) = {}
  BY DEF ToSet
<1> QED
  BY <1>1, <1>2, ZenonT(60) DEF IsSeq

(* Only the empty sequence has no elements.                                *)
LEMMA NoElements ==
  ASSUME NEW s, IsSeq(s)
  PROVE  s = <<>> <=> ToSet(s) = {}
<1> DEFINE S == ToSet(s)
<1>1. \A j \in DOMAIN s : s[j] \in S
  BY DEF ToSet
<1>2. s \in Seq(S)
  BY DEF IsSeq
<1> HIDE DEF S
<1>3. S = {} => s = <<>>
  BY <1>1, <1>2
<1> QED
  BY <1>3, EmptyIsSeq DEF S

(* Concatenation keeps both sequences' elements.                           *)
LEMMA ConcatIsSeq ==
  ASSUME NEW s, NEW t, IsSeq(s), IsSeq(t)
  PROVE  IsSeq(s \o t) /\ ToSet(s \o t) = ToSet(s) \cup ToSet(t)
<1> DEFINE U == ToSet(s) \cup ToSet(t)
<1>1. s \in Seq(U) /\ t \in Seq(U)
  <2>1. ASSUME NEW A, NEW B, NEW q \in Seq(A), A \subseteq B PROVE q \in Seq(B)
    BY <2>1
  <2> QED
    BY <2>1 DEF IsSeq
<1>2. s \o t \in Seq(U)
  BY <1>1
<1>3. \A j \in 1 .. Len(s) : j \in 1 .. Len(s \o t) /\ (s \o t)[j] = s[j]
  BY <1>1
<1>4. \A j \in 1 .. Len(t) : Len(s) + j \in 1 .. Len(s \o t) /\ (s \o t)[Len(s) + j] = t[j]
  BY <1>1
<1>5. DOMAIN s = 1 .. Len(s) /\ DOMAIN t = 1 .. Len(t) /\ DOMAIN (s \o t) = 1 .. Len(s \o t)
  BY <1>1, <1>2
<1>6. ToSet(s) \subseteq ToSet(s \o t)
  BY <1>3, <1>5, ZenonT(60) DEF ToSet
<1>7. ToSet(t) \subseteq ToSet(s \o t)
  BY <1>4, <1>5, ZenonT(60) DEF ToSet
<1>8. IsSeq(s \o t) /\ ToSet(s \o t) \subseteq U
  BY <1>2, TypedIsSeq, Zenon
<1> QED
  BY <1>6, <1>7, <1>8

(* First keeps some elements, and all of them when it is shorter than the  *)
(* cut.                                                                    *)
LEMMA FirstIsSeq ==
  ASSUME NEW n \in Nat, NEW s, IsSeq(s)
  PROVE  /\ IsSeq(First(n, s)) /\ ToSet(First(n, s)) \subseteq ToSet(s)
         /\ DOMAIN First(n, s) \subseteq DOMAIN s
         /\ Len(First(n, s)) < n => First(n, s) = s
<1> DEFINE S == ToSet(s)
           m == IF n < Len(s) THEN n ELSE Len(s)
<1>1. s \in Seq(S)
  BY DEF IsSeq
<1> HIDE DEF S
<1>2. Len(s) \in Nat
  BY <1>1
<1>3. m \in Nat /\ m <= Len(s) /\ (n < Len(s) => m = n) /\ (~(n < Len(s)) => m = Len(s))
  BY <1>2
<1> HIDE DEF m
<1>4. SubSeq(s, 1, m) \in Seq(S) /\ Len(SubSeq(s, 1, m)) = m
  BY <1>1, <1>3
<1>5. m = Len(s) => SubSeq(s, 1, m) = s
  BY <1>1, <1>3
<1>6. First(n, s) = SubSeq(s, 1, m)
  BY DEF First, m
<1>7. DOMAIN First(n, s) \subseteq DOMAIN s
  BY <1>1, <1>2, <1>3, <1>4, <1>6
<1>8. IsSeq(First(n, s)) /\ ToSet(First(n, s)) \subseteq S
  BY <1>4, <1>6, TypedIsSeq
<1>9. Len(First(n, s)) < n => First(n, s) = s
  BY <1>3, <1>4, <1>5, <1>6
<1> QED
  BY <1>7, <1>8, <1>9 DEF S

---------------------------------------------------------------------------
(* Items and packs.                                                        *)

IsItem(x) == x = [k |-> x.k, key |-> x.key]
IsItems(s) == IsSeq(s) /\ \A x \in ToSet(s) : IsItem(x)

(* Nothing, and two lists of items one after the other.                    *)
LEMMA ListsOfItems ==
  /\ IsItems(<<>>)
  /\ \A s, t : IsItems(s) /\ IsItems(t) => IsItems(s \o t)
  BY EmptyIsSeq, ConcatIsSeq DEF IsItems

(* Deduplication leaves a sequence.                                        *)
LEMMA DedupedIsSeq ==
  ASSUME NEW hits, IsSeq(hits)
  PROVE  IsSeq(Deduped(hits))
<1> DEFINE firsts == {n \in DOMAIN hits : \A m \in 1 .. n - 1 : hits[m] # hits[n]}
           at(j)  == hits[CHOOSE n \in firsts : Cardinality(firsts \cap 1 .. n) = j]
<1>1. Len(hits) \in Nat /\ DOMAIN hits = 1 .. Len(hits)
  <2> DEFINE S == ToSet(hits)
  <2>1. hits \in Seq(S)
    BY DEF IsSeq
  <2> HIDE DEF S
  <2> QED
    BY <2>1
<1>2. IsFiniteSet(1 .. Len(hits))
  BY <1>1, FS_Interval
<1>3. firsts \subseteq 1 .. Len(hits)
  BY <1>1
<1>4. Cardinality(firsts) \in Nat
  <2> HIDE DEF firsts
  <2> QED
    BY <1>2, <1>3, FS_Subset, FS_CardinalityType
<1> DEFINE c == Cardinality(firsts)
<1>5. Deduped(hits) = [j \in 1 .. c |-> at(j)]
  BY DEF Deduped
<1> HIDE DEF c, at
<1>6. c \in Nat
  BY <1>4 DEF c
<1>7. DOMAIN Deduped(hits) = 1 .. c /\ Deduped(hits) = [j \in 1 .. c |-> Deduped(hits)[j]]
  BY <1>5
<1> QED
  BY <1>6, <1>7, FunctionIsSeq

(* Elements mapped one by one.                                             *)
LEMMA MappedIsSeq ==
  ASSUME NEW s, NEW t, IsSeq(s), DOMAIN t = DOMAIN s, t = [n \in DOMAIN s |-> t[n]]
  PROVE  IsSeq(t) /\ (s # <<>> => DOMAIN t # {})
<1> DEFINE S == ToSet(s)
<1>1. s \in Seq(S)
  BY DEF IsSeq
<1> HIDE DEF S
<1>2. Len(s) \in Nat /\ DOMAIN s = 1 .. Len(s)
  BY <1>1
<1>3. s # <<>> => 1 \in DOMAIN s
  BY <1>1, <1>2
<1>4. IsSeq(t)
  BY <1>2, FunctionIsSeq
<1> QED
  BY <1>3, <1>4

(* What a specialist contributes has its own key as the source.            *)
LEMMA ItemsOfOne ==
  ASSUME NEW k \in Collectors, NEW hits \in Results[k]
  PROVE  IsItems(Items(k, hits)) /\ Sources(Items(k, hits)) \subseteq {k}
<1> DEFINE kept == CASE k = OBSERVABILITY -> First(OBS_MAX_ITEMS, hits)
                     [] k = CODE          -> Deduped(hits)
                     [] OTHER             -> hits
<1>1. IsSeq(hits)
  <2>1. hits \in Seq(Nat)
    BY PackAssumption
  <2> QED
    BY <2>1, TypedIsSeq
<1>2. IsSeq(kept)
  <2>1. OBS_MAX_ITEMS \in Nat
    BY PackAssumption
  <2>2. IsSeq(First(OBS_MAX_ITEMS, hits)) /\ IsSeq(Deduped(hits))
    BY <1>1, <2>1, FirstIsSeq, DedupedIsSeq
  <2> QED
    BY <1>1, <2>2
<1>3. Items(k, hits) = [n \in DOMAIN kept |-> [k |-> k, key |-> kept[n]]]
  BY DEF Items
<1> HIDE DEF kept
<1>4. /\ DOMAIN Items(k, hits) = DOMAIN kept
      /\ Items(k, hits) = [n \in DOMAIN kept |-> Items(k, hits)[n]]
      /\ \A n \in DOMAIN kept : Items(k, hits)[n].k = k /\ IsItem(Items(k, hits)[n])
  BY <1>3 DEF IsItem
<1>5. IsSeq(Items(k, hits))
  BY <1>2, <1>4, MappedIsSeq
<1> QED
  BY <1>4, <1>5 DEF IsItems, Sources, ToSet

(* Rows have the source of their item and the incident they are made for.  *)
LEMMA RowsOfItems ==
  ASSUME NEW i, NEW at, NEW items, IsSeq(items), NEW rows,
         rows = [n \in DOMAIN items |-> Row(i, items[n], at)]
  PROVE  /\ IsSeq(rows) /\ Sources(rows) = Sources(items)
         /\ \A row \in ToSet(rows) : row.inc = i
<1>1. DOMAIN rows = DOMAIN items /\ rows = [n \in DOMAIN items |-> rows[n]]
  OBVIOUS
<1>2. \A n \in DOMAIN items : rows[n].inc = i /\ rows[n].k = items[n].k
  BY DEF Row
<1> QED
  BY <1>1, <1>2, MappedIsSeq DEF Sources, ToSet

(* A contribution is a source.                                             *)
LEMMA SourceOfItems ==
  ASSUME NEW k, NEW items, IsSeq(items), Sources(items) \subseteq {k}
  PROVE  Sources(items) = IF items = <<>> THEN {} ELSE {k}
  BY NoElements DEF Sources

(* The sources of a concatenation.                                         *)
LEMMA ConcatSources ==
  ASSUME NEW s, NEW t, IsSeq(s), IsSeq(t)
  PROVE  Sources(s \o t) = Sources(s) \cup Sources(t)
  BY ConcatIsSeq DEF Sources

---------------------------------------------------------------------------
(* The invariant.                                                          *)

IsRun(r) ==
  r = [pc |-> r.pc, id |-> r.id, hops |-> r.hops, todo |-> r.todo, got |-> r.got,
       failed |-> r.failed, pack |-> r.pack, tries |-> r.tries]

IsThread(t) ==
  t = [evidence |-> t.evidence, failed |-> t.failed, status |-> t.status, cites |-> t.cites,
       late |-> t.late]

Got(got) ==
  /\ got = [k \in Collectors |-> got[k]]
  /\ \A k \in Collectors : IsItems(got[k]) /\ Sources(got[k]) \subseteq {k}

Threads ==
  /\ threads = [i \in Incidents |-> threads[i]]
  /\ \A i \in Incidents : IsThread(threads[i]) /\ IsItems(threads[i].evidence)

GenerationShape ==
  /\ IsRun(run) /\ Got(run.got)
  /\ run.pc # "idle" => run.id \in Incidents
  /\ Threads
  /\ IsSeq(recorded)

(* The collectors the commander asks for before it synthesizes.            *)
Needed(sc) == IF first_specialist(sc) = FANOUT THEN DB_REQUIRED ELSE {first_specialist(sc)}

(* A thread was not collected for yet, or all it needs has contributed or  *)
(* failed.                                                                 *)
Fresh(t) == t.evidence = <<>> /\ t.failed = {}
Settled(i, t) == Needed(Scenario[i]) \subseteq Sources(t.evidence) \cup t.failed

ThreadsSettle == \A i \in Incidents : Fresh(threads[i]) \/ Settled(i, threads[i])

(* Until a synthesis an attempt is running, whatever the commander decides. *)
StillRunning == run.pc \in {"commander", "specialists"} => Current.status = "running"

Contributed(got) == {k \in Collectors : got[k] # <<>>}

(* A super-step is for a fresh thread and for all it needs.                *)
CollectedOnce ==
  /\ run.pc # "specialists" => Contributed(run.got) = {}
  /\ run.pc = "specialists" =>
       /\ Fresh(Current)
       /\ Needed(Scenario[run.id]) \subseteq run.todo \cup Contributed(run.got) \cup run.failed

(* The hypotheses of SourcesAreShown that do not look at the pack.         *)
Recording == ~leftover /\ run.id \notin unrecorded

(* What is collected is recorded, unless nothing is.                       *)
RecorderCovers ==
  Recording =>
    /\ run.pc = "specialists" => Contributed(run.got) \subseteq Sources(recorded)
    /\ run.pc \in {"commander", "synthesize"} =>
         recorded = <<>> \/ Sources(Current.evidence) \subseteq Sources(recorded)

(* The recorder holds rows of the attempt in progress.                     *)
RecorderIsOwn ==
  ~leftover =>
    /\ run.pc = "idle" => recorded = <<>>
    /\ \A row \in ToSet(recorded) : row.inc = run.id

GenerationInv ==
  /\ GenerationShape
  /\ ThreadsSettle
  /\ StillRunning
  /\ CollectedOnce
  /\ RecorderCovers
  /\ RecorderIsOwn
  /\ GroundedOrEscalated
  /\ PackIsOwn
  /\ SourcesAreShown

---------------------------------------------------------------------------
(* The commander.                                                          *)

(* The commander's decision is one of NextAction.                          *)
LEMMA DecisionIsKnown ==
  ASSUME NEW sc, NEW hops, NEW evidence, NEW late, NEW failed
  PROVE  next_action(sc, hops, evidence, late, failed).next \in NextAction
<1> DEFINE specialist == first_specialist(sc)
<1>1. specialist \in NextAction
  BY DEF first_specialist, NextAction, Collectors, ESCALATE, FANOUT, CODE, OBSERVABILITY,
         KNOWLEDGE, OBS_FIRST
<1>2. fanout_or_remaining(evidence) \in NextAction
  BY DEF fanout_or_remaining, NextAction, Collectors, SYNTHESIZE, FANOUT, KNOWLEDGE,
         OBSERVABILITY, CODE
<1> HIDE DEF specialist
<1> QED
  BY <1>1, <1>2 DEF next_action, PlanDecision, NextAction, ESCALATE, SYNTHESIZE, specialist

(* With nothing collected the commander asks for all it needs, or leaves   *)
(* the cycle.                                                              *)
LEMMA FreshDecision ==
  ASSUME NEW sc, NEW hops, NEW late, NEW failed
  PROVE  LET next == next_action(sc, hops, {}, late, failed).next
         IN  /\ next = FANOUT => Needed(sc) \subseteq DB_REQUIRED
             /\ next \in Collectors => Needed(sc) \subseteq {next}
<1> DEFINE specialist == first_specialist(sc)
           next == next_action(sc, hops, {}, late, failed).next
<1>1. fanout_or_remaining({}) = FANOUT
  BY DEF fanout_or_remaining, DB_REQUIRED, KNOWLEDGE, OBSERVABILITY, FANOUT, SYNTHESIZE
<1>2. /\ ESCALATE # FANOUT /\ SYNTHESIZE # FANOUT
      /\ ESCALATE \notin Collectors /\ SYNTHESIZE \notin Collectors /\ FANOUT \notin Collectors
  BY DEF Collectors, ESCALATE, SYNTHESIZE, FANOUT, KNOWLEDGE, OBSERVABILITY, CODE
<1>3. Needed(sc) = IF specialist = FANOUT THEN DB_REQUIRED ELSE {specialist}
  BY DEF Needed
<1> HIDE DEF specialist
<1>4. \/ next = ESCALATE
      \/ next = SYNTHESIZE
      \/ specialist = FANOUT /\ next = FANOUT
      \/ specialist # FANOUT /\ next = specialist
  BY <1>1 DEF next_action, PlanDecision, specialist
<1> HIDE DEF next
<1> QED
  BY <1>2, <1>3, <1>4 DEF next

(* Once all it needs has contributed or failed, it leaves the cycle.       *)
LEMMA SettledDecision ==
  ASSUME NEW sc, NEW hops, NEW evidence, NEW late, NEW failed,
         Needed(sc) \subseteq evidence \cup failed
  PROVE  next_action(sc, hops, evidence, late, failed).next \in {SYNTHESIZE, ESCALATE}
<1> DEFINE specialist == first_specialist(sc)
<1>1. CASE specialist = FANOUT
  <2>1. DB_REQUIRED \subseteq evidence \cup failed
    BY <1>1 DEF Needed
  <2>2. sc = "db_exhaustion"
    BY <1>1 DEF first_specialist, FANOUT, ESCALATE, CODE, OBSERVABILITY, KNOWLEDGE
  <2>3. enough_evidence(sc, evidence) \/ failure_blocks(specialist, failed, evidence)
    BY <1>1, <2>1, <2>2 DEF enough_evidence, failure_blocks
  <2> HIDE DEF specialist
  <2> QED
    BY <2>3 DEF next_action, PlanDecision, specialist
<1>2. CASE specialist # FANOUT
  <2>1. specialist \in evidence \cup failed
    BY <1>2 DEF Needed
  <2>2. specialist \in failed => failure_blocks(specialist, failed, evidence)
    BY <1>2 DEF failure_blocks
  <2> HIDE DEF specialist
  <2> QED
    BY <1>2, <2>1, <2>2 DEF next_action, PlanDecision, specialist
<1> QED
  BY <1>1, <1>2

---------------------------------------------------------------------------
(* The steps.                                                              *)

(* NoRun has the shape of a run, and nothing in it.                        *)
LEMMA NoRunShape ==
  IsRun(NoRun) /\ Got(NoRun.got) /\ Contributed(NoRun.got) = {} /\ NoRun.pc = "idle"
<1>1. NoRun.got = [k \in Collectors |-> <<>>]
  BY DEF NoRun
<1>2. \A k \in Collectors : NoRun.got[k] = <<>>
  BY <1>1
<1>3. IsRun(NoRun) /\ NoRun.pc = "idle"
  BY DEF NoRun, IsRun
<1>4. Sources(<<>>) = {}
  BY EmptyIsSeq DEF Sources
<1>5. Got(NoRun.got)
  BY <1>1, <1>2, <1>4, ListsOfItems DEF Got
<1> QED
  BY <1>2, <1>3, <1>5 DEF Contributed

(* NoThread is fresh.                                                      *)
LEMMA NoThreadShape == IsThread(NoThread) /\ IsItems(NoThread.evidence) /\ Fresh(NoThread)
<1>1. NoThread.evidence = <<>> /\ NoThread.failed = {}
  BY DEF NoThread
<1>2. IsThread(NoThread)
  BY DEF NoThread, IsThread
<1> QED
  BY <1>1, <1>2, ListsOfItems DEF Fresh

(* GenerationInv holds in the initial states.                              *)
LEMMA GenerationInvInit == Init => GenerationInv
<1> SUFFICES ASSUME Init PROVE GenerationInv
  OBVIOUS
<1>1. run = NoRun /\ recorded = <<>> /\ threads = [i \in Incidents |-> NoThread]
  BY DEF Init
<1>2. \A i \in Incidents : threads[i] = NoThread
  BY <1>1
<1>3. GenerationShape
  BY <1>1, <1>2, NoRunShape, NoThreadShape, EmptyIsSeq DEF GenerationShape, Threads
<1>4. ThreadsSettle
  BY <1>2, NoThreadShape DEF ThreadsSettle
<1>5. run.pc = "idle" /\ Contributed(run.got) = {} /\ ToSet(recorded) = {}
  BY <1>1, NoRunShape, EmptyIsSeq
<1> QED
  BY <1>1, <1>3, <1>4, <1>5 DEF GenerationInv, CollectedOnce, RecorderCovers, RecorderIsOwn,
      StillRunning, GroundedOrEscalated, PackIsOwn, SourcesAreShown

(* The steps that end an attempt leave an empty recorder or say that it is *)
(* not.                                                                    *)
LEMMA EndKeeps ==
  ASSUME GenerationInv, ModelRaises \/ Commit \/ Rollback \/ Crash
  PROVE  GenerationInv'
<1>1. run' = NoRun /\ (leftover' \/ recorded' = <<>>) /\ recorded' \in {recorded, <<>>}
  BY DEF ModelRaises, Commit, Rollback, Crash, Drained
<1>2. threads' = threads \/ threads' = [i \in Incidents |-> NoThread]
  BY DEF ModelRaises, Commit, Rollback, Crash
<1>3. IsSeq(recorded')
  BY <1>1, EmptyIsSeq DEF GenerationInv, GenerationShape
<1>4. Threads' /\ ThreadsSettle'
  <2>1. CASE threads' = threads
    BY <2>1 DEF GenerationInv, GenerationShape, Threads, ThreadsSettle
  <2>2. CASE threads' = [i \in Incidents |-> NoThread]
    <3>1. \A i \in Incidents : threads'[i] = NoThread
      BY <2>2
    <3> QED
      BY <2>2, <3>1, NoThreadShape DEF Threads, ThreadsSettle
  <2> QED
    BY <1>2, <2>1, <2>2
<1>5. GenerationShape'
  BY <1>1, <1>3, <1>4, NoRunShape DEF GenerationShape
<1>6. run'.pc = "idle" /\ Contributed(run'.got) = {}
  BY <1>1, NoRunShape
<1> QED
  BY <1>1, <1>4, <1>5, <1>6, EmptyIsSeq DEF GenerationInv, CollectedOnce, RecorderCovers,
      StillRunning, RecorderIsOwn, GroundedOrEscalated, PackIsOwn, SourcesAreShown

(* A new attempt starts with an empty recorder.                            *)
LEMMA StartKeeps ==
  ASSUME GenerationInv, NEW i \in Incidents, Start(i)
  PROVE  GenerationInv'
<1>1. /\ run.pc = "idle" /\ run' = [NoRun EXCEPT !.pc = "commander", !.id = i]
      /\ recorded' = recorded /\ leftover' = leftover /\ unrecorded' = unrecorded
  BY DEF Start
<1>2. IsRun(run') /\ run'.pc = "commander" /\ run'.id = i /\ run'.got = NoRun.got
  BY <1>1 DEF IsRun, NoRun
<1> DEFINE t == [threads[i] EXCEPT !.status = "running"]
<1>3. IsThread(threads[i]) /\ threads = [j \in Incidents |-> threads[j]]
  BY DEF GenerationInv, GenerationShape, Threads
<1>4. /\ IsThread(t) /\ t.evidence = threads[i].evidence /\ t.failed = threads[i].failed
      /\ t.status = "running"
  BY <1>3 DEF IsThread
<1>5. threads' = [threads EXCEPT ![i] = t]
  BY DEF Start
<1> HIDE DEF t
<1>6. /\ threads' = [j \in Incidents |-> threads'[j]] /\ threads'[i] = t
      /\ \A j \in Incidents : j # i => threads'[j] = threads[j]
  BY <1>3, <1>5
<1>7. Threads' /\ ThreadsSettle'
  BY <1>4, <1>6 DEF GenerationInv, GenerationShape, Threads, ThreadsSettle, Fresh, Settled
<1>8. GenerationShape'
  BY <1>1, <1>2, <1>7, NoRunShape DEF GenerationInv, GenerationShape
<1>9. ~leftover => recorded = <<>>
  BY <1>1 DEF GenerationInv, RecorderIsOwn
<1>10. CollectedOnce' /\ RecorderCovers' /\ RecorderIsOwn'
  BY <1>1, <1>2, <1>9, NoRunShape, EmptyIsSeq DEF CollectedOnce, RecorderCovers, RecorderIsOwn,
      Recording
<1> QED
  BY <1>2, <1>4, <1>6, <1>7, <1>8, <1>10
     DEF GenerationInv, StillRunning, GroundedOrEscalated, PackIsOwn, SourcesAreShown, Current

(* The clock changes nothing that is looked at here.                       *)
LEMMA TimeKeeps ==
  ASSUME GenerationInv, NEW i \in Incidents, TimePasses(i)
  PROVE  GenerationInv'
<1>1. /\ run' = run /\ recorded' = recorded /\ leftover' = leftover /\ unrecorded' = unrecorded
  BY DEF TimePasses
<1> DEFINE t == [threads[i] EXCEPT !.late = TRUE]
<1>2. IsThread(threads[i]) /\ threads = [j \in Incidents |-> threads[j]]
  BY DEF GenerationInv, GenerationShape, Threads
<1>3. /\ IsThread(t) /\ t.evidence = threads[i].evidence /\ t.failed = threads[i].failed
      /\ t.status = threads[i].status /\ t.cites = threads[i].cites
  <2>1. ASSUME NEW late
        PROVE  LET u == [threads[i] EXCEPT !.late = late]
               IN  /\ IsThread(u) /\ u.evidence = threads[i].evidence
                   /\ u.failed = threads[i].failed
                   /\ u.status = threads[i].status /\ u.cites = threads[i].cites
    BY <1>2 DEF IsThread
  <2> QED
    BY <2>1, Zenon
<1>4. threads' = [threads EXCEPT ![i] = t]
  BY DEF TimePasses
<1> HIDE DEF t
<1>5. /\ threads' = [j \in Incidents |-> threads'[j]] /\ threads'[i] = t
      /\ \A j \in Incidents : j # i => threads'[j] = threads[j]
  BY <1>2, <1>4
<1>6. Threads' /\ ThreadsSettle'
  BY <1>3, <1>5 DEF GenerationInv, GenerationShape, Threads, ThreadsSettle, Fresh, Settled
<1>7. GenerationShape'
  BY <1>1, <1>6 DEF GenerationInv, GenerationShape
<1>8. run.pc # "idle" =>
        /\ Current'.evidence = Current.evidence /\ Current'.failed = Current.failed
        /\ Current'.status = Current.status /\ Current'.cites = Current.cites
  BY <1>1, <1>3, <1>5 DEF GenerationInv, GenerationShape, Current
<1>9. CollectedOnce' /\ RecorderCovers' /\ RecorderIsOwn'
  BY <1>1, <1>8 DEF GenerationInv, CollectedOnce, RecorderCovers, RecorderIsOwn, Recording, Fresh
<1>10. StillRunning' /\ GroundedOrEscalated' /\ PackIsOwn' /\ SourcesAreShown'
  BY <1>1, <1>8 DEF GenerationInv, StillRunning, GroundedOrEscalated, PackIsOwn, SourcesAreShown
<1> QED
  BY <1>6, <1>7, <1>9, <1>10 DEF GenerationInv

(* The commander sends only a fresh thread to specialists, to all it needs. *)
LEMMA CommanderKeeps == GenerationInv /\ Commander => GenerationInv'
<1> SUFFICES ASSUME GenerationInv, Commander PROVE GenerationInv'
  OBVIOUS
<1> DEFINE next == next_action(Scenario[run.id], run.hops + 1, Sources(Current.evidence),
                               Current.late, Current.failed).next
           pc   == CASE next = SYNTHESIZE -> "synthesize"
                     [] next = ESCALATE   -> "ended"
                     [] OTHER             -> "specialists"
           todo == CASE next = FANOUT          -> DB_REQUIRED
                     [] next \in Collectors    -> {next}
                     [] OTHER                  -> {}
<1>1. /\ run.pc = "commander" /\ run.id \in Incidents
      /\ recorded' = recorded /\ leftover' = leftover /\ unrecorded' = unrecorded
  BY DEF Commander, GenerationInv, GenerationShape
<1>2. run' = [run EXCEPT !.hops = run.hops + 1, !.pc = pc, !.todo = todo]
  BY DEF Commander
<1>3. threads' = threads
  BY DEF Commander
<1>4. next \in NextAction
  BY DecisionIsKnown
<1>5. Fresh(Current) => /\ next = FANOUT => Needed(Scenario[run.id]) \subseteq DB_REQUIRED
                        /\ next \in Collectors => Needed(Scenario[run.id]) \subseteq {next}
  <2> SUFFICES ASSUME Fresh(Current)
               PROVE  /\ next = FANOUT => Needed(Scenario[run.id]) \subseteq DB_REQUIRED
                      /\ next \in Collectors => Needed(Scenario[run.id]) \subseteq {next}
    OBVIOUS
  <2>1. Sources(Current.evidence) = {}
    BY EmptyIsSeq DEF Fresh, Sources
  <2> QED
    BY <2>1, FreshDecision
<1>6. ~Fresh(Current) => next \in {SYNTHESIZE, ESCALATE}
  <2>1. ~Fresh(Current) =>
          Needed(Scenario[run.id]) \subseteq Sources(Current.evidence) \cup Current.failed
    BY <1>1 DEF GenerationInv, ThreadsSettle, Settled, Current
  <2> QED
    BY <2>1, SettledDecision
<1> HIDE DEF next
<1>7. SYNTHESIZE # ESCALATE /\ FANOUT \notin {SYNTHESIZE, ESCALATE}
      /\ Collectors \cap {SYNTHESIZE, ESCALATE, FANOUT} = {}
  BY DEF Collectors, ESCALATE, SYNTHESIZE, FANOUT, KNOWLEDGE, OBSERVABILITY, CODE
<1>8. /\ pc \in {"synthesize", "ended", "specialists"}
      /\ pc = "ended" => next = ESCALATE
      /\ pc = "specialists" => Fresh(Current) /\ Needed(Scenario[run.id]) \subseteq todo
  <2>1. CASE next = SYNTHESIZE
    BY <1>7, <2>1
  <2>2. CASE next = ESCALATE
    BY <1>7, <2>2
  <2>3. CASE next = FANOUT
    <3>1. pc = "specialists" /\ todo = DB_REQUIRED
      BY <1>7, <2>3
    <3> QED
      BY <1>5, <1>6, <1>7, <2>3, <3>1
  <2>4. CASE next \in Collectors
    <3>1. pc = "specialists" /\ todo = {next}
      BY <1>7, <2>4
    <3> QED
      BY <1>5, <1>6, <1>7, <2>4, <3>1
  <2> QED
    BY <1>4, <2>1, <2>2, <2>3, <2>4 DEF NextAction
<1> HIDE DEF pc, todo
<1>9. /\ IsRun(run') /\ run'.pc = pc /\ run'.id = run.id /\ run'.got = run.got
      /\ run'.todo = todo
  BY <1>2 DEF GenerationInv, GenerationShape, IsRun
<1>10. Threads' /\ ThreadsSettle'
  BY <1>3 DEF GenerationInv, GenerationShape, Threads, ThreadsSettle
<1>11. GenerationShape'
  BY <1>1, <1>9, <1>10 DEF GenerationInv, GenerationShape
<1>12. Current' = Current
  BY <1>3, <1>9 DEF Current
<1>13. StillRunning'
  BY <1>1, <1>12 DEF GenerationInv, StillRunning
<1>14. CollectedOnce' /\ RecorderIsOwn'
  BY <1>1, <1>8, <1>9, <1>12 DEF GenerationInv, CollectedOnce, RecorderIsOwn
<1>15. RecorderCovers'
  BY <1>1, <1>8, <1>9, <1>12 DEF GenerationInv, CollectedOnce, RecorderCovers, Recording
<1>16. GroundedOrEscalated' /\ PackIsOwn' /\ SourcesAreShown'
  BY <1>1, <1>8, <1>9, <1>12
     DEF GenerationInv, StillRunning, GroundedOrEscalated, PackIsOwn, SourcesAreShown
<1> QED
  BY <1>10, <1>11, <1>13, <1>14, <1>15, <1>16 DEF GenerationInv

(* A specialist that returned: its items are kept until the super-step     *)
(* ends, and then the thread is settled.                                   *)
LEMMA ReturnsKeeps ==
  ASSUME GenerationInv, run.pc = "specialists", NEW k \in Collectors, NEW items, NEW failed,
         IsItems(items), Sources(items) \subseteq {k},
         Returns(k, items, failed),
         run.failed \subseteq failed, items = <<>> => k \in failed,
         leftover' = leftover, unrecorded \subseteq unrecorded', IsSeq(recorded'),
         Sources(recorded) \subseteq Sources(recorded'),
         run.id \notin unrecorded' => Sources(items) \subseteq Sources(recorded'),
         ~leftover => \A row \in ToSet(recorded') : row.inc = run.id
  PROVE  GenerationInv'
<1> DEFINE got == [run.got EXCEPT ![k] = items]
<1>1. run.id \in Incidents /\ IsRun(run) /\ Got(run.got)
  BY DEF GenerationInv, GenerationShape
<1>2. IsThread(Current) /\ IsItems(Current.evidence) /\ threads = [j \in Incidents |-> threads[j]]
  BY <1>1 DEF GenerationInv, GenerationShape, Threads, Current
<1>3. /\ got = [c \in Collectors |-> got[c]] /\ got[k] = items
      /\ \A c \in Collectors : c # k => got[c] = run.got[c]
  BY <1>1 DEF Got
<1> HIDE DEF got
<1>4. Got(got)
  BY <1>1, <1>3 DEF Got
<1>5. /\ Contributed(got) \subseteq Contributed(run.got) \cup {k}
      /\ Contributed(run.got) \subseteq Contributed(got) \cup {k}
      /\ k \in Contributed(got) <=> items # <<>>
  BY <1>3 DEF Contributed
<1>6. /\ Fresh(Current)
      /\ Needed(Scenario[run.id]) \subseteq run.todo \cup Contributed(run.got) \cup run.failed
  BY DEF GenerationInv, CollectedOnce
<1>7. Needed(Scenario[run.id]) \subseteq (run.todo \ {k}) \cup Contributed(got) \cup failed
  BY <1>5, <1>6
<1>8. Recording' /\ run'.id = run.id => Contributed(got) \subseteq Sources(recorded')
  <2> SUFFICES ASSUME Recording', run'.id = run.id, NEW c \in Contributed(got)
               PROVE  c \in Sources(recorded')
    OBVIOUS
  <2>1. Recording /\ run.id \notin unrecorded'
    BY DEF Recording
  <2>2. CASE c = k
    <3>1. Sources(items) = {k}
      BY <1>5, <2>2, SourceOfItems DEF IsItems
    <3> QED
      BY <2>1, <2>2, <3>1
  <2>3. CASE c # k
    <3>1. c \in Contributed(run.got)
      BY <1>5, <2>3
    <3>2. Contributed(run.got) \subseteq Sources(recorded)
      BY <2>1 DEF GenerationInv, RecorderCovers
    <3> QED
      BY <3>1, <3>2
  <2> QED
    BY <2>2, <2>3
<1>9. CASE run.todo \ {k} # {}
  <2>1. /\ run' = [run EXCEPT !.todo = run.todo \ {k}, !.got = got, !.failed = failed]
        /\ threads' = threads
    BY <1>9 DEF Returns, got
  <2>2. /\ IsRun(run') /\ run'.pc = "specialists" /\ run'.id = run.id /\ run'.got = got
        /\ run'.todo = run.todo \ {k} /\ run'.failed = failed
    BY <1>1, <2>1 DEF IsRun
  <2>3. GenerationShape' /\ ThreadsSettle'
    BY <1>1, <1>4, <2>1, <2>2 DEF GenerationInv, GenerationShape, Threads, ThreadsSettle
  <2>4. CollectedOnce' /\ RecorderIsOwn' /\ RecorderCovers'
    BY <1>6, <1>7, <1>8, <2>1, <2>2 DEF CollectedOnce, RecorderIsOwn, RecorderCovers, Current
  <2>5. StillRunning'
    BY <2>1, <2>2 DEF GenerationInv, StillRunning, Current
  <2> QED
    BY <2>2, <2>3, <2>4, <2>5 DEF GenerationInv, GroundedOrEscalated, PackIsOwn, SourcesAreShown
<1>10. CASE run.todo \ {k} = {}
  <2> DEFINE evidence == Current.evidence \o got[OBSERVABILITY] \o got[KNOWLEDGE] \o got[CODE]
             t == [Current EXCEPT !.evidence = evidence, !.failed = Current.failed \cup failed]
  <2>1. /\ run' = [run EXCEPT !.pc = "commander", !.todo = {}, !.got = NoRun.got, !.failed = {}]
        /\ threads' = [threads EXCEPT ![run.id] = t]
    BY <1>10 DEF Returns, got, SetCurrent
  <2>2. IsRun(run') /\ run'.pc = "commander" /\ run'.id = run.id /\ run'.got = NoRun.got
    BY <1>1, <2>1 DEF IsRun
  <2>3. IsItems(evidence) /\ Sources(evidence) = Contributed(got)
    <3>1. \A c \in Collectors : IsItems(got[c]) /\ Sources(got[c]) = IF got[c] = <<>> THEN {} ELSE {c}
      BY <1>4, SourceOfItems DEF Got, IsItems
    <3>2. Collectors = {OBSERVABILITY, KNOWLEDGE, CODE}
      BY DEF Collectors
    <3>3. Sources(Current.evidence) = {}
      BY <1>6, EmptyIsSeq DEF Fresh, Sources
    <3> DEFINE e1 == Current.evidence \o got[OBSERVABILITY]
               e2 == e1 \o got[KNOWLEDGE]
    <3>4. IsItems(e1) /\ Sources(e1) = Sources(got[OBSERVABILITY])
      <4>1. IsItems(got[OBSERVABILITY]) /\ IsItems(Current.evidence)
        BY <1>2, <3>1, <3>2
      <4>2. IsItems(e1)
        BY <4>1, ListsOfItems
      <4>3. Sources(e1) = Sources(Current.evidence) \cup Sources(got[OBSERVABILITY])
        BY <4>1, ConcatSources DEF IsItems
      <4> HIDE DEF e1
      <4> QED
        BY <3>3, <4>2, <4>3
    <3> HIDE DEF e1
    <3>5. IsItems(e2) /\ Sources(e2) = Sources(e1) \cup Sources(got[KNOWLEDGE])
      BY <3>1, <3>2, <3>4, ListsOfItems, ConcatSources DEF IsItems
    <3> HIDE DEF e2
    <3>6. IsItems(evidence) /\ Sources(evidence) = Sources(e2) \cup Sources(got[CODE])
      <4>1. evidence = e2 \o got[CODE]
        BY DEF e1, e2
      <4> HIDE DEF evidence
      <4> QED
        BY <3>1, <3>2, <3>5, <4>1, ListsOfItems, ConcatSources DEF IsItems
    <3> HIDE DEF evidence
    <3>7. Sources(evidence) = UNION {Sources(got[c]) : c \in Collectors}
      BY <3>2, <3>4, <3>5, <3>6
    <3>8. ASSUME NEW c \in Collectors, NEW x PROVE x \in Sources(got[c]) <=> c \in Contributed(got) /\ x = c
      <4>1. CASE got[c] = <<>>
        BY <3>1, <4>1 DEF Contributed
      <4>2. CASE got[c] # <<>>
        BY <3>1, <4>2 DEF Contributed
      <4> QED
        BY <4>1, <4>2
    <3>9. Contributed(got) \subseteq Collectors
      BY DEF Contributed
    <3>10. UNION {Sources(got[c]) : c \in Collectors} \subseteq Contributed(got)
      BY <3>8
    <3>11. ASSUME NEW c \in Contributed(got) PROVE c \in UNION {Sources(got[d]) : d \in Collectors}
      <4>1. c \in Collectors /\ c \in Sources(got[c])
        BY <3>8, <3>9
      <4> QED
        BY <4>1
    <3> QED
      BY <3>6, <3>7, <3>10, <3>11
  <2> HIDE DEF evidence
  <2>4. /\ IsThread(t) /\ t.evidence = evidence /\ t.failed = Current.failed \cup failed
        /\ t.status = Current.status
    <3> DEFINE all == Current.failed \cup failed
    <3>1. t = [Current EXCEPT !.evidence = evidence, !.failed = all]
      OBVIOUS
    <3> HIDE DEF all, t
    <3>2. IsThread(t) /\ t.evidence = evidence /\ t.failed = all /\ t.status = Current.status
      BY <1>2, <3>1 DEF IsThread
    <3> QED
      BY <3>2 DEF all
  <2> HIDE DEF t
  <2>5. /\ threads' = [j \in Incidents |-> threads'[j]] /\ threads'[run.id] = t
        /\ \A j \in Incidents : j # run.id => threads'[j] = threads[j]
    BY <1>1, <1>2, <2>1
  <2>6. Settled(run.id, t)
    BY <1>7, <1>10, <2>3, <2>4 DEF Settled
  <2>7. Threads' /\ ThreadsSettle'
    BY <2>3, <2>4, <2>5, <2>6 DEF GenerationInv, GenerationShape, Threads, ThreadsSettle
  <2>8. GenerationShape'
    BY <1>1, <2>2, <2>7, NoRunShape DEF GenerationShape
  <2>9. Current' = t
    BY <2>2, <2>5 DEF Current
  <2>10. CollectedOnce' /\ RecorderIsOwn' /\ RecorderCovers'
    BY <1>8, <2>2, <2>3, <2>4, <2>9, NoRunShape DEF CollectedOnce, RecorderIsOwn, RecorderCovers
  <2>11. StillRunning'
    BY <2>4, <2>9 DEF GenerationInv, StillRunning
  <2> QED
    BY <2>2, <2>7, <2>8, <2>10, <2>11 DEF GenerationInv, GroundedOrEscalated, PackIsOwn, SourcesAreShown
<1> QED
  BY <1>9, <1>10

(* A specialist records what it contributes, or is noted as unrecorded, or *)
(* fails.                                                                  *)
LEMMA CollectKeeps ==
  ASSUME GenerationInv, NEW k \in Collectors, Collect(k) \/ CollectFails(k)
  PROVE  GenerationInv'
<1>1. run.pc = "specialists" /\ IsSeq(recorded) /\ leftover' = leftover
  BY DEF Collect, CollectFails, GenerationInv, GenerationShape
<1>2. ~leftover => \A row \in ToSet(recorded) : row.inc = run.id
  BY DEF GenerationInv, RecorderIsOwn
<1>3. CASE Collect(k)
  <2>1. PICK hits \in Results[k] :
          LET items == Items(k, hits)
              rows  == [n \in DOMAIN items |-> Row(run.id, items[n], attempts[run.id])]
          IN  /\ items # <<>>
              /\ Returns(k, items, run.failed)
              /\ \/ recorded' = recorded \o rows /\ UNCHANGED unrecorded
                 \/ unrecorded' = unrecorded \cup {run.id} /\ UNCHANGED recorded
    BY <1>3 DEF Collect
  <2> DEFINE items == Items(k, hits)
             rows  == [n \in DOMAIN items |-> Row(run.id, items[n], attempts[run.id])]
  <2>2. IsItems(items) /\ Sources(items) \subseteq {k}
    BY ItemsOfOne
  <2>3. items # <<>> /\ Returns(k, items, run.failed)
    BY <2>1
  <2>4. \/ recorded' = recorded \o rows /\ unrecorded' = unrecorded
        \/ unrecorded' = unrecorded \cup {run.id} /\ recorded' = recorded
    BY <2>1
  <2> HIDE DEF items
  <2>5. /\ IsSeq(rows) /\ Sources(rows) = Sources(items)
        /\ \A row \in ToSet(rows) : row.inc = run.id
    BY <2>2, RowsOfItems DEF IsItems
  <2> HIDE DEF rows
  <2>6. /\ IsSeq(recorded \o rows) /\ ToSet(recorded \o rows) = ToSet(recorded) \cup ToSet(rows)
        /\ Sources(recorded \o rows) = Sources(recorded) \cup Sources(rows)
    BY <1>1, <2>5, ConcatIsSeq, ConcatSources
  <2>7. /\ unrecorded \subseteq unrecorded' /\ IsSeq(recorded')
        /\ Sources(recorded) \subseteq Sources(recorded')
        /\ run.id \notin unrecorded' => Sources(items) \subseteq Sources(recorded')
        /\ ~leftover => \A row \in ToSet(recorded') : row.inc = run.id
    BY <1>1, <1>2, <2>4, <2>5, <2>6
  <2> QED
    BY <1>1, <2>2, <2>3, <2>7, ReturnsKeeps
<1>4. CASE CollectFails(k)
  <2>1. /\ Returns(k, <<>>, run.failed \cup {k})
        /\ recorded' = recorded /\ unrecorded' = unrecorded
    BY <1>4 DEF CollectFails
  <2>2. IsItems(<<>>) /\ Sources(<<>>) = {}
    BY EmptyIsSeq, ListsOfItems DEF Sources
  <2> DEFINE items == <<>>
  <2> HIDE DEF items
  <2>3. IsItems(items) /\ Sources(items) = {} /\ Returns(k, items, run.failed \cup {k})
    BY <2>1, <2>2 DEF items
  <2> QED
    BY <1>1, <1>2, <2>1, <2>3, ReturnsKeeps
<1> QED
  BY <1>3, <1>4

(* Equal intervals have equal ends.                                        *)
LEMMA SameInterval ==
  ASSUME NEW a \in Nat, NEW b \in Nat, 1 .. a = 1 .. b
  PROVE  a = b
<1>1. ASSUME NEW x \in Nat, NEW y \in Nat, x < y PROVE 1 .. x # 1 .. y
  <2>1. y \in 1 .. y /\ y \notin 1 .. x
    BY <1>1
  <2> QED
    BY <2>1
<1>2. ~(a < b) /\ ~(b < a)
  BY <1>1
<1> QED
  BY <1>2

(* A pack that is not full shows every source of the thread.               *)
LEMMA PackShowsSources ==
  ASSUME NEW i, IsSeq(recorded), IsItems(threads[i].evidence),
         recorded = <<>> \/ Sources(threads[i].evidence) \subseteq Sources(recorded),
         Len(PackOf(i)) < MAX_PACK_ITEMS
  PROVE  Sources(threads[i].evidence) \subseteq Sources(PackOf(i))
<1>1. MAX_PACK_ITEMS \in Nat
  BY PackAssumption
<1>2. CASE recorded # <<>>
  <2>1. PackOf(i) = First(MAX_PACK_ITEMS, recorded)
    BY <1>2 DEF PackOf, pack_from_evidence_rows
  <2>2. PackOf(i) = recorded
    BY <1>1, <2>1, FirstIsSeq
  <2> QED
    BY <1>2, <2>2
<1>3. CASE recorded = <<>>
  <2> DEFINE items == threads[i].evidence
             pack == PackOf(i)
  <2>1. pack = [n \in DOMAIN First(MAX_PACK_ITEMS, items) |-> Row(i, [items[n] EXCEPT !.key = n], 0)]
    BY <1>3 DEF PackOf, pack_from_graph_evidence
  <2> HIDE DEF items, pack
  <2>2. IsSeq(First(MAX_PACK_ITEMS, items)) /\ IsSeq(items)
    BY <1>1, FirstIsSeq DEF items, IsItems
  <2>3. DOMAIN pack = DOMAIN First(MAX_PACK_ITEMS, items)
    BY <2>1
  <2>4. Len(pack) = Len(First(MAX_PACK_ITEMS, items))
    <3> DEFINE f == First(MAX_PACK_ITEMS, items)
               F == ToSet(f)
               P == ToSet(pack)
    <3>1. f \in Seq(F)
      BY <2>2 DEF IsSeq
    <3>2. pack \in Seq(P)
      <4>1. pack = [n \in DOMAIN f |-> pack[n]]
        BY <2>1
      <4> QED
        BY <2>2, <2>3, <4>1, MappedIsSeq DEF IsSeq
    <3> HIDE DEF f, F, P
    <3>3. DOMAIN f = 1 .. Len(f) /\ DOMAIN pack = 1 .. Len(pack) /\ Len(f) \in Nat /\ Len(pack) \in Nat
      BY <3>1, <3>2
    <3>4. DOMAIN pack = DOMAIN f
      BY <2>3 DEF f
    <3>7. Len(pack) = Len(f)
      BY <3>3, <3>4, SameInterval
    <3> QED
      BY <3>7 DEF f
  <2>5. First(MAX_PACK_ITEMS, items) = items
    BY <1>1, <2>2, <2>4, FirstIsSeq DEF pack
  <2>6. \A n \in DOMAIN items : IsItem(items[n])
    BY DEF IsItems, ToSet, items
  <2>7. \A n \in DOMAIN items : [items[n] EXCEPT !.key = n].k = items[n].k
    BY <2>6 DEF IsItem
  <2>8. \A n \in DOMAIN items : n \in DOMAIN pack /\ pack[n].k = items[n].k
    BY <2>1, <2>3, <2>5, <2>7 DEF Row
  <2> QED
    BY <2>8 DEF Sources, ToSet, items, pack
<1> QED
  BY <1>2, <1>3

(* The pack is of one incident when the recorder is.                       *)
LEMMA PackOfOne ==
  ASSUME NEW i, IsSeq(recorded), \A row \in ToSet(recorded) : row.inc = i
  PROVE  \A row \in ToSet(PackOf(i)) : row.inc = i
<1>1. MAX_PACK_ITEMS \in Nat
  BY PackAssumption
<1>2. CASE recorded # <<>>
  <2>1. PackOf(i) = First(MAX_PACK_ITEMS, recorded)
    BY <1>2 DEF PackOf, pack_from_evidence_rows
  <2> QED
    BY <1>1, <2>1, FirstIsSeq
<1>3. CASE recorded = <<>>
  <2> DEFINE items == threads[i].evidence
             pack  == PackOf(i)
  <2>1. pack = [n \in DOMAIN First(MAX_PACK_ITEMS, items) |-> Row(i, [items[n] EXCEPT !.key = n], 0)]
    BY <1>3 DEF PackOf, pack_from_graph_evidence
  <2> HIDE DEF items, pack
  <2>2. \A n \in DOMAIN pack : pack[n].inc = i
    BY <2>1 DEF Row
  <2> QED
    BY <2>2 DEF ToSet, pack
<1> QED
  BY <1>2, <1>3

(* A step that keeps the recorder, the current thread's evidence and its   *)
(* failures, outside a super-step.                                         *)
LEMMA GraphStepKeeps ==
  ASSUME GenerationInv, run.pc \in {"synthesize", "ask"}, NEW t, NEW pc, pc \in {"ask", "ended"},
         IsRun(run'), run'.pc = pc, run'.id = run.id, run'.got = run.got,
         IsThread(t), t.evidence = Current.evidence, t.failed = Current.failed,
         threads' = [threads EXCEPT ![run.id] = t],
         UNCHANGED <<recorded, unrecorded, leftover>>
  PROVE  /\ GenerationShape' /\ ThreadsSettle' /\ CollectedOnce' /\ RecorderCovers'
         /\ RecorderIsOwn' /\ StillRunning' /\ Current' = t
<1>1. /\ run.id \in Incidents /\ threads = [j \in Incidents |-> threads[j]]
      /\ run'.pc \notin {"idle", "commander", "specialists", "synthesize"}
  BY DEF GenerationInv, GenerationShape, Threads
<1>2. /\ threads' = [j \in Incidents |-> threads'[j]] /\ threads'[run.id] = t
      /\ \A j \in Incidents : j # run.id => threads'[j] = threads[j]
  BY <1>1
<1>3. Threads' /\ ThreadsSettle'
  BY <1>2 DEF GenerationInv, GenerationShape, Threads, ThreadsSettle, Fresh, Settled, Current
<1>4. GenerationShape'
  BY <1>1, <1>3 DEF GenerationInv, GenerationShape
<1>5. CollectedOnce' /\ RecorderCovers' /\ RecorderIsOwn' /\ StillRunning'
  BY <1>1 DEF GenerationInv, CollectedOnce, RecorderCovers, RecorderIsOwn, StillRunning
<1>6. Current' = t
  BY <1>2 DEF Current
<1> QED
  BY <1>3, <1>4, <1>5, <1>6

(* What the model is asked about is the pack of this attempt.              *)
LEMMA SynthesizeKeeps == GenerationInv /\ Synthesize => GenerationInv'
<1> SUFFICES ASSUME GenerationInv, Synthesize PROVE GenerationInv'
  OBVIOUS
<1>1. /\ run.pc = "synthesize" /\ run.id \in Incidents /\ IsRun(run) /\ IsSeq(recorded)
      /\ UNCHANGED <<recorded, unrecorded, leftover>>
  BY DEF Synthesize, GenerationInv, GenerationShape
<1>2. /\ IsThread(Current) /\ IsItems(Current.evidence)
      /\ threads = [j \in Incidents |-> threads[j]]
  BY <1>1 DEF GenerationInv, GenerationShape, Threads, Current
<1>3. CASE PackOf(run.id) = <<>>
  <2> DEFINE t == [Current EXCEPT !.status = "escalated"]
  <2>1. run' = [run EXCEPT !.pc = "ended"] /\ threads' = [threads EXCEPT ![run.id] = t]
    BY <1>3 DEF Synthesize, SetCurrent
  <2>2. IsRun(run') /\ run'.pc = "ended" /\ run'.id = run.id /\ run'.got = run.got
    BY <1>1, <2>1 DEF IsRun
  <2>3. /\ IsThread(t) /\ t.evidence = Current.evidence /\ t.failed = Current.failed
        /\ t.status = "escalated"
    BY <1>2 DEF IsThread
  <2> HIDE DEF t
  <2>4. /\ GenerationShape' /\ ThreadsSettle' /\ CollectedOnce' /\ RecorderCovers'
        /\ RecorderIsOwn' /\ StillRunning' /\ Current' = t
    BY <1>1, <2>1, <2>2, <2>3, GraphStepKeeps
  <2> QED
    BY <2>2, <2>3, <2>4 DEF GenerationInv, GroundedOrEscalated, PackIsOwn, SourcesAreShown
<1>4. CASE PackOf(run.id) # <<>>
  <2> DEFINE pack == PackOf(run.id)
  <2>1. run' = [run EXCEPT !.pc = "ask", !.pack = pack, !.tries = 0] /\ threads' = threads
    BY <1>4 DEF Synthesize
  <2> HIDE DEF pack
  <2>2. /\ IsRun(run') /\ run'.pc = "ask" /\ run'.id = run.id /\ run'.got = run.got
        /\ run'.pack = pack
    BY <1>1, <2>1 DEF IsRun
  <2>3. threads' = [threads EXCEPT ![run.id] = Current]
    BY <1>1, <1>2, <2>1 DEF Current
  <2>4. /\ GenerationShape' /\ ThreadsSettle' /\ CollectedOnce' /\ RecorderCovers'
        /\ RecorderIsOwn' /\ StillRunning' /\ Current' = Current
    BY <1>1, <1>2, <2>2, <2>3, GraphStepKeeps
  <2>5. PackIsOwn'
    <3>1. ~leftover => \A row \in ToSet(recorded) : row.inc = run.id
      BY DEF GenerationInv, RecorderIsOwn
    <3> QED
      BY <1>1, <2>2, <3>1, PackOfOne DEF PackIsOwn, pack
  <2>6. SourcesAreShown'
    <3> SUFFICES ASSUME Recording, Len(pack) < MAX_PACK_ITEMS
                 PROVE  Sources(Current.evidence) \subseteq Sources(pack)
      BY <1>1, <2>2, <2>4 DEF SourcesAreShown, Recording
    <3>1. recorded = <<>> \/ Sources(Current.evidence) \subseteq Sources(recorded)
      BY <1>1 DEF GenerationInv, RecorderCovers
    <3> QED
      BY <1>1, <1>2, <3>1, PackShowsSources DEF Current, pack
  <2> QED
    BY <2>2, <2>4, <2>5, <2>6 DEF GenerationInv, GroundedOrEscalated
<1> QED
  BY <1>3, <1>4

(* Only an answer that cites the pack makes the thread wait for a review.  *)
LEMMA AnswerKeeps ==
  ASSUME GenerationInv, Answered \/ AnsweredTwice
  PROVE  GenerationInv'
<1>1. /\ run.pc = "ask" /\ run.id \in Incidents /\ IsRun(run)
      /\ UNCHANGED <<recorded, unrecorded, leftover>>
  BY DEF Answered, AnsweredTwice, GenerationInv, GenerationShape
<1>2. IsThread(Current) /\ threads = [j \in Incidents |-> threads[j]]
  BY <1>1 DEF GenerationInv, GenerationShape, Threads, Current
<1>3. ASSUME NEW cites, NEW status, NEW tries,
             run' = [run EXCEPT !.pc = "ended", !.tries = tries],
             threads' = [threads EXCEPT ![run.id] =
                           [Current EXCEPT !.cites = cites, !.status = status]],
             status = "pending_review" => cites # {} /\ cites \subseteq ToSet(run.pack)
      PROVE  GenerationInv'
  <2> DEFINE t == [Current EXCEPT !.cites = cites, !.status = status]
  <2>1. /\ IsRun(run') /\ run'.pc = "ended" /\ run'.id = run.id /\ run'.got = run.got
        /\ run'.pack = run.pack
    BY <1>1, <1>3 DEF IsRun
  <2>2. /\ IsThread(t) /\ t.evidence = Current.evidence /\ t.failed = Current.failed
        /\ t.status = status /\ t.cites = cites
    <3>1. /\ t.evidence = Current.evidence /\ t.failed = Current.failed /\ t.late = Current.late
          /\ t.status = status /\ t.cites = cites
      BY <1>2 DEF IsThread
    <3>2. t = [Current EXCEPT !.cites = cites, !.status = status]
      OBVIOUS
    <3> HIDE DEF t
    <3>3. t = [evidence |-> Current.evidence, failed |-> Current.failed, status |-> status,
               cites |-> cites, late |-> Current.late]
      BY <1>2, <3>2 DEF IsThread
    <3> QED
      BY <3>1, <3>3, ZenonT(60) DEF IsThread
  <2>3. threads' = [threads EXCEPT ![run.id] = t]
    BY <1>3
  <2> HIDE DEF t
  <2>4. /\ GenerationShape' /\ ThreadsSettle' /\ CollectedOnce' /\ RecorderCovers'
        /\ RecorderIsOwn' /\ StillRunning' /\ Current' = t
    BY <1>1, <2>1, <2>2, <2>3, GraphStepKeeps
  <2>5. GroundedOrEscalated'
    BY <1>3, <2>1, <2>2, <2>4 DEF GroundedOrEscalated
  <2> QED
    BY <2>1, <2>4, <2>5 DEF GenerationInv, PackIsOwn, SourcesAreShown
<1>4. CASE Answered
  <2>1. PICK answer \in Answers :
          IF parse_rca_output(answer)
          THEN /\ run' = [run EXCEPT !.pc = "ended"]
               /\ SetCurrent([Current EXCEPT !.cites = answer.cites,
                    !.status = IF answer.confident THEN "pending_review" ELSE "escalated"])
          ELSE /\ run.tries = 0
               /\ run' = [run EXCEPT !.tries = 1]
               /\ UNCHANGED threads
    BY <1>4 DEF Answered
  <2>2. CASE parse_rca_output(answer)
    <3> DEFINE status == IF answer.confident THEN "pending_review" ELSE "escalated"
               cites  == answer.cites
    <3>1. cites # {} /\ cites \subseteq ToSet(run.pack)
      BY <2>2 DEF parse_rca_output
    <3>2. threads' = [threads EXCEPT ![run.id] = [Current EXCEPT !.cites = cites, !.status = status]]
      BY <2>1, <2>2 DEF SetCurrent
    <3> HIDE DEF status, cites
    <3>3. run' = [run EXCEPT !.pc = "ended", !.tries = run.tries]
      BY <1>1, <2>1, <2>2 DEF IsRun
    <3> QED
      BY <1>3, <3>1, <3>2, <3>3
  <2>3. CASE ~parse_rca_output(answer)
    <3>1. run' = [run EXCEPT !.tries = 1] /\ threads' = threads
      BY <2>1, <2>3
    <3>2. /\ IsRun(run') /\ run'.pc = "ask" /\ run'.id = run.id /\ run'.got = run.got
          /\ run'.pack = run.pack
      BY <1>1, <3>1 DEF IsRun
    <3>3. threads' = [threads EXCEPT ![run.id] = Current]
      BY <1>1, <1>2, <3>1 DEF Current
    <3>4. /\ GenerationShape' /\ ThreadsSettle' /\ CollectedOnce' /\ RecorderCovers'
          /\ RecorderIsOwn' /\ StillRunning' /\ Current' = Current
      BY <1>1, <1>2, <3>2, <3>3, GraphStepKeeps
    <3>5. GroundedOrEscalated' /\ PackIsOwn' /\ SourcesAreShown'
      BY <1>1, <3>2, <3>4 DEF GenerationInv, GroundedOrEscalated, PackIsOwn, SourcesAreShown
    <3> QED
      BY <3>4, <3>5 DEF GenerationInv
  <2> QED
    BY <2>2, <2>3
<1>5. CASE AnsweredTwice
  <2>1. /\ run' = [run EXCEPT !.pc = "ended", !.tries = 2]
        /\ threads' = [threads EXCEPT ![run.id] =
                         [Current EXCEPT !.cites = {}, !.status = "escalated"]]
    BY <1>5 DEF AnsweredTwice, SetCurrent
  <2>2. PICK cites, status, tries : cites = {} /\ status = "escalated" /\ tries = 2
    OBVIOUS
  <2>3. /\ run' = [run EXCEPT !.pc = "ended", !.tries = tries]
        /\ threads' = [threads EXCEPT ![run.id] =
                         [Current EXCEPT !.cites = cites, !.status = status]]
    BY <2>1, <2>2, Zenon
  <2>4. status = "pending_review" => cites # {} /\ cites \subseteq ToSet(run.pack)
    BY <2>2
  <2> QED
    BY <1>3, <2>3, <2>4
<1> QED
  BY <1>4, <1>5

(* GenerationInv holds throughout every behaviour.                         *)
THEOREM GenerationInvariance == Spec => []GenerationInv
<1>1. GenerationInv /\ UNCHANGED vars => GenerationInv'
  BY DEF vars, GenerationInv, GenerationShape, Threads, ThreadsSettle, StillRunning, CollectedOnce,
      RecorderCovers, RecorderIsOwn, Recording, Current, GroundedOrEscalated, PackIsOwn, SourcesAreShown
<1>2. GenerationInv /\ Next => GenerationInv'
  BY StartKeeps, TimeKeeps, CommanderKeeps, CollectKeeps, SynthesizeKeeps, AnswerKeeps, EndKeeps
  DEF Next
<1> QED
  BY <1>1, <1>2, GenerationInvInit, PTL DEF Spec

---------------------------------------------------------------------------
(* Results.                                                                *)

(* An investigation waits for a review only with citations, all of them of *)
(* the pack the model was shown (parse_rca_output, generate_rca).          *)
THEOREM ReviewsAreGrounded == Spec => []GroundedOrEscalated
<1>1. GenerationInv => GroundedOrEscalated
  BY DEF GenerationInv
<1> QED
  BY <1>1, GenerationInvariance, PTL

(* The model is shown this incident's evidence and no other's, as long as  *)
(* no attempt before it raised inside the graph (the shared recorder of    *)
(* CollectingEvidenceRecorder and its drain).                              *)
THEOREM PacksAreOwn == Spec => []PackIsOwn
<1>1. GenerationInv => PackIsOwn
  BY DEF GenerationInv
<1> QED
  BY <1>1, GenerationInvariance, PTL

(* Every source the commander counted is in the pack, if the pack is not   *)
(* full and the rows could be recorded.                                    *)
THEOREM CountedSourcesAreShown == Spec => []SourcesAreShown
<1>1. GenerationInv => SourcesAreShown
  BY DEF GenerationInv
<1> QED
  BY <1>1, GenerationInvariance, PTL

---------------------------------------------------------------------------
(* Types.  The commander is entered at or below the hop cap, and what the  *)
(* nodes of a super-step brought is typed before it reaches the thread.    *)

PCs == {"idle", "commander", "specialists", "synthesize", "ask", "ended"}
Statuses == {"", "running", "escalated", "pending_review"}

RunTyped(r) ==
  /\ r.pc \in PCs /\ r.hops \in 0 .. MAX_HOPS + 1 /\ r.tries \in 0 .. 2
  /\ r.todo \subseteq Collectors /\ r.failed \subseteq Collectors
  /\ r.pack \in Seq(Rows)
  /\ \A k \in Collectors : r.got[k] \in Seq(Item)
  /\ r.pc \in {"commander", "specialists"} => r.hops <= MAX_HOPS

ThreadTyped(t) ==
  t.evidence \in Seq(Item) /\ t.cites \subseteq Rows \cup {Unknown} /\ t.status \in Statuses

GenerationTypes ==
  /\ attempts \in [Incidents -> 0 .. MaxAttempts]
  /\ RunTyped(run)
  /\ recorded \in Seq(Rows)
  /\ \A i \in Incidents : ThreadTyped(threads[i])
  /\ db.evidence \subseteq Rows /\ db.done \subseteq Incidents

(* Sequences over one set.                                                 *)
LEMMA SeqsOfOne ==
  ASSUME NEW S
  PROVE  <<>> \in Seq(S) /\ \A s, t \in Seq(S) : s \o t \in Seq(S)
OBVIOUS

(* A sequence over its own elements is one over any set that has them.     *)
LEMMA SeqOfElements ==
  ASSUME NEW s, NEW S, IsSeq(s), ToSet(s) \subseteq S
  PROVE  s \in Seq(S)
<1> DEFINE T == ToSet(s)
<1>1. s \in Seq(T) /\ T \subseteq S
  BY DEF IsSeq
<1> HIDE DEF T
<1> QED
  BY <1>1

(* A set of naturals has a least element.                                  *)
LEMMA LeastNatural ==
  ASSUME NEW S \in SUBSET Nat, S # {}
  PROVE  \E x \in S : \A y \in S : x <= y
<1> DEFINE R == OpToRel(<, Nat)
<1>1. PICK x \in S : \A y \in S : <<y, x>> \notin R
  <2> HIDE DEF R
  <2>1. IsWellFoundedOn(R, Nat)
    BY NatLessThanWellFounded DEF R
  <2> QED
    BY <2>1, WFMin
<1>2. \A y \in S : ~(y < x)
  BY <1>1 DEF OpToRel
<1> QED
  BY <1>2

(* The j-th smallest member of a set of places: the least place up to      *)
(* which there are j of them.                                              *)
LEMMA PlaceOfRank ==
  ASSUME NEW len \in Nat, NEW places \in SUBSET (1 .. len), NEW j \in 1 .. Cardinality(places)
  PROVE  \E n \in places : Cardinality(places \cap 1 .. n) = j
<1> DEFINE upTo(n) == places \cap 1 .. n
           count(n) == Cardinality(upTo(n))
           S == {n \in Nat : count(n) >= j}
<1>1. \A n \in Nat : IsFiniteSet(upTo(n)) /\ count(n) \in Nat
  <2> TAKE n \in Nat
  <2>1. IsFiniteSet(1 .. n) /\ upTo(n) \subseteq 1 .. n
    BY FS_Interval
  <2> HIDE DEF upTo
  <2> QED
    BY <2>1, FS_Subset, FS_CardinalityType
<1>2. len \in S
  <2>1. upTo(len) = places
    OBVIOUS
  <2>2. count(len) = Cardinality(places)
    BY <2>1
  <2>3. Cardinality(places) >= j
    <3>1. Cardinality(places) \in Nat
      BY <1>1, <2>2
    <3> QED
      BY <3>1
  <2> QED
    BY <2>2, <2>3
<1>3. PICK n \in S : \A m \in S : n <= m
  <2>1. S \in SUBSET Nat /\ S # {}
    BY <1>2
  <2> HIDE DEF S
  <2> QED
    BY <2>1, LeastNatural
<1>4. n \in Nat /\ count(n) >= j
  BY <1>3
<1>5. n # 0
  <2>1. upTo(0) = {}
    OBVIOUS
  <2>2. count(0) = 0
    BY <2>1, FS_EmptySet
  <2> QED
    BY <1>4, <2>2
<1>6. n - 1 \in Nat /\ ~(count(n - 1) >= j)
  <2>1. n - 1 \in Nat /\ ~(n <= n - 1)
    BY <1>4, <1>5
  <2>2. n - 1 \notin S
    BY <1>3, <2>1
  <2> QED
    BY <2>1, <2>2
<1>7. n \in places
  <2>1. n \notin places => upTo(n) = upTo(n - 1)
    BY <1>4, <1>5
  <2>2. n \notin places => count(n) = count(n - 1)
    BY <2>1
  <2> QED
    BY <1>4, <1>6, <2>2
<1>8. count(n) = count(n - 1) + 1
  <2>1. upTo(n) = upTo(n - 1) \cup {n} /\ n \notin upTo(n - 1)
    BY <1>4, <1>5, <1>7
  <2>2. IsFiniteSet(upTo(n - 1))
    BY <1>1, <1>6
  <2> HIDE DEF upTo
  <2> QED
    BY <2>1, <2>2, FS_AddElement
<1>9. count(n) = j
  <2>1. count(n) \in Nat /\ count(n - 1) \in Nat
    BY <1>1, <1>4, <1>6
  <2> HIDE DEF count
  <2> QED
    BY <1>4, <1>6, <1>8, <2>1
<1> QED
  BY <1>7, <1>9

(* Deduplication brings nothing new.                                       *)
LEMMA DedupedElements ==
  ASSUME NEW hits, IsSeq(hits)
  PROVE  ToSet(Deduped(hits)) \subseteq ToSet(hits)
<1> DEFINE firsts == {n \in DOMAIN hits : \A m \in 1 .. n - 1 : hits[m] # hits[n]}
<1>1. Len(hits) \in Nat /\ DOMAIN hits = 1 .. Len(hits)
  <2> DEFINE S == ToSet(hits)
  <2>1. hits \in Seq(S)
    BY DEF IsSeq
  <2> HIDE DEF S
  <2> QED
    BY <2>1
<1>2. firsts \in SUBSET (1 .. Len(hits))
  BY <1>1
<1>3. Deduped(hits) = [j \in 1 .. Cardinality(firsts) |->
                         hits[CHOOSE n \in firsts : Cardinality(firsts \cap 1 .. n) = j]]
  BY DEF Deduped
<1>4. firsts \subseteq DOMAIN hits
  OBVIOUS
<1> HIDE DEF firsts
<1>5. ASSUME NEW j \in 1 .. Cardinality(firsts)
      PROVE  Deduped(hits)[j] \in ToSet(hits)
  <2>1. \E n \in firsts : Cardinality(firsts \cap 1 .. n) = j
    BY <1>1, <1>2, PlaceOfRank
  <2>2. (CHOOSE n \in firsts : Cardinality(firsts \cap 1 .. n) = j) \in firsts
    BY <2>1
  <2> QED
    BY <1>3, <1>4, <2>2 DEF ToSet
<1>6. DOMAIN Deduped(hits) = 1 .. Cardinality(firsts)
  BY <1>3
<1> QED
  BY <1>5, <1>6 DEF ToSet

(* A specialist brings items.                                              *)
LEMMA ItemsTyped ==
  ASSUME NEW k \in Collectors, NEW hits \in Results[k]
  PROVE  Items(k, hits) \in Seq(Item)
<1> DEFINE kept == CASE k = OBSERVABILITY -> First(OBS_MAX_ITEMS, hits)
                     [] k = CODE          -> Deduped(hits)
                     [] OTHER             -> hits
<1>1. IsSeq(hits) /\ ToSet(hits) \subseteq Nat
  <2>1. hits \in Seq(Nat)
    BY PackAssumption
  <2> QED
    BY <2>1, TypedIsSeq
<1>2. ToSet(kept) \subseteq Nat
  <2>1. OBS_MAX_ITEMS \in Nat
    BY PackAssumption
  <2>2. ToSet(First(OBS_MAX_ITEMS, hits)) \subseteq Nat /\ ToSet(Deduped(hits)) \subseteq Nat
    BY <1>1, <2>1, FirstIsSeq, DedupedElements
  <2> QED
    BY <1>1, <2>2
<1>3. Items(k, hits) = [n \in DOMAIN kept |-> [k |-> k, key |-> kept[n]]]
  BY DEF Items
<1> HIDE DEF kept
<1>4. ToSet(Items(k, hits)) \subseteq Item
  BY <1>2, <1>3 DEF ToSet, Item
<1> QED
  BY <1>4, ItemsOfOne, SeqOfElements DEF IsItems

(* The rows of items have the type of rows.                                *)
LEMMA RowsTyped ==
  ASSUME NEW i \in Incidents, NEW at \in 0 .. MaxAttempts, NEW items \in Seq(Item), NEW rows,
         rows = [n \in DOMAIN items |-> Row(i, items[n], at)]
  PROVE  rows \in Seq(Rows)
<1>1. \A n \in DOMAIN items : items[n] \in Item
  OBVIOUS
<1>2. \A n \in DOMAIN items : Row(i, items[n], at) \in Rows
  BY <1>1 DEF Row, Rows, Item
<1>3. ToSet(rows) \subseteq Rows
  BY <1>2 DEF ToSet
<1>4. IsSeq(items)
  BY TypedIsSeq
<1>5. IsSeq(rows)
  BY <1>4, RowsOfItems
<1> QED
  BY <1>3, <1>5, SeqOfElements

(* A pack holds rows.                                                      *)
LEMMA PackTyped ==
  ASSUME recorded \in Seq(Rows), NEW i \in Incidents, threads[i].evidence \in Seq(Item)
  PROVE  PackOf(i) \in Seq(Rows)
<1>0. MAX_PACK_ITEMS \in Nat /\ 0 \in 0 .. MaxAttempts
  BY PackAssumption
<1>1. CASE recorded # <<>>
  <2>1. PackOf(i) = First(MAX_PACK_ITEMS, recorded)
    BY <1>1 DEF PackOf, pack_from_evidence_rows
  <2>2. IsSeq(recorded) /\ ToSet(recorded) \subseteq Rows
    BY TypedIsSeq
  <2> QED
    BY <1>0, <2>1, <2>2, FirstIsSeq, SeqOfElements
<1>2. CASE recorded = <<>>
  <2> DEFINE items == threads[i].evidence
             first == First(MAX_PACK_ITEMS, items)
             pack == PackOf(i)
  <2>1. pack = [n \in DOMAIN first |-> Row(i, [items[n] EXCEPT !.key = n], 0)]
    BY <1>2 DEF PackOf, pack_from_graph_evidence
  <2>2. IsSeq(items)
    BY TypedIsSeq
  <2> HIDE DEF items
  <2>3. IsSeq(first) /\ DOMAIN first \subseteq DOMAIN items
    BY <1>0, <2>2, FirstIsSeq
  <2>4. items \in Seq(Item)
    BY DEF items
  <2>5. \A n \in DOMAIN items : n \in Nat /\ items[n] \in Item
    BY <2>4
  <2> HIDE DEF first, pack
  <2>6. \A n \in DOMAIN first : Row(i, [items[n] EXCEPT !.key = n], 0) \in Rows
    BY <1>0, <2>3, <2>5 DEF Row, Rows, Item
  <2>7. ToSet(pack) \subseteq Rows
    BY <2>1, <2>6 DEF ToSet
  <2>8. IsSeq(pack)
    <3>1. DOMAIN pack = DOMAIN first /\ pack = [n \in DOMAIN first |-> pack[n]]
      BY <2>1
    <3> QED
      BY <2>3, <3>1, MappedIsSeq
  <2>9. pack \in Seq(Rows)
    BY <2>7, <2>8, SeqOfElements
  <2> QED
    BY <2>9 DEF pack
<1> QED
  BY <1>1, <1>2

---------------------------------------------------------------------------
(* The steps.                                                              *)

(* NoRun has the type of a run.                                            *)
LEMMA NoRunTyped == RunTyped(NoRun) /\ \A k \in Collectors : NoRun.got[k] \in Seq(Item)
<1>1. /\ NoRun.pc = "idle" /\ NoRun.hops = 0 /\ NoRun.tries = 0 /\ NoRun.todo = {}
      /\ NoRun.failed = {} /\ NoRun.pack = <<>>
      /\ NoRun.got = [k \in Collectors |-> <<>>]
  BY DEF NoRun
<1>2. \A k \in Collectors : NoRun.got[k] = <<>>
  BY <1>1
<1> QED
  BY <1>1, <1>2 DEF RunTyped, PCs, MAX_HOPS

(* So has NoThread.                                                        *)
LEMMA NoThreadTyped == ThreadTyped(NoThread)
<1>1. NoThread.evidence = <<>> /\ NoThread.cites = {} /\ NoThread.status = ""
  BY DEF NoThread
<1>2. NoThread.evidence \in Seq(Item)
  BY <1>1, SeqsOfOne, Zenon
<1>3. NoThread.cites \subseteq Rows \cup {Unknown} /\ NoThread.status \in Statuses
  BY <1>1 DEF Statuses
<1> QED
  BY <1>2, <1>3 DEF ThreadTyped

(* One thread gets a new value.                                            *)
LEMMA ThreadsTyped ==
  ASSUME Threads, GenerationTypes, NEW i \in Incidents, NEW t, ThreadTyped(t),
         threads' = [threads EXCEPT ![i] = t]
  PROVE  \A j \in Incidents : ThreadTyped(threads'[j])
<1>1. \A j \in Incidents : threads'[j] = IF j = i THEN t ELSE threads[j]
  BY DEF Threads
<1> QED
  BY <1>1 DEF GenerationTypes

(* A step that leaves attempts, recorder and table alone.                  *)
LEMMA TypesFromParts ==
  ASSUME GenerationTypes, RunTyped(run'), \A j \in Incidents : ThreadTyped(threads'[j]),
         recorded' \in Seq(Rows), UNCHANGED <<attempts, db>>
  PROVE  GenerationTypes'
BY DEF GenerationTypes, RunTyped, ThreadTyped

(* A new attempt begins with NoRun's hops and nothing collected.           *)
LEMMA TypesOfStart ==
  ASSUME GenerationShape, GenerationTypes, NEW i \in Incidents, Start(i)
  PROVE  GenerationTypes'
<1>1. attempts' \in [Incidents -> 0 .. MaxAttempts]
  BY PackAssumption DEF Start, GenerationTypes
<1>2. run' = [NoRun EXCEPT !.pc = "commander", !.id = i]
  BY DEF Start
<1>3. /\ run'.pc = "commander" /\ run'.hops = NoRun.hops /\ run'.tries = NoRun.tries
      /\ run'.todo = NoRun.todo /\ run'.failed = NoRun.failed /\ run'.pack = NoRun.pack
      /\ run'.got = NoRun.got /\ NoRun.hops = 0
  BY <1>2 DEF NoRun
<1>4. RunTyped(run')
  BY <1>3, NoRunTyped DEF RunTyped, PCs, MAX_HOPS
<1> DEFINE t == [threads[i] EXCEPT !.status = "running"]
<1>5. IsThread(threads[i])
  BY DEF GenerationShape, Threads
<1>6. t.evidence = threads[i].evidence /\ t.cites = threads[i].cites /\ t.status = "running"
  BY <1>5 DEF IsThread
<1>7. threads' = [threads EXCEPT ![i] = t]
  BY DEF Start
<1> HIDE DEF t
<1>8. ThreadTyped(t)
  BY <1>6 DEF GenerationTypes, ThreadTyped, Statuses
<1>9. \A j \in Incidents : ThreadTyped(threads'[j])
  BY <1>7, <1>8, ThreadsTyped DEF GenerationShape
<1>10. recorded' = recorded /\ db' = db
  BY DEF Start
<1> QED
  BY <1>1, <1>4, <1>9, <1>10 DEF GenerationTypes, RunTyped, ThreadTyped

(* The clock only sets late.                                               *)
LEMMA TypesOfTime ==
  ASSUME GenerationShape, GenerationTypes, NEW i \in Incidents, TimePasses(i)
  PROVE  GenerationTypes'
<1> DEFINE t == [threads[i] EXCEPT !.late = TRUE]
<1>1. IsThread(threads[i])
  BY DEF GenerationShape, Threads
<1>2. t.evidence = threads[i].evidence /\ t.cites = threads[i].cites /\ t.status = threads[i].status
  <2>1. ASSUME NEW late
        PROVE  LET u == [threads[i] EXCEPT !.late = late]
               IN  /\ u.evidence = threads[i].evidence
                   /\ u.status = threads[i].status /\ u.cites = threads[i].cites
    BY <1>1 DEF IsThread
  <2> QED
    BY <2>1, Zenon
<1>3. threads' = [threads EXCEPT ![i] = t]
  BY DEF TimePasses
<1> HIDE DEF t
<1>4. ThreadTyped(t)
  BY <1>2 DEF GenerationTypes, ThreadTyped
<1>5. \A j \in Incidents : ThreadTyped(threads'[j])
  BY <1>3, <1>4, ThreadsTyped DEF GenerationShape
<1>6. run' = run /\ recorded' = recorded /\ UNCHANGED <<attempts, db>>
  BY DEF TimePasses
<1> QED
  BY <1>5, <1>6, TypesFromParts DEF GenerationTypes

(* The commander is entered within the cap, and past it leaves the cycle.  *)
LEMMA TypesOfCommander ==
  ASSUME GenerationShape, GenerationTypes, Commander
  PROVE  GenerationTypes'
<1> DEFINE next == next_action(Scenario[run.id], run.hops + 1, Sources(Current.evidence),
                               Current.late, Current.failed).next
           pc   == CASE next = SYNTHESIZE -> "synthesize"
                     [] next = ESCALATE   -> "ended"
                     [] OTHER             -> "specialists"
           todo == CASE next = FANOUT          -> DB_REQUIRED
                     [] next \in Collectors    -> {next}
                     [] OTHER                  -> {}
           hops == run.hops + 1
<1>1. run.pc = "commander" /\ run.id \in Incidents /\ IsRun(run)
  BY DEF Commander, GenerationShape
<1>2. run' = [run EXCEPT !.hops = hops, !.pc = pc, !.todo = todo]
  BY DEF Commander
<1>3. threads' = threads
  BY DEF Commander
<1>4. hops > MAX_HOPS => next = ESCALATE
  BY DEF next_action, PlanDecision
<1>5. SYNTHESIZE # ESCALATE
  BY DEF ESCALATE, SYNTHESIZE
<1> HIDE DEF next
<1>6. /\ pc \in {"synthesize", "ended", "specialists"}
      /\ hops > MAX_HOPS => pc = "ended"
      /\ todo \subseteq Collectors
  <2>1. DB_REQUIRED \subseteq Collectors
    BY DEF DB_REQUIRED, Collectors
  <2>2. pc \in {"synthesize", "ended", "specialists"}
    OBVIOUS
  <2>3. hops > MAX_HOPS => pc = "ended"
    BY <1>4, <1>5
  <2>4. todo \subseteq Collectors
    BY <2>1
  <2> QED
    BY <2>2, <2>3, <2>4
<1>7. hops \in 0 .. MAX_HOPS + 1 /\ (hops <= MAX_HOPS \/ hops > MAX_HOPS)
  BY <1>1 DEF GenerationTypes, RunTyped, MAX_HOPS
<1> HIDE DEF pc, todo, hops
<1>8. /\ run'.pc = pc /\ run'.hops = hops /\ run'.todo = todo /\ run'.tries = run.tries
      /\ run'.failed = run.failed /\ run'.pack = run.pack /\ run'.got = run.got
  BY <1>1, <1>2 DEF IsRun
<1>9. RunTyped(run')
  BY <1>6, <1>7, <1>8 DEF GenerationTypes, RunTyped, PCs
<1>10. \A j \in Incidents : ThreadTyped(threads'[j])
  BY <1>3 DEF GenerationTypes
<1>11. recorded' = recorded /\ UNCHANGED <<attempts, db>>
  BY DEF Commander
<1> QED
  BY <1>9, <1>10, <1>11, TypesFromParts DEF GenerationTypes
(* A specialist that returned: its items wait for the end of the           *)
(* super-step and are then appended to the thread's.                       *)
LEMMA TypesOfReturns ==
  ASSUME GenerationShape, GenerationTypes, run.pc = "specialists", NEW k \in Collectors,
         NEW items \in Seq(Item), NEW failed \in SUBSET Collectors, Returns(k, items, failed)
  PROVE  RunTyped(run') /\ \A j \in Incidents : ThreadTyped(threads'[j])
<1> DEFINE got == [run.got EXCEPT ![k] = items]
<1>1. run.id \in Incidents /\ IsRun(run) /\ RunTyped(run) /\ run.got = [c \in Collectors |-> run.got[c]]
  BY DEF GenerationShape, GenerationTypes, Got
<1>2. \A c \in Collectors : got[c] \in Seq(Item)
  BY <1>1 DEF RunTyped
<1> HIDE DEF got
<1>3. CASE run.todo \ {k} # {}
  <2>1. /\ run' = [run EXCEPT !.todo = run.todo \ {k}, !.got = got, !.failed = failed]
        /\ threads' = threads
    BY <1>3 DEF Returns, got
  <2>2. /\ run'.pc = run.pc /\ run'.hops = run.hops /\ run'.tries = run.tries
        /\ run'.todo = run.todo \ {k} /\ run'.failed = failed /\ run'.pack = run.pack
        /\ run'.got = got
    BY <1>1, <2>1 DEF IsRun
  <2> QED
    BY <1>1, <1>2, <2>1, <2>2 DEF RunTyped, GenerationTypes
<1>4. CASE run.todo \ {k} = {}
  <2> DEFINE evidence == Current.evidence \o got[OBSERVABILITY] \o got[KNOWLEDGE] \o got[CODE]
             all == Current.failed \cup failed
             t == [Current EXCEPT !.evidence = evidence, !.failed = all]
  <2>1. /\ run' = [run EXCEPT !.pc = "commander", !.todo = {}, !.got = NoRun.got, !.failed = {}]
        /\ threads' = [threads EXCEPT ![run.id] = t]
    BY <1>4 DEF Returns, got, SetCurrent
  <2>2. /\ run'.pc = "commander" /\ run'.hops = run.hops /\ run'.tries = run.tries
        /\ run'.todo = {} /\ run'.failed = {} /\ run'.pack = run.pack /\ run'.got = NoRun.got
    BY <1>1, <2>1 DEF IsRun
  <2>3. RunTyped(run')
    BY <1>1, <2>2, NoRunTyped DEF RunTyped, PCs
  <2>4. IsThread(Current) /\ ThreadTyped(Current)
    BY <1>1 DEF GenerationShape, Threads, GenerationTypes, Current
  <2>5. evidence \in Seq(Item)
    BY <1>2, <2>4 DEF ThreadTyped, Collectors
  <2> HIDE DEF evidence, all
  <2>6. t.evidence = evidence /\ t.cites = Current.cites /\ t.status = Current.status
    BY <2>4 DEF IsThread
  <2> HIDE DEF t
  <2>7. ThreadTyped(t)
    BY <2>4, <2>5, <2>6 DEF ThreadTyped
  <2> QED
    BY <1>1, <2>1, <2>3, <2>7, ThreadsTyped DEF GenerationShape
<1> QED
  BY <1>3, <1>4

(* What a specialist contributes are items, what it records are rows.      *)
LEMMA TypesOfCollect ==
  ASSUME GenerationShape, GenerationTypes, NEW k \in Collectors, Collect(k) \/ CollectFails(k)
  PROVE  GenerationTypes'
<1>1. /\ run.pc = "specialists" /\ run.id \in Incidents /\ RunTyped(run)
      /\ UNCHANGED <<attempts, db>>
  BY DEF Collect, CollectFails, GenerationShape, GenerationTypes
<1>2. CASE Collect(k)
  <2>1. PICK hits \in Results[k] :
          LET items == Items(k, hits)
              rows  == [n \in DOMAIN items |-> Row(run.id, items[n], attempts[run.id])]
          IN  /\ Returns(k, items, run.failed)
              /\ recorded' = recorded \o rows \/ recorded' = recorded
    BY <1>2 DEF Collect
  <2> DEFINE items == Items(k, hits)
             at    == attempts[run.id]
             rows  == [n \in DOMAIN items |-> Row(run.id, items[n], at)]
  <2>2. items \in Seq(Item)
    BY ItemsTyped
  <2>3. Returns(k, items, run.failed) /\ (recorded' = recorded \o rows \/ recorded' = recorded)
    BY <2>1
  <2>4. at \in 0 .. MaxAttempts
    BY <1>1 DEF GenerationTypes
  <2> HIDE DEF items, at
  <2>5. rows \in Seq(Rows)
    BY <1>1, <2>2, <2>4, RowsTyped
  <2> HIDE DEF rows
  <2>6. recorded' \in Seq(Rows)
    <3>1. recorded \in Seq(Rows)
      BY DEF GenerationTypes
    <3>2. recorded \o rows \in Seq(Rows)
      BY <2>5, <3>1, SeqsOfOne, Zenon
    <3> QED
      BY <2>3, <3>1, <3>2, Zenon
  <2>7. RunTyped(run') /\ \A j \in Incidents : ThreadTyped(threads'[j])
    BY <1>1, <2>2, <2>3, TypesOfReturns DEF RunTyped
  <2> QED
    BY <1>1, <2>6, <2>7, TypesFromParts
<1>3. CASE CollectFails(k)
  <2> DEFINE items == <<>>
             failed == run.failed \cup {k}
  <2>1. Returns(k, items, failed) /\ recorded' = recorded
    BY <1>3 DEF CollectFails
  <2>2. items \in Seq(Item) /\ failed \in SUBSET Collectors
    BY <1>1 DEF RunTyped
  <2> HIDE DEF items, failed
  <2>3. RunTyped(run') /\ \A j \in Incidents : ThreadTyped(threads'[j])
    BY <1>1, <2>1, <2>2, TypesOfReturns
  <2> QED
    BY <1>1, <2>1, <2>3, TypesFromParts DEF GenerationTypes
<1> QED
  BY <1>2, <1>3

(* The pack is of rows.                                                    *)
LEMMA TypesOfSynthesize ==
  ASSUME GenerationShape, GenerationTypes, Synthesize
  PROVE  GenerationTypes'
<1>1. /\ run.id \in Incidents /\ IsRun(run) /\ RunTyped(run) /\ recorded' = recorded
      /\ UNCHANGED <<attempts, db>>
  BY DEF Synthesize, GenerationShape, GenerationTypes
<1>2. IsThread(Current) /\ ThreadTyped(Current)
  BY <1>1 DEF GenerationShape, Threads, GenerationTypes, Current
<1>3. CASE PackOf(run.id) = <<>>
  <2> DEFINE t == [Current EXCEPT !.status = "escalated"]
  <2>1. run' = [run EXCEPT !.pc = "ended"] /\ threads' = [threads EXCEPT ![run.id] = t]
    BY <1>3 DEF Synthesize, SetCurrent
  <2>2. /\ run'.pc = "ended" /\ run'.hops = run.hops /\ run'.tries = run.tries
        /\ run'.todo = run.todo /\ run'.failed = run.failed /\ run'.pack = run.pack
        /\ run'.got = run.got
    BY <1>1, <2>1 DEF IsRun
  <2>3. t.evidence = Current.evidence /\ t.cites = Current.cites /\ t.status = "escalated"
    BY <1>2 DEF IsThread
  <2> HIDE DEF t
  <2>4. RunTyped(run') /\ ThreadTyped(t)
    BY <1>1, <1>2, <2>2, <2>3 DEF RunTyped, ThreadTyped, PCs, Statuses
  <2>5. \A j \in Incidents : ThreadTyped(threads'[j])
    BY <1>1, <2>1, <2>4, ThreadsTyped DEF GenerationShape
  <2> QED
    BY <1>1, <2>4, <2>5, TypesFromParts DEF GenerationTypes
<1>4. CASE PackOf(run.id) # <<>>
  <2> DEFINE pack == PackOf(run.id)
  <2>1. run' = [run EXCEPT !.pc = "ask", !.pack = pack, !.tries = 0] /\ threads' = threads
    BY <1>4 DEF Synthesize
  <2>2. pack \in Seq(Rows)
    BY <1>1, PackTyped DEF GenerationTypes, ThreadTyped
  <2> HIDE DEF pack
  <2>3. /\ run'.pc = "ask" /\ run'.hops = run.hops /\ run'.tries = 0
        /\ run'.todo = run.todo /\ run'.failed = run.failed /\ run'.pack = pack
        /\ run'.got = run.got
    BY <1>1, <2>1 DEF IsRun
  <2>4. RunTyped(run')
    BY <1>1, <2>2, <2>3 DEF RunTyped, PCs
  <2> QED
    BY <1>1, <2>1, <2>4, TypesFromParts DEF GenerationTypes
<1> QED
  BY <1>3, <1>4

(* An answer cites rows of the pack and perhaps the unknown id.            *)
LEMMA TypesOfAnswer ==
  ASSUME GenerationShape, GenerationTypes, Answered \/ AnsweredTwice
  PROVE  GenerationTypes'
<1>1. /\ run.id \in Incidents /\ IsRun(run) /\ RunTyped(run) /\ recorded' = recorded
      /\ UNCHANGED <<attempts, db>>
  BY DEF Answered, AnsweredTwice, GenerationShape, GenerationTypes
<1>2. IsThread(Current) /\ ThreadTyped(Current)
  BY <1>1 DEF GenerationShape, Threads, GenerationTypes, Current
<1>3. ToSet(run.pack) \subseteq Rows
  BY <1>1, TypedIsSeq DEF RunTyped
<1>4. ASSUME NEW pc \in {"ask", "ended"}, NEW tries \in 0 .. 2,
             run' = [run EXCEPT !.pc = pc, !.tries = tries]
      PROVE  RunTyped(run')
  <2>1. /\ run'.pc = pc /\ run'.hops = run.hops /\ run'.tries = tries
        /\ run'.todo = run.todo /\ run'.failed = run.failed /\ run'.pack = run.pack
        /\ run'.got = run.got
    BY <1>1, <1>4 DEF IsRun
  <2> QED
    BY <1>1, <2>1 DEF RunTyped, PCs
<1>5. ASSUME NEW cites \in SUBSET Rows, NEW status \in {"pending_review", "escalated"},
             threads' = [threads EXCEPT ![run.id] =
                           [Current EXCEPT !.cites = cites, !.status = status]]
      PROVE  \A j \in Incidents : ThreadTyped(threads'[j])
  <2> DEFINE t == [Current EXCEPT !.cites = cites, !.status = status]
  <2>1. t.evidence = Current.evidence /\ t.cites = cites /\ t.status = status
    BY <1>2 DEF IsThread
  <2>2. threads' = [threads EXCEPT ![run.id] = t]
    BY <1>5
  <2> HIDE DEF t
  <2>3. ThreadTyped(t)
    BY <1>2, <2>1 DEF ThreadTyped, Statuses
  <2> QED
    BY <1>1, <2>2, <2>3, ThreadsTyped DEF GenerationShape
<1>6. CASE Answered
  <2>1. PICK answer \in Answers :
          IF parse_rca_output(answer)
          THEN /\ run' = [run EXCEPT !.pc = "ended"]
               /\ SetCurrent([Current EXCEPT !.cites = answer.cites,
                    !.status = IF answer.confident THEN "pending_review" ELSE "escalated"])
          ELSE /\ run.tries = 0
               /\ run' = [run EXCEPT !.tries = 1]
               /\ UNCHANGED threads
    BY <1>6 DEF Answered
  <2>2. CASE parse_rca_output(answer)
    <3> DEFINE status == IF answer.confident THEN "pending_review" ELSE "escalated"
               cites  == answer.cites
    <3>1. cites \in SUBSET Rows /\ status \in {"pending_review", "escalated"}
      BY <1>3, <2>2 DEF parse_rca_output
    <3>2. threads' = [threads EXCEPT ![run.id] = [Current EXCEPT !.cites = cites, !.status = status]]
      BY <2>1, <2>2 DEF SetCurrent
    <3> HIDE DEF status, cites
    <3>3. \A j \in Incidents : ThreadTyped(threads'[j])
      BY <1>5, <3>1, <3>2
    <3>4. run' = [run EXCEPT !.pc = "ended", !.tries = run.tries]
      BY <1>1, <2>1, <2>2 DEF IsRun
    <3>5. RunTyped(run')
      BY <1>1, <1>4, <3>4 DEF RunTyped
    <3> QED
      BY <1>1, <3>3, <3>5, TypesFromParts DEF GenerationTypes
  <2>3. CASE ~parse_rca_output(answer)
    <3>1. run' = [run EXCEPT !.tries = 1] /\ threads' = threads
      BY <2>1, <2>3
    <3>2. run.pc = "ask"
      BY <1>6 DEF Answered
    <3>3. run' = [run EXCEPT !.pc = "ask", !.tries = 1]
      BY <1>1, <3>1, <3>2 DEF IsRun
    <3>4. RunTyped(run')
      BY <1>4, <3>3
    <3> QED
      BY <1>1, <3>1, <3>4, TypesFromParts DEF GenerationTypes
  <2> QED
    BY <2>2, <2>3
<1>7. CASE AnsweredTwice
  <2>1. /\ run' = [run EXCEPT !.pc = "ended", !.tries = 2]
        /\ threads' = [threads EXCEPT ![run.id] =
                         [Current EXCEPT !.cites = {}, !.status = "escalated"]]
    BY <1>7 DEF AnsweredTwice, SetCurrent
  <2>2. RunTyped(run')
    BY <1>4, <2>1
  <2>3. \A j \in Incidents : ThreadTyped(threads'[j])
    BY <1>5, <2>1
  <2> QED
    BY <1>1, <2>2, <2>3, TypesFromParts DEF GenerationTypes
<1> QED
  BY <1>6, <1>7

(* An attempt that ended, with or without its rows in the table.           *)
LEMMA TypesOfEnd ==
  ASSUME GenerationShape, GenerationTypes, ModelRaises \/ Commit \/ Rollback \/ Crash
  PROVE  GenerationTypes'
<1>1. run' = NoRun /\ attempts' = attempts /\ recorded' \in {recorded, <<>>}
  BY DEF ModelRaises, Commit, Rollback, Crash, Drained
<1>2. RunTyped(run') /\ recorded' \in Seq(Rows)
  <2>1. recorded \in Seq(Rows) /\ <<>> \in Seq(Rows)
    BY SeqsOfOne, Zenon DEF GenerationTypes
  <2> QED
    BY <1>1, <2>1, NoRunTyped, Zenon
<1>3. threads' = threads \/ threads' = [i \in Incidents |-> NoThread]
  BY DEF ModelRaises, Commit, Rollback, Crash
<1>4. \A j \in Incidents : ThreadTyped(threads'[j])
  BY <1>3, NoThreadTyped DEF GenerationTypes
<1>5. db'.evidence \subseteq Rows /\ db'.done \subseteq Incidents
  <2>1. CASE Commit
    <3>1. db'.evidence = db.evidence \cup ToSet(recorded) /\ db'.done = db.done \cup {run.id}
      BY <2>1 DEF Commit
    <3>2. ToSet(recorded) \subseteq Rows
      BY TypedIsSeq DEF GenerationTypes
    <3>3. run.id \in Incidents
      BY <2>1 DEF Commit, GenerationShape
    <3> QED
      BY <3>1, <3>2, <3>3 DEF GenerationTypes
  <2>2. CASE ModelRaises \/ Rollback \/ Crash
    BY <2>2 DEF ModelRaises, Rollback, Crash, GenerationTypes
  <2> QED
    BY <2>1, <2>2
<1> QED
  BY <1>1, <1>2, <1>4, <1>5 DEF GenerationTypes, RunTyped, ThreadTyped

(* Attempts, channels, recorder, packs and rows keep their shapes for any  *)
(* incidents, tool results and bounds, and no attempt makes more hops than *)
(* the cap allows.                                                         *)
THEOREM GenerationTypeCorrect == Spec => []GenerationTypeOK
<1>1. Init => GenerationTypes
  <2> SUFFICES ASSUME Init PROVE GenerationTypes
    OBVIOUS
  <2>1. attempts \in [Incidents -> 0 .. MaxAttempts]
    BY PackAssumption DEF Init
  <2>2. \A i \in Incidents : threads[i] = NoThread
    BY DEF Init
  <2>3. db.evidence = {} /\ db.done = {} /\ run = NoRun /\ recorded \in Seq(Rows)
    BY DEF Init
  <2> QED
    BY <2>1, <2>2, <2>3, NoRunTyped, NoThreadTyped DEF GenerationTypes
<1>2. GenerationInv /\ GenerationTypes /\ [Next]_vars => GenerationTypes'
  <2> SUFFICES ASSUME GenerationShape, GenerationTypes, [Next]_vars PROVE GenerationTypes'
    BY DEF GenerationInv
  <2>1. CASE UNCHANGED vars
    BY <2>1 DEF vars, GenerationTypes, RunTyped, ThreadTyped
  <2> QED
    BY <2>1, TypesOfStart, TypesOfTime, TypesOfCommander, TypesOfCollect, TypesOfSynthesize,
       TypesOfAnswer, TypesOfEnd DEF Next
<1>3. GenerationTypes => GenerationTypeOK
  BY DEF GenerationTypes, RunTyped, ThreadTyped, PCs, Statuses, GenerationTypeOK
<1> QED
  BY <1>1, <1>2, <1>3, GenerationInvariance, PTL DEF Spec
===========================================================================
