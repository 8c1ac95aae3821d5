----------------------------- MODULE CorpusProofs -----------------------------
(***************************************************************************)
(* The invariants of Corpus, for any texts, groups, sources, corpora and    *)
(* registries.                                                              *)
(***************************************************************************)
EXTENDS Corpus, TLAPS, FiniteSetTheorems

-----------------------------------------------------------------------------
(* Records                                                                  *)

LEMMA SanitizeFields ==
    ASSUME NEW r \in Record
    PROVE  /\ Sanitize(r) \in Record
           /\ Sanitize(r).id = r.id /\ Sanitize(r).source = r.source
           /\ Sanitize(r).licence = r.licence /\ Sanitize(r).flaw = r.flaw
           /\ Sanitize(r).holdout = r.holdout
           /\ Sanitize(r).user = Redacted[r.user] /\ Sanitize(r).answer = Redacted[r.answer]
  BY TextAssumption DEF Sanitize, Record

LEMMA JulietViewIsRecord ==
    ASSUME NEW r \in Record
    PROVE  JulietView(r) \in Record
<1> DEFINE flaw == IF r.flaw = "digest" THEN "none" ELSE r.flaw
<1>1. r.user \in Text /\ r.answer \in Text /\ r.id \in Nat /\ r.id + 1 \in Nat
  BY DEF Record
<1>2. ViewOf[r.user] \in Text /\ ViewOf[r.answer] \in Text
  BY <1>1, TextAssumption
<1>3. flaw \in {"none", "digest", "binary", "disallowed", "roles", "length"}
  BY DEF Record
<1>4. JulietView(r) = [r EXCEPT !.id = r.id + 1, !.parent = r.id, !.user = ViewOf[r.user],
                               !.answer = ViewOf[r.answer], !.kind = "other",
                               !.names = FALSE, !.flaw = flaw]
  BY DEF JulietView, Record
<1> HIDE DEF flaw
<1> QED
  BY <1>1, <1>2, <1>3, <1>4 DEF Record

LEMMA AttackViewIsRecord ==
    ASSUME NEW r \in Record
    PROVE  AttackView(r) \in Record
<1> DEFINE flaw == IF r.flaw = "digest" THEN "none" ELSE r.flaw
<1>1. r.user \in Text /\ r.answer \in Text /\ r.id \in Nat /\ r.id + 1 \in Nat
  BY DEF Record
<1>2. ViewOf[r.user] \in Text /\ ViewOf[r.answer] \in Text
  BY <1>1, TextAssumption
<1>3. flaw \in {"none", "digest", "binary", "disallowed", "roles", "length"}
  BY DEF Record
<1>4. AttackView(r) = [r EXCEPT !.id = r.id + 1, !.parent = r.id, !.user = ViewOf[r.user],
                               !.answer = ViewOf[r.answer], !.kind = "other", !.flaw = flaw]
  BY DEF AttackView, Record
<1> HIDE DEF flaw
<1> QED
  BY <1>1, <1>2, <1>3, <1>4 DEF Record

LEMMA SanitizedIsAdmissible ==
    ASSUME NEW r \in Record, NEW policy, NEW mode, Admissible(r, policy, mode)
    PROVE  Admissible(Sanitize(r), policy, mode)
  BY SanitizeFields DEF Admissible, ProvenanceHolds

(* Every set of naturals that is not empty has a least member.              *)
LEMMA Least ==
    ASSUME NEW S \in SUBSET Nat, S # {}
    PROVE  \E m \in S : \A n \in S : m <= n
<1> DEFINE T == {1 .. n : n \in S}
           R == StrictSubsetOrdering(Nat)
<1>1. T \subseteq FiniteSubsetsOf(Nat) /\ T # {}
  <2> SUFFICES ASSUME NEW n \in S PROVE 1 .. n \in FiniteSubsetsOf(Nat)
    OBVIOUS
  <2>1. IsFiniteSet(1 .. n)
    BY FS_Interval
  <2> QED
    BY <2>1 DEF FiniteSubsetsOf
<1>2. IsWellFoundedOn(R, FiniteSubsetsOf(Nat))
  BY FS_StrictSubsetOrderingWellFounded
<1>3. \A m, n \in Nat : n < m => <<1 .. n, 1 .. m>> \in R
  <2> SUFFICES ASSUME NEW m \in Nat, NEW n \in Nat, n < m
               PROVE  <<1 .. n, 1 .. m>> \in R
    OBVIOUS
  <2>1. 1 .. n \subseteq Nat /\ 1 .. m \subseteq Nat /\ 1 .. n \subseteq 1 .. m
    OBVIOUS
  <2>2. m \in 1 .. m /\ m \notin 1 .. n
    OBVIOUS
  <2> QED
    BY <2>1, <2>2 DEF StrictSubsetOrdering
<1> HIDE DEF R
<1>4. PICK x \in T : \A y \in T : ~ (<<y, x>> \in R)
  BY <1>1, <1>2, WFMin
<1>5. PICK m \in S : x = 1 .. m
  BY <1>4
<1>6. \A n \in S : ~ (n < m)
  BY <1>3, <1>4, <1>5
<1> QED
  BY <1>6

-----------------------------------------------------------------------------
(* Duplicates                                                               *)

(* Of the records of one content, one that comes first is kept: a record    *)
(* that is not kept has a variant before it that is.                        *)
LEMMA FirstIsKept ==
    ASSUME NEW S \in SUBSET Record, \A r, s \in S : r.id = s.id => r = s, NEW h \in S
    PROVE  \E k \in Kept(S) : NormalHash(k) = NormalHash(h) /\ (k = h \/ Before(k, h))
<1> DEFINE C == {r \in S : NormalHash(r) = NormalHash(h)}
           H == {r \in C : r.holdout}
           P == IF H = {} THEN C ELSE H
           I == {r.id : r \in P}
<1>1. P # {} /\ P \subseteq S /\ P \subseteq C
  OBVIOUS
<1>2. I \in SUBSET Nat /\ I # {}
  BY <1>1 DEF Record
<1>3. PICK i \in I : \A n \in I : i <= n
  BY <1>2, Least
<1>4. PICK k \in P : k.id = i
  BY <1>3
<1>5. k \in S /\ NormalHash(k) = NormalHash(h)
  BY <1>1
<1>6. \A r \in P : k.id <= r.id
  BY <1>3, <1>4
<1>7. \A r \in S : r.id \in Nat /\ r.holdout \in BOOLEAN
  BY DEF Record
<1>8. \A r \in C : r = k \/ Before(k, r)
  <2> SUFFICES ASSUME NEW r \in C PROVE r = k \/ Before(k, r)
    OBVIOUS
  <2>1. CASE H = {}
    <3>1. ~k.holdout /\ ~r.holdout /\ k.id <= r.id
      BY <2>1, <1>6
    <3> QED
      BY <3>1, <1>5, <1>7 DEF Before
  <2>2. CASE H # {}
    <3>1. k \in H /\ (r.holdout => r \in P)
      BY <2>2, <1>4
    <3>2. k.holdout /\ (r.holdout => k.id <= r.id)
      BY <3>1, <1>6
    <3>3. CASE ~r.holdout
      BY <3>2, <3>3 DEF Before
    <3>4. CASE r.holdout
      BY <3>2, <3>4, <1>5, <1>7 DEF Before
    <3> QED
      BY <3>3, <3>4
  <2> QED
    BY <2>1, <2>2
<1>9. \A r \in C : ~Before(r, k)
  <2> SUFFICES ASSUME NEW r \in C, Before(r, k) PROVE FALSE
    OBVIOUS
  <2>1. r = k \/ Before(k, r)
    BY <1>8
  <2> QED
    BY <2>1, <1>5, <1>7 DEF Before
<1>10. k \in Deduplicate(S)
  <2> SUFFICES ASSUME NEW s \in S, Before(s, k), ExactHash(s) = ExactHash(k) PROVE FALSE
    BY <1>5 DEF Deduplicate
  <2>1. s.user = k.user /\ s.answer = k.answer /\ s.kind = k.kind
    BY DEF ExactHash
  <2>2. s \in C
    BY <2>1, <1>5 DEF NormalHash, Task
  <2> QED
    BY <2>2, <1>9
<1>11. k \in Kept(S)
  <2> SUFFICES ASSUME NEW s \in Deduplicate(S), Before(s, k), NormalHash(s) = NormalHash(k)
               PROVE  FALSE
    BY <1>10 DEF Kept, DeduplicateNear
  <2>1. s \in C
    BY <1>5 DEF Deduplicate
  <2> QED
    BY <2>1, <1>9
<1>12. k = h \/ Before(k, h)
  BY <1>8
<1> QED
  BY <1>5, <1>11, <1>12

(* Of the records that are kept no two have one content.                    *)
LEMMA KeptOnce ==
    ASSUME NEW S \in SUBSET Record, \A r, s \in S : r.id = s.id => r = s,
           NEW a \in Kept(S), NEW b \in Kept(S), NormalHash(a) = NormalHash(b)
    PROVE  a = b
<1>1. a \in S /\ b \in S
  BY DEF Kept, DeduplicateNear, Deduplicate
<1>2. ~Before(a, b) /\ ~Before(b, a)
  BY DEF Kept, DeduplicateNear
<1>3. a.id \in Nat /\ b.id \in Nat /\ a.holdout \in BOOLEAN /\ b.holdout \in BOOLEAN
  BY <1>1 DEF Record
<1> QED
  BY <1>1, <1>2, <1>3 DEF Before

LEMMA KeptIsThere == ASSUME NEW S PROVE Kept(S) \subseteq S
  BY DEF Kept, DeduplicateNear, Deduplicate

-----------------------------------------------------------------------------
(* Types                                                                    *)

LEMMA TypeInit == Init => TypeOK
<1> SUFFICES ASSUME Init PROVE TypeOK
  OBVIOUS
<1>1. file \in [File -> SUBSET Record]
  BY CorporaAssumption DEF Init, File
<1>2. prep \in [at : {"idle", "hashing", "reading", "rehashing", "checking", "describing",
                      "prepared"},
                mode : Mode \cup {"none"}, next : File, policy : Registries,
                before : SUBSET Record, digest : [File -> SUBSET Record],
                admitted : SUBSET Record]
  BY DEF Init, File
<1> QED
  BY <1>1, <1>2 DEF Init, TypeOK, NoRecords

LEMMA SanitizedType == \A records \in SUBSET Record : Sanitized(records) \in SUBSET Record
  BY SanitizeFields DEF Sanitized

LEMMA KeptIsSplit ==
    ASSUME NEW S \in SUBSET Record
    PROVE  Assigned(S) \in [Split -> SUBSET Record]
  BY DEF Assigned

LEMMA TypeStep ==
    ASSUME TypeOK, [Next]_vars
    PROVE  TypeOK'
<1> USE DEF TypeOK, File
<1>1. CASE Decontaminate
  BY <1>1 DEF Decontaminate
<1>2. CASE DeriveJuliet
  <2>1. {JulietView(r) : r \in file.canonical} \in SUBSET Record
    BY JulietViewIsRecord
  <2> QED
    BY <1>2, <2>1 DEF DeriveJuliet
<1>3. CASE DeriveAttack
  <2> DEFINE derived ==
          {AttackView(r) : r \in {p \in {r \in file.canonical : r.kind = "procedure"} : ~p.names}}
  <2>1. derived \in SUBSET Record
    BY AttackViewIsRecord
  <2>2. file' = [file EXCEPT !.derived = derived]
    BY <1>3 DEF DeriveAttack
  <2> HIDE DEF derived
  <2> QED
    BY <1>3, <2>1, <2>2 DEF DeriveAttack
<1>4. ASSUME NEW f \in File, ScanInput(f) PROVE TypeOK'
  BY <1>4 DEF ScanInput
<1>5. ASSUME NEW mode \in Mode, Begin(mode) PROVE TypeOK'
  BY <1>5 DEF Begin
<1>6. CASE HashInput
  BY <1>6 DEF HashInput
<1>7. CASE ReadInput
  <2>1. Sanitized(file[prep.next]) \in SUBSET Record
    BY SanitizedType
  <2>2. prep' = [prep EXCEPT !.at = "rehashing",
                             !.admitted = prep.admitted \cup Sanitized(file[prep.next])]
    BY <1>7 DEF ReadInput, Sanitized
  <2> QED
    BY <1>7, <2>1, <2>2 DEF ReadInput
<1>8. CASE RehashInput
  <2> DEFINE at == IF prep.next = "canonical" THEN "hashing" ELSE "checking"
             digest == [prep.digest EXCEPT ![prep.next] = prep.before]
  <2>1. prep' = [prep EXCEPT !.at = at, !.next = "derived", !.digest = digest]
    BY <1>8 DEF RehashInput
  <2>2. at \in {"hashing", "checking"} /\ digest \in [File -> SUBSET Record]
    OBVIOUS
  <2> HIDE DEF at, digest
  <2> QED
    BY <1>8, <2>1, <2>2 DEF RehashInput
<1>9. CASE SplitRecords
  <2>1. Assigned(Kept(prep.admitted)) \in [Split -> SUBSET Record]
    BY KeptIsThere, KeptIsSplit
  <2> QED
    BY <1>9, <2>1 DEF SplitRecords
<1>10. CASE WriteManifest
  BY <1>10 DEF WriteManifest
<1>11. ASSUME NEW supplied \in SUBSET {"train", "validation"}, TrainOn(supplied) PROVE TypeOK'
  BY <1>11 DEF TrainOn, Split
<1>12. ASSUME NEW f \in File, NEW content \in Tampered \cup {prep.before}, EditInput(f, content)
       PROVE  TypeOK'
  <2>1. content \in SUBSET Record
    BY CorporaAssumption
  <2> QED
    BY <1>12, <2>1 DEF EditInput
<1>13. ASSUME NEW policy \in Registries, ReviseRegistry(policy) PROVE TypeOK'
  BY <1>13 DEF ReviseRegistry
<1>14. CASE SearchSplit
  BY <1>14 DEF SearchSplit
<1>15. CASE UNCHANGED vars
  BY <1>15 DEF vars
<1> QED
  BY <1>1, <1>2, <1>3, <1>4, <1>5, <1>6, <1>7, <1>8, <1>9, <1>10, <1>11, <1>12, <1>13, <1>14,
     <1>15 DEF Next

-----------------------------------------------------------------------------
(* Stages                                                                   *)

LEMMA StageStep ==
    ASSUME TypeOK, StageInv, [Next]_vars
    PROVE  StageInv'
<1> USE DEF TypeOK, StageInv, PrepAt
<1>1. CASE Decontaminate
  BY <1>1 DEF Decontaminate
<1>2. CASE DeriveJuliet
  BY <1>2 DEF DeriveJuliet
<1>3. CASE DeriveAttack
  BY <1>3 DEF DeriveAttack
<1>4. ASSUME NEW f \in File, ScanInput(f) PROVE StageInv'
  BY <1>4 DEF ScanInput
<1>5. ASSUME NEW mode \in Mode, Begin(mode) PROVE StageInv'
  BY <1>5 DEF Begin
<1>6. CASE HashInput
  BY <1>6 DEF HashInput
<1>7. CASE ReadInput
  BY <1>7 DEF ReadInput
<1>8. CASE RehashInput
  BY <1>8 DEF RehashInput
<1>9. CASE SplitRecords
  BY <1>9 DEF SplitRecords
<1>10. CASE WriteManifest
  BY <1>10 DEF WriteManifest
<1>11. ASSUME NEW supplied \in SUBSET {"train", "validation"}, TrainOn(supplied) PROVE StageInv'
  BY <1>11 DEF TrainOn
<1>12. ASSUME NEW f \in File, NEW content \in Tampered \cup {prep.before}, EditInput(f, content)
       PROVE  StageInv'
  BY <1>12 DEF EditInput
<1>13. ASSUME NEW policy \in Registries, ReviseRegistry(policy) PROVE StageInv'
  BY <1>13 DEF ReviseRegistry
<1>14. CASE SearchSplit
  BY <1>14 DEF SearchSplit
<1>15. CASE UNCHANGED vars
  BY <1>15 DEF vars
<1> QED
  BY <1>1, <1>2, <1>3, <1>4, <1>5, <1>6, <1>7, <1>8, <1>9, <1>10, <1>11, <1>12, <1>13, <1>14,
     <1>15 DEF Next

-----------------------------------------------------------------------------
(* What is admitted                                                         *)

LEMMA AdmittedStep ==
    ASSUME TypeOK, StageInv, AdmittedInv, [Next]_vars
    PROVE  AdmittedInv'
<1> USE DEF TypeOK, AdmittedInv, PrepAt
<1>1. ASSUME prep.admitted' = prep.admitted, prep.policy' = prep.policy, prep.mode' = prep.mode
      PROVE  AdmittedInv'
  BY <1>1
<1>2. CASE Decontaminate \/ DeriveJuliet \/ DeriveAttack \/ (\E f \in File : ScanInput(f))
  BY <1>1, <1>2 DEF Decontaminate, DeriveJuliet, DeriveAttack, ScanInput
<1>3. ASSUME NEW mode \in Mode, Begin(mode) PROVE AdmittedInv'
  BY <1>3 DEF Begin, StageInv
<1>4. CASE HashInput
  BY <1>1, <1>4 DEF HashInput
<1>5. CASE ReadInput
  <2> DEFINE read == file[prep.next]
  <2>1. read \in SUBSET Record
    BY DEF File
  <2>2. prep.admitted' = prep.admitted \cup {Sanitize(r) : r \in read}
        /\ prep.policy' = prep.policy /\ prep.mode' = prep.mode
    BY <1>5 DEF ReadInput
  <2>3. \A r \in read : Admissible(r, prep.policy, prep.mode)
    BY <1>5 DEF ReadInput
  <2>4. \A r \in read : Admissible(Sanitize(r), prep.policy, prep.mode)
                        /\ Sanitize(r).id = r.id
    BY <2>1, <2>3, SanitizedIsAdmissible, SanitizeFields
  <2>5. /\ \A r, s \in read : r.id = s.id => r = s
        /\ \A r \in read, s \in prep.admitted : r.id # s.id
    BY <1>5 DEF ReadInput
  <2>6. \A r \in prep.admitted' : Admissible(r, prep.policy, prep.mode)
    BY <2>2, <2>4
  <2>7. \A r, s \in prep.admitted' : r.id = s.id => r = s
    BY <2>2, <2>4, <2>5
  <2> QED
    BY <2>2, <2>6, <2>7
<1>6. CASE RehashInput
  BY <1>1, <1>6 DEF RehashInput
<1>7. CASE SplitRecords
  BY <1>1, <1>7 DEF SplitRecords
<1>8. CASE WriteManifest
  BY <1>1, <1>8 DEF WriteManifest
<1>9. ASSUME NEW supplied \in SUBSET {"train", "validation"}, TrainOn(supplied)
      PROVE  AdmittedInv'
  BY <1>1, <1>9 DEF TrainOn
<1>10. ASSUME NEW f \in File, NEW content \in Tampered \cup {prep.before}, EditInput(f, content)
       PROVE  AdmittedInv'
  BY <1>1, <1>10 DEF EditInput
<1>11. ASSUME NEW policy \in Registries, ReviseRegistry(policy) PROVE AdmittedInv'
  BY <1>1, <1>11 DEF ReviseRegistry
<1>12. CASE SearchSplit
  BY <1>1, <1>12 DEF SearchSplit
<1>13. CASE UNCHANGED vars
  BY <1>1, <1>13 DEF vars
<1> QED
  BY <1>2, <1>3, <1>4, <1>5, <1>6, <1>7, <1>8, <1>9, <1>10, <1>11, <1>12, <1>13 DEF Next

(* What is admitted is trainable or for evaluation only, and no holdout and *)
(* nothing for evaluation is admitted where all goes to the training split. *)
LEMMA AdmittedClasses ==
    ASSUME TypeOK, AdmittedInv, NEW r \in prep.admitted
    PROVE  /\ ClassOf(r) \in {"allow_train", "eval_only"}
           /\ r.flaw \notin {"digest", "binary"}
           /\ prep.mode = "train_only" => ~Withheld(r)
<1>1. Admissible(r, prep.policy, prep.mode)
  BY DEF AdmittedInv
<1>2. prep.policy \in Registry
  BY CorporaAssumption DEF TypeOK
<1>3. r.source \in Source
  BY DEF TypeOK, Record
<1>4. prep.policy[r.source].class \in Class
  BY <1>2, <1>3 DEF Registry
<1>5. /\ Allows(prep.policy[r.source], "train") => ClassOf(r) = "allow_train"
      /\ Allows(prep.policy[r.source], "evaluate") => ClassOf(r) = "eval_only"
  BY <1>4 DEF Allows, ClassOf, Class
<1> QED
  BY <1>1, <1>5 DEF Admissible, ProvenanceHolds, Withheld

-----------------------------------------------------------------------------
(* Splits                                                                   *)

(* A record that is withheld is assigned to the test or to the evaluation   *)
(* split.                                                                   *)
LEMMA WithheldIsAssigned ==
    ASSUME TypeOK, AdmittedInv, NEW r \in Kept(prep.admitted)
    PROVE  LET assigned == Assigned(Kept(prep.admitted)) IN
           /\ \E s \in Split : r \in assigned[s]
           /\ Withheld(r) => r \notin assigned["train"] /\ r \notin assigned["validation"]
<1> DEFINE K == Kept(prep.admitted)
<1>1. r \in prep.admitted /\ r \in Record /\ r.group \in Group
  BY KeptIsThere DEF TypeOK, Record
<1>2. r \in Lineage(K, r.group)
  BY DEF Lineage
<1>3. SplitOf(K, r.group) \in Split
  <2>1. Bucket[r.group] \in Split
    BY <1>1, BucketAssumption DEF Split
  <2> QED
    BY <2>1 DEF SplitOf, Split
<1>4. CASE prep.mode = "train_only"
  <2>1. r \in Assigned(K)["train"]
    BY <1>4 DEF Assigned, Split
  <2>2. ~Withheld(r)
    BY <1>1, <1>4, AdmittedClasses
  <2> QED
    BY <2>1, <2>2 DEF Split
<1>5. CASE prep.mode # "train_only"
  <2>1. \A s \in Split : Assigned(K)[s] = {q \in K : SplitOf(K, q.group) = s}
    BY <1>5 DEF Assigned
  <2>2. Withheld(r) => SplitOf(K, r.group) \in {"evaluation", "test"}
    BY <1>2 DEF SplitOf, Withheld
  <2> HIDE DEF K
  <2>3. \A s \in Split : r \in Assigned(K)[s] => SplitOf(K, r.group) = s
    BY <2>1
  <2>4. "train" \in Split /\ "validation" \in Split
    BY DEF Split
  <2>5. Withheld(r) => r \notin Assigned(K)["train"] /\ r \notin Assigned(K)["validation"]
    BY <2>2, <2>3, <2>4
  <2>6. r \in K
    BY DEF K
  <2>7. \E s \in Split : r \in Assigned(K)[s]
    BY <2>1, <2>6, <1>3
  <2> QED
    BY <2>5, <2>7 DEF K
<1> QED
  BY <1>4, <1>5

LEMMA SplitStep ==
    ASSUME TypeOK, StageInv, AdmittedInv, SplitInv, [Next]_vars
    PROVE  SplitInv'
<1> USE DEF TypeOK, PrepAt
<1>1. ASSUME prep.admitted' = prep.admitted, prep.policy' = prep.policy, split' = split,
             prep.at \in {"describing", "prepared"}
      PROVE  SplitInv'
  BY <1>1 DEF SplitInv, Withheld, ClassOf, SplitsAreIsolated, ParentGroupsHold,
              NoTrainEvalDuplicates
<1>2. ASSUME prep'.at \notin {"describing", "prepared"} PROVE SplitInv'
  BY <1>2 DEF SplitInv
<1>3. CASE Decontaminate \/ DeriveJuliet \/ DeriveAttack \/ (\E f \in File : ScanInput(f))
  BY <1>2, <1>3 DEF Decontaminate, DeriveJuliet, DeriveAttack, ScanInput
<1>4. ASSUME NEW mode \in Mode, Begin(mode) PROVE SplitInv'
  BY <1>2, <1>4 DEF Begin
<1>5. CASE HashInput
  BY <1>2, <1>5 DEF HashInput
<1>6. CASE ReadInput
  BY <1>2, <1>6 DEF ReadInput
<1>7. CASE RehashInput
  BY <1>2, <1>7 DEF RehashInput
<1>8. CASE SplitRecords
  <2> DEFINE K == Kept(prep.admitted)
  <2>1. prep'.admitted = prep.admitted /\ prep'.policy = prep.policy /\ split' = Assigned(K)
    BY <1>8 DEF SplitRecords
  <2>2. \A s \in Split : Assigned(K)[s] \subseteq K
    BY DEF Assigned
  <2>3. \A r \in K :
            /\ \E s \in Split : r \in Assigned(K)[s]
            /\ Withheld(r) => r \notin Assigned(K)["train"] /\ r \notin Assigned(K)["validation"]
    BY WithheldIsAssigned
  <2>4. /\ SplitsAreIsolated(Assigned(K))
        /\ ParentGroupsHold(prep.admitted) /\ NoTrainEvalDuplicates(prep.admitted)
    BY <1>8 DEF SplitRecords
  <2>5. \A r : ClassOf(r)' = ClassOf(r) /\ Withheld(r)' = Withheld(r)
    BY <2>1 DEF ClassOf, Withheld
  <2>6. NoTrainEvalDuplicates(prep.admitted)'
    BY <2>1, <2>4, <2>5 DEF NoTrainEvalDuplicates
  <2>7. SplitsAreIsolated(split)' /\ ParentGroupsHold(prep.admitted)'
    BY <2>1, <2>4 DEF SplitsAreIsolated, ParentGroupsHold
  <2>8. Kept(prep.admitted)' = K
    BY <2>1
  <2> HIDE DEF K
  <2>9. \A s \in Split : split'[s] \subseteq Kept(prep.admitted)'
    BY <2>1, <2>2, <2>8
  <2>10. \A r \in Kept(prep.admitted)' :
            /\ \E s \in Split : r \in split'[s]
            /\ Withheld(r)' => r \notin split'.train /\ r \notin split'.validation
    BY <2>1, <2>3, <2>5, <2>8
  <2> QED
    BY <2>6, <2>7, <2>9, <2>10 DEF SplitInv
<1>9. CASE WriteManifest
  BY <1>1, <1>9 DEF WriteManifest
<1>10. ASSUME NEW supplied \in SUBSET {"train", "validation"}, TrainOn(supplied)
       PROVE  SplitInv'
  BY <1>1, <1>10 DEF TrainOn
<1>11. ASSUME NEW f \in File, NEW content \in Tampered \cup {prep.before}, EditInput(f, content)
       PROVE  SplitInv'
  BY <1>2, <1>11 DEF EditInput
<1>12. ASSUME NEW policy \in Registries, ReviseRegistry(policy) PROVE SplitInv'
  BY <1>1, <1>12 DEF ReviseRegistry
<1>13. CASE SearchSplit
  BY <1>1, <1>13 DEF SearchSplit
<1>14. CASE UNCHANGED vars
  BY <1>1, <1>2, <1>14 DEF vars
<1> QED
  BY <1>3, <1>4, <1>5, <1>6, <1>7, <1>8, <1>9, <1>10, <1>11, <1>12, <1>13, <1>14 DEF Next

-----------------------------------------------------------------------------
(* Decontamination                                                          *)

LEMMA CleanStep ==
    ASSUME TypeOK, StageInv, CleanInv, [Next]_vars
    PROVE  CleanInv'
<1> USE DEF TypeOK, PrepAt
<1> DEFINE Sound(r) == \E f \in File : \E q \in file[f] : Sanitize(q) = r /\ ~Contaminated(q)
<1>1. ASSUME file' = file, scanned' = scanned, prep.admitted' = prep.admitted,
             prep'.at = prep.at, split' = split
      PROVE  CleanInv'
  BY <1>1 DEF CleanInv, Clean, Contaminated, Sanitize
<1>2. ASSUME file' = file, scanned' = scanned, prep.admitted' = prep.admitted,
             prep.at # "prepared"
      PROVE  CleanInv'
  BY <1>2 DEF CleanInv, Clean, Contaminated, Sanitize
<1>3. ASSUME prep' = prep, prep.at = "idle", scanned' \subseteq scanned \cup File,
             \A f \in File \cap scanned' : Clean(file'[f])
      PROVE  CleanInv'
  <2>1. prep'.admitted = {} /\ "train" \notin scanned'
    BY <1>3 DEF CleanInv, StageInv, File
  <2> QED
    BY <1>3, <2>1 DEF CleanInv, Clean, Contaminated
<1>4. CASE Decontaminate
  <2> DEFINE clean == {r \in file.canonical : ~Contaminated(r)}
  <2>1. prep.at = "idle" /\ prep' = prep /\ scanned' = scanned \cup {"canonical"}
        /\ file' = [file EXCEPT !.canonical = clean]
    BY <1>4 DEF Decontaminate
  <2>2. Clean(clean)
    BY DEF Clean
  <2> HIDE DEF clean
  <2>3. \A f \in File \cap scanned' : Clean(file'[f])
    BY <2>1, <2>2 DEF CleanInv, File
  <2> QED
    BY <1>3, <2>1, <2>3 DEF File
<1>5. CASE DeriveJuliet \/ DeriveAttack
  <2>1. prep.at = "idle" /\ prep' = prep /\ scanned' = scanned \ {"derived"}
        /\ file'["canonical"] = file["canonical"]
    BY <1>5 DEF DeriveJuliet, DeriveAttack, File
  <2>2. \A f \in File \cap scanned' : Clean(file'[f])
    BY <2>1 DEF CleanInv, File
  <2> QED
    BY <1>3, <2>1, <2>2
<1>6. ASSUME NEW f \in File, ScanInput(f) PROVE CleanInv'
  <2>1. prep.at = "idle" /\ prep' = prep /\ file' = file /\ scanned' = scanned \cup {f}
        /\ Clean(file[f])
    BY <1>6 DEF ScanInput, Clean
  <2>2. \A g \in File \cap scanned' : Clean(file'[g])
    BY <2>1 DEF CleanInv
  <2> QED
    BY <1>3, <2>1, <2>2
<1>7. ASSUME NEW mode \in Mode, Begin(mode) PROVE CleanInv'
  BY <1>2, <1>7 DEF Begin
<1>8. CASE HashInput
  BY <1>2, <1>8 DEF HashInput
<1>9. CASE ReadInput
  <2>1. file' = file /\ scanned' = scanned /\ prep.at = "reading"
        /\ prep'.admitted = prep.admitted \cup {Sanitize(r) : r \in file[prep.next]}
    BY <1>9 DEF ReadInput
  <2>2. File \subseteq scanned => \A q \in file[prep.next] : ~Contaminated(q)
    BY DEF CleanInv, Clean
  <2>3. File \subseteq scanned => \A r \in prep'.admitted : Sound(r)
    BY <2>1, <2>2 DEF CleanInv
  <2>4. "train" \notin scanned
    BY <2>1 DEF CleanInv
  <2> QED
    BY <2>1, <2>3, <2>4 DEF CleanInv, Clean, Contaminated, Sanitize
<1>10. CASE RehashInput
  BY <1>2, <1>10 DEF RehashInput
<1>11. CASE SplitRecords
  BY <1>2, <1>11 DEF SplitRecords
<1>12. CASE WriteManifest
  BY <1>2, <1>12 DEF WriteManifest
<1>13. CASE SearchSplit
  <2>1. prep.at = "prepared" /\ prep' = prep /\ file' = file /\ split' = split
        /\ scanned' = scanned \cup {"train"}
        /\ Clean({r \in split.train : r.source \in Rescanned})
    BY <1>13 DEF SearchSplit, Clean
  <2>2. File \cap scanned' = File \cap scanned
        /\ (File \subseteq scanned' => File \subseteq scanned)
    BY <2>1 DEF File
  <2> QED
    BY <2>1, <2>2 DEF CleanInv, Clean, Contaminated, Sanitize
<1>14. ASSUME NEW supplied \in SUBSET {"train", "validation"}, TrainOn(supplied)
       PROVE  CleanInv'
  BY <1>1, <1>14 DEF TrainOn
<1>15. ASSUME NEW f \in File, NEW content \in Tampered \cup {prep.before}, EditInput(f, content)
       PROVE  CleanInv'
  <2>1. prep' = prep /\ prep.at # "prepared" /\ scanned' = scanned \ {f}
        /\ file' = [file EXCEPT ![f] = content]
    BY <1>15 DEF EditInput
  <2>2. \A g \in File \cap scanned' : Clean(file'[g])
    BY <2>1 DEF CleanInv
  <2>3. ~(File \subseteq scanned') /\ "train" \notin scanned'
    BY <2>1 DEF CleanInv
  <2> QED
    BY <2>2, <2>3 DEF CleanInv, Clean, Contaminated
<1>16. ASSUME NEW policy \in Registries, ReviseRegistry(policy) PROVE CleanInv'
  BY <1>1, <1>16 DEF ReviseRegistry
<1>17. CASE UNCHANGED vars
  BY <1>1, <1>17 DEF vars
<1> QED
  BY <1>4, <1>5, <1>6, <1>7, <1>8, <1>9, <1>10, <1>11, <1>12, <1>13, <1>14, <1>15, <1>16, <1>17
  DEF Next

-----------------------------------------------------------------------------
(* Digests and the manifest                                                 *)

LEMMA DigestStep ==
    ASSUME TypeOK, StageInv, DigestInv, [Next]_vars
    PROVE  DigestInv'
<1> USE DEF TypeOK, PrepAt, File
<1>1. ASSUME touched' = touched, prep.admitted' = prep.admitted, prep.digest' = prep.digest,
             prep.at \in {"checking", "describing", "prepared"},
             prep'.at \in {"checking", "describing", "prepared"}
      PROVE  DigestInv'
  BY <1>1 DEF DigestInv, Described, Sanitized, Sanitize
<1>2. CASE Decontaminate \/ DeriveJuliet \/ DeriveAttack \/ (\E f \in File : ScanInput(f))
  <2>1. prep' = prep /\ prep.at = "idle"
    BY <1>2 DEF Decontaminate, DeriveJuliet, DeriveAttack, ScanInput
  <2> QED
    BY <2>1 DEF DigestInv, Described
<1>3. ASSUME NEW mode \in Mode, Begin(mode) PROVE DigestInv'
  <2>1. prep'.at = "hashing" /\ prep'.next = "canonical" /\ prep'.admitted = {}
    BY <1>3 DEF Begin, StageInv
  <2> QED
    BY <2>1 DEF DigestInv, Described, Previous
<1>4. CASE HashInput
  <2>1. prep.at = "hashing" /\ prep'.at = "reading" /\ prep'.next = prep.next
        /\ prep'.before = file[prep.next] /\ prep'.admitted = prep.admitted
        /\ prep'.digest = prep.digest /\ file' = file /\ touched' = touched
    BY <1>4 DEF HashInput
  <2>2. Previous' = Previous
    BY <2>1 DEF Previous, Sanitized, Sanitize
  <2>3. Described => prep.admitted = Previous
    BY <2>1 DEF DigestInv, Described
  <2> QED
    BY <2>1, <2>2, <2>3 DEF DigestInv, Described
<1>5. CASE ReadInput
  <2>1. prep.at = "reading" /\ prep'.at = "rehashing" /\ prep'.next = prep.next
        /\ prep'.before = prep.before /\ prep'.digest = prep.digest
        /\ prep'.admitted = prep.admitted \cup Sanitized(file[prep.next])
        /\ file' = file /\ touched' = touched
    BY <1>5 DEF ReadInput, Sanitized
  <2>2. Previous' = Previous /\ Sanitized(prep.before)' = Sanitized(prep.before)
        /\ Sanitized(file[prep.next])' = Sanitized(file[prep.next])
    BY <2>1 DEF Previous, Sanitized, Sanitize
  <2>3. Described => prep.admitted = Previous
    BY <2>1 DEF DigestInv, Described
  <2>4. Described => prep'.admitted = Previous \cup Sanitized(file[prep.next])
    BY <2>1, <2>3
  <2>5. touched[prep.next] = 0 => file[prep.next] = prep.before
    BY <2>1 DEF DigestInv, Described
  <2> QED
    BY <2>1, <2>2, <2>4, <2>5 DEF DigestInv, Described
<1>6. CASE RehashInput
  <2>1. prep.at = "rehashing" /\ file[prep.next] = prep.before /\ touched' = touched
        /\ prep'.admitted = prep.admitted /\ prep'.next = "derived"
        /\ prep'.at = (IF prep.next = "canonical" THEN "hashing" ELSE "checking")
        /\ prep'.digest = [prep.digest EXCEPT ![prep.next] = prep.before]
    BY <1>6 DEF RehashInput
  <2>2. Described => prep.admitted = Previous \cup Sanitized(prep.before)
    BY <2>1 DEF DigestInv, Described
  <2>3. CASE prep.next = "canonical"
    <3>1. Previous = {} /\ Previous' = Sanitized(prep.before)
      BY <2>1, <2>3 DEF Previous, Sanitized, Sanitize
    <3> QED
      BY <2>1, <2>2, <2>3, <3>1 DEF DigestInv, Described
  <2>4. CASE prep.next = "derived"
    <3>1. Previous = Sanitized(prep.digest["canonical"])
      BY <2>4 DEF Previous
    <3>2. prep'.digest["canonical"] = prep.digest["canonical"]
          /\ prep'.digest["derived"] = prep.before /\ prep'.at = "checking"
      BY <2>1, <2>4
    <3>3. Sanitized(prep.digest["canonical"])' = Sanitized(prep.digest["canonical"])
          /\ Sanitized(prep.digest["derived"])' = Sanitized(prep.before)
      BY <3>2 DEF Sanitized, Sanitize
    <3> QED
      BY <2>1, <2>2, <3>1, <3>2, <3>3 DEF DigestInv, Described
  <2> QED
    BY <2>3, <2>4
<1>7. CASE SplitRecords
  BY <1>1, <1>7 DEF SplitRecords
<1>8. CASE WriteManifest
  BY <1>1, <1>8 DEF WriteManifest
<1>9. ASSUME NEW supplied \in SUBSET {"train", "validation"}, TrainOn(supplied)
      PROVE  DigestInv'
  BY <1>1, <1>9 DEF TrainOn
<1>10. ASSUME NEW f \in File, NEW content \in Tampered \cup {prep.before}, EditInput(f, content)
       PROVE  DigestInv'
  <2>1. prep' = prep /\ prep.at \in {"idle", "hashing", "reading", "rehashing"}
        /\ file' = [file EXCEPT ![f] = content]
    BY <1>10 DEF EditInput
  <2>2. Previous' = Previous /\ Sanitized(prep.before)' = Sanitized(prep.before)
    BY <2>1 DEF Previous, Sanitized, Sanitize
  <2>3. CASE f = prep.next /\ prep.at \in {"reading", "rehashing"}
    <3>1. touched' = [touched EXCEPT ![f] = touched[f] + 1]
      BY <1>10, <2>3 DEF EditInput
    <3>2. touched'[prep'.next] # 0 /\ (Described' => Described /\ touched[prep.next] = 0)
      BY <2>1, <2>3, <3>1 DEF Described
    <3> QED
      BY <2>1, <2>2, <2>3, <3>2 DEF DigestInv, Described
  <2>4. CASE f # prep.next /\ prep.at \in {"reading", "rehashing"}
    <3>1. touched' = touched /\ file'[prep'.next] = file[prep.next]
      BY <1>10, <2>1, <2>4 DEF EditInput
    <3>2. Sanitized(file[prep.next])' = Sanitized(file[prep.next])
      BY <3>1 DEF Sanitized, Sanitize
    <3> QED
      BY <2>1, <2>2, <2>4, <3>1, <3>2 DEF DigestInv, Described
  <2>5. CASE prep.at \in {"idle", "hashing"}
    <3>1. touched' = touched
      BY <1>10, <2>5 DEF EditInput
    <3> QED
      BY <2>1, <2>2, <2>5, <3>1 DEF DigestInv, Described
  <2> QED
    BY <2>1, <2>3, <2>4, <2>5
<1>11. ASSUME NEW policy \in Registries, ReviseRegistry(policy) PROVE DigestInv'
  BY <1>1, <1>11 DEF ReviseRegistry
<1>12. CASE SearchSplit
  BY <1>1, <1>12 DEF SearchSplit
<1>13. CASE UNCHANGED vars
  BY <1>13 DEF vars, DigestInv, Described, Previous, Sanitized, Sanitize
<1> QED
  BY <1>2, <1>3, <1>4, <1>5, <1>6, <1>7, <1>8, <1>9, <1>10, <1>11, <1>12, <1>13 DEF Next

LEMMA ManifestStep ==
    ASSUME TypeOK, StageInv, ManifestInv, [Next]_vars
    PROVE  ManifestInv'
<1> USE DEF TypeOK, PrepAt
<1>1. ASSUME manifest' = manifest, prep' = prep, split' = split PROVE ManifestInv'
  BY <1>1 DEF ManifestInv, SourcesOf, ClassOf
<1>2. ASSUME manifest' = manifest, prep.at # "prepared" PROVE ManifestInv'
  BY <1>2 DEF ManifestInv, StageInv
<1>3. CASE Decontaminate \/ DeriveJuliet \/ DeriveAttack \/ (\E f \in File : ScanInput(f))
  BY <1>1, <1>3 DEF Decontaminate, DeriveJuliet, DeriveAttack, ScanInput
<1>4. ASSUME NEW mode \in Mode, Begin(mode) PROVE ManifestInv'
  BY <1>2, <1>4 DEF Begin
<1>5. CASE HashInput
  BY <1>2, <1>5 DEF HashInput
<1>6. CASE ReadInput
  BY <1>2, <1>6 DEF ReadInput
<1>7. CASE RehashInput
  BY <1>2, <1>7 DEF RehashInput
<1>8. CASE SplitRecords
  BY <1>2, <1>8 DEF SplitRecords
<1>9. CASE WriteManifest
  <2>1. split' = split /\ prep'.digest = prep.digest /\ prep'.policy = prep.policy
        /\ manifest' = {[inputs |-> prep.digest, registry |-> prep.policy,
                         sources |-> SourcesOf(UNION {split[s] : s \in Split})]}
    BY <1>9 DEF WriteManifest
  <2>2. SourcesOf(UNION {split[s] : s \in Split})'
        = SourcesOf(UNION {split[s] : s \in Split})
    BY <2>1 DEF SourcesOf, ClassOf
  <2> QED
    BY <2>1, <2>2 DEF ManifestInv
<1>10. ASSUME NEW supplied \in SUBSET {"train", "validation"}, TrainOn(supplied)
       PROVE  ManifestInv'
  BY <1>1, <1>10 DEF TrainOn
<1>11. ASSUME NEW f \in File, NEW content \in Tampered \cup {prep.before}, EditInput(f, content)
       PROVE  ManifestInv'
  BY <1>1, <1>11 DEF EditInput
<1>12. ASSUME NEW policy \in Registries, ReviseRegistry(policy) PROVE ManifestInv'
  BY <1>1, <1>12 DEF ReviseRegistry
<1>13. CASE SearchSplit
  BY <1>1, <1>13 DEF SearchSplit
<1>14. CASE UNCHANGED vars
  BY <1>1, <1>14 DEF vars
<1> QED
  BY <1>3, <1>4, <1>5, <1>6, <1>7, <1>8, <1>9, <1>10, <1>11, <1>12, <1>13, <1>14 DEF Next

-----------------------------------------------------------------------------
(* Training                                                                 *)

LEMMA TrainedStep ==
    ASSUME TypeOK, StageInv, AdmittedInv, SplitInv, ManifestInv, TrainedIsApproved, [Next]_vars
    PROVE  TrainedIsApproved'
<1> USE DEF TypeOK, PrepAt
<1>1. ASSUME trained' = {} PROVE TrainedIsApproved'
  BY <1>1 DEF TrainedIsApproved
<1>2. ASSUME prep.at # "prepared", trained' = trained PROVE TrainedIsApproved'
  BY <1>1, <1>2 DEF StageInv
<1>3. CASE Decontaminate \/ DeriveJuliet \/ DeriveAttack \/ (\E f \in File : ScanInput(f))
  BY <1>2, <1>3 DEF Decontaminate, DeriveJuliet, DeriveAttack, ScanInput
<1>4. ASSUME NEW mode \in Mode, Begin(mode) PROVE TrainedIsApproved'
  BY <1>2, <1>4 DEF Begin
<1>5. CASE HashInput
  BY <1>2, <1>5 DEF HashInput
<1>6. CASE ReadInput
  BY <1>2, <1>6 DEF ReadInput
<1>7. CASE RehashInput
  BY <1>2, <1>7 DEF RehashInput
<1>8. CASE SplitRecords
  BY <1>2, <1>8 DEF SplitRecords
<1>9. CASE WriteManifest
  BY <1>2, <1>9 DEF WriteManifest
<1>10. ASSUME NEW supplied \in SUBSET {"train", "validation"}, TrainOn(supplied)
       PROVE  TrainedIsApproved'
  <2>1. "train" \in supplied /\ prep.at = "prepared" /\ trained' = split["train"]
        /\ registry' = registry /\ prep' = prep
    BY <1>10 DEF TrainOn
  <2>2. PICK m \in manifest :
            /\ SourcesMayTrain(m)
            /\ \A s \in supplied : \A r \in split[s] :
                   RecordMayTrain(r, m) /\ CompletionIsWhole(r)
    BY <1>10 DEF TrainOn
  <2>3. registry = prep.policy
    BY <2>2 DEF SourcesMayTrain, ManifestInv
  <2> SUFFICES ASSUME NEW r \in split["train"]
               PROVE  /\ registry[r.source] = prep.policy[r.source]
                      /\ Allows(registry[r.source], "train")
                      /\ registry[r.source].licence = r.licence
                      /\ r \in prep.admitted /\ ~Withheld(r) /\ r.flaw = "none"
    BY <2>1 DEF TrainedIsApproved, Withheld, ClassOf
  <2>4. RecordMayTrain(r, m) /\ CompletionIsWhole(r)
    BY <2>1, <2>2
  <2>5. PICK source \in m.sources : source.id = r.source /\ source.licence = r.licence
    BY <2>4 DEF RecordMayTrain
  <2>6. Allows(registry[r.source], "train") /\ registry[r.source].licence = r.licence
    BY <2>2, <2>5 DEF SourcesMayTrain
  <2>7. r \in Kept(prep.admitted)
    BY <2>1 DEF SplitInv, Split
  <2>8. r \in prep.admitted /\ r \in Record
    BY <2>7, KeptIsThere
  <2>9. ~Withheld(r)
    BY <2>1, <2>7 DEF SplitInv
  <2>10. r.flaw = "none"
    <3>1. r.flaw \notin {"disallowed", "roles", "length"}
      BY <2>4 DEF RecordMayTrain, CompletionIsWhole
    <3>2. r.flaw \notin {"digest", "binary"}
      BY <2>8, AdmittedClasses
    <3>3. r.flaw \in {"none", "digest", "binary", "disallowed", "roles", "length"}
      BY <2>8 DEF Record
    <3> QED
      BY <3>1, <3>2, <3>3
  <2> QED
    BY <2>3, <2>6, <2>8, <2>9, <2>10
<1>11. ASSUME NEW f \in File, NEW content \in Tampered \cup {prep.before}, EditInput(f, content)
       PROVE  TrainedIsApproved'
  BY <1>2, <1>11 DEF EditInput
<1>12. ASSUME NEW policy \in Registries, ReviseRegistry(policy) PROVE TrainedIsApproved'
  BY <1>1, <1>12 DEF ReviseRegistry
<1>13. CASE SearchSplit
  BY <1>1, <1>13 DEF SearchSplit
<1>14. CASE UNCHANGED vars
  BY <1>14 DEF vars, TrainedIsApproved, Withheld, ClassOf
<1> QED
  BY <1>3, <1>4, <1>5, <1>6, <1>7, <1>8, <1>9, <1>10, <1>11, <1>12, <1>13, <1>14 DEF Next

-----------------------------------------------------------------------------
(* The invariant                                                            *)

LEMMA InvariantInit == Init => IInv
<1> SUFFICES ASSUME Init PROVE IInv
  OBVIOUS
<1>1. TypeOK
  BY TypeInit
<1>2. StageInv
  BY DEF Init, StageInv
<1>3. AdmittedInv
  BY DEF Init, AdmittedInv
<1>4. SplitInv
  BY DEF Init, SplitInv
<1>5. CleanInv
  BY DEF Init, CleanInv, Clean, File
<1>6. DigestInv
  BY DEF Init, DigestInv
<1>7. ManifestInv /\ TrainedIsApproved
  BY DEF Init, ManifestInv, TrainedIsApproved
<1> QED
  BY <1>1, <1>2, <1>3, <1>4, <1>5, <1>6, <1>7 DEF IInv

LEMMA InvariantStep == IInv /\ [Next]_vars => IInv'
<1> SUFFICES ASSUME IInv, [Next]_vars PROVE IInv'
  OBVIOUS
<1>1. /\ TypeOK /\ StageInv /\ AdmittedInv /\ SplitInv /\ CleanInv /\ DigestInv
      /\ ManifestInv /\ TrainedIsApproved
  BY DEF IInv
<1>2. TypeOK' /\ StageInv' /\ AdmittedInv'
  BY <1>1, TypeStep, StageStep, AdmittedStep
<1>3. SplitInv' /\ CleanInv'
  BY <1>1, SplitStep, CleanStep
<1>4. DigestInv' /\ ManifestInv' /\ TrainedIsApproved'
  BY <1>1, DigestStep, ManifestStep, TrainedStep
<1> QED
  BY <1>2, <1>3, <1>4 DEF IInv

(* What is said of the preparation at each of its stages holds always.      *)
THEOREM PreparationIsInductive == Spec => []IInv
  BY InvariantInit, InvariantStep, PTL DEF Spec

(* Every record of the inputs, the splits and what is trained on is one.    *)
THEOREM TypesAreRight == Spec => []TypeOK
<1>1. IInv => TypeOK
  BY DEF IInv
<1> QED
  BY <1>1, PreparationIsInductive, PTL

-----------------------------------------------------------------------------
(* Properties                                                               *)

(* For every record that was read one with its content is kept, which is    *)
(* withheld if it is.                                                       *)
LEMMA VariantIsKept ==
    ASSUME IInv, prep.at \in {"describing", "prepared"}, NEW h \in prep.admitted
    PROVE  \E k \in Kept(prep.admitted) :
               NormalHash(k) = NormalHash(h) /\ (Withheld(h) => Withheld(k))
<1>1. TypeOK /\ AdmittedInv /\ SplitInv
  BY DEF IInv
<1>2. prep.admitted \in SUBSET Record /\ \A r, s \in prep.admitted : r.id = s.id => r = s
  BY <1>1 DEF TypeOK, AdmittedInv
<1>3. PICK k \in Kept(prep.admitted) : NormalHash(k) = NormalHash(h) /\ (k = h \/ Before(k, h))
  BY <1>2, FirstIsKept
<1>4. k \in prep.admitted
  BY KeptIsThere
<1>5. h.holdout => k.holdout
  BY <1>3 DEF Before
<1>6. ClassOf(h) = "eval_only" => ClassOf(k) = "eval_only"
  <2>1. ClassOf(k) \in {"allow_train", "eval_only"}
    BY <1>1, <1>4, AdmittedClasses
  <2>2. NoTrainEvalDuplicates(prep.admitted)
    BY <1>1 DEF SplitInv
  <2> QED
    BY <1>3, <1>4, <2>1, <2>2 DEF NoTrainEvalDuplicates
<1> QED
  BY <1>3, <1>5, <1>6 DEF Withheld

(* What is withheld is not asked or answered in training or validation.     *)
THEOREM WithheldStaysOut == Spec => []WithheldContentStaysOut
<1>1. IInv => WithheldContentStaysOut
  <2> SUFFICES ASSUME IInv, NEW h \in prep.admitted, NEW s \in {"train", "validation"},
                      Withheld(h), NEW r \in split[s]
               PROVE  Form[r.user] # Form[h.user] /\ Form[r.answer] # Form[h.answer]
    BY DEF WithheldContentStaysOut
  <2>1. s \in Split
    BY DEF Split
  <2>2. prep.at \in {"describing", "prepared"}
    BY <2>1 DEF IInv, StageInv, NoRecords
  <2>3. PICK k \in Kept(prep.admitted) : NormalHash(k) = NormalHash(h) /\ Withheld(k)
    BY <2>2, VariantIsKept
  <2>4. SplitInv
    BY DEF IInv
  <2>5. PICK t \in Split : k \in split[t]
    BY <2>2, <2>3, <2>4 DEF SplitInv
  <2>6. t # s
    BY <2>2, <2>3, <2>4, <2>5 DEF SplitInv
  <2>7. Isolated(r, k)
    BY <2>1, <2>2, <2>4, <2>5, <2>6 DEF SplitInv, SplitsAreIsolated
  <2>8. Form[k.user] = Form[h.user] /\ Form[k.answer] = Form[h.answer]
    BY <2>3 DEF NormalHash
  <2> QED
    BY <2>7, <2>8 DEF Isolated
<1> QED
  BY <1>1, PreparationIsInductive, PTL

(* For every record that was read the splits hold exactly one of its        *)
(* content, which is withheld if the record is.                             *)
THEOREM ContentStays == Spec => []ContentIsKept
<1>1. IInv => ContentIsKept
  <2> SUFFICES ASSUME IInv, manifest # {}, NEW r \in prep.admitted
               PROVE  LET same(s) == {k \in split[s] : NormalHash(k) = NormalHash(r)} IN
                      /\ Cardinality(UNION {same(s) : s \in Split}) = 1
                      /\ Withheld(r) => same("train") = {} /\ same("validation") = {}
    BY DEF ContentIsKept
  <2> DEFINE same(s) == {k \in split[s] : NormalHash(k) = NormalHash(r)}
  <2>1. prep.at \in {"describing", "prepared"}
    BY DEF IInv, StageInv
  <2>2. PICK k \in Kept(prep.admitted) :
            NormalHash(k) = NormalHash(r) /\ (Withheld(r) => Withheld(k))
    BY <2>1, VariantIsKept
  <2>3. /\ \A s \in Split : split[s] \subseteq Kept(prep.admitted)
        /\ \E s \in Split : k \in split[s]
        /\ Withheld(k) => k \notin split["train"] /\ k \notin split["validation"]
    BY <2>1, <2>2 DEF IInv, SplitInv
  <2>4. prep.admitted \in SUBSET Record /\ \A p, q \in prep.admitted : p.id = q.id => p = q
    BY DEF IInv, TypeOK, AdmittedInv
  <2>5. \A p \in Kept(prep.admitted) : NormalHash(p) = NormalHash(r) => p = k
    BY <2>2, <2>4, KeptOnce
  <2>6. \A s \in Split : \A p \in same(s) : p = k
    BY <2>3, <2>5
  <2>7. \E s \in Split : k \in same(s)
    BY <2>2, <2>3
  <2> HIDE DEF same
  <2>8. UNION {same(s) : s \in Split} = {k}
    BY <2>6, <2>7
  <2>9. Cardinality(UNION {same(s) : s \in Split}) = 1
    BY <2>8, FS_Singleton
  <2>10. Withheld(r) => same("train") = {} /\ same("validation") = {}
    <3>1. "train" \in Split /\ "validation" \in Split
      BY DEF Split
    <3> QED
      BY <2>2, <2>3, <2>6, <3>1 DEF same
  <2> QED
    BY <2>9, <2>10 DEF same
<1> QED
  BY <1>1, PreparationIsInductive, PTL

(* A record and the view derived from it are in one split.                  *)
THEOREM ViewsStayWithParents == Spec => []ViewsFollowParents
<1>1. IInv => ViewsFollowParents
  <2> SUFFICES ASSUME IInv, NEW s \in Split, NEW t \in Split, NEW r \in split[s],
                      NEW p \in split[t], r.parent = p.id, s # t
               PROVE  FALSE
    BY DEF ViewsFollowParents
  <2>1. prep.at \in {"describing", "prepared"}
    BY DEF IInv, StageInv, NoRecords
  <2>2. SplitInv
    BY DEF IInv
  <2>3. r \in prep.admitted /\ p \in prep.admitted
    BY <2>1, <2>2, KeptIsThere DEF SplitInv
  <2>4. r.group = p.group
    BY <2>1, <2>2, <2>3 DEF SplitInv, ParentGroupsHold
  <2>5. r.group # p.group
    BY <2>1, <2>2 DEF SplitInv, SplitsAreIsolated, Isolated
  <2> QED
    BY <2>4, <2>5
<1> QED
  BY <1>1, PreparationIsInductive, PTL

(* What is trained on is approved, by the registry as it is now.            *)
THEOREM TrainedStaysApproved == Spec => []TrainedIsApproved
<1>1. IInv => TrainedIsApproved
  BY DEF IInv
<1> QED
  BY <1>1, PreparationIsInductive, PTL

(* What is learnt was searched, by those who could tell.                    *)
THEOREM TrainedStaysSearched == Spec => []TrainedWasSearched
<1>1. IInv => TrainedWasSearched
  <2> SUFFICES ASSUME IInv, NEW r \in trained
               PROVE  /\ "train" \in scanned /\ r.source \in Rescanned => ~Contaminated(r)
                      /\ File \subseteq scanned =>
                             \E f \in File : \E q \in file[f] :
                                 Sanitize(q) = r /\ ~Contaminated(q)
    BY DEF TrainedWasSearched
  <2>1. r \in split.train /\ r \in prep.admitted
    BY DEF IInv, StageInv, TrainedIsApproved
  <2> QED
    BY <2>1 DEF IInv, CleanInv, Clean
<1> QED
  BY <1>1, PreparationIsInductive, PTL

(* The digests of the manifest are those of the records that were prepared. *)
THEOREM InputsStayDescribed == Spec => []InputsAreDescribed
<1>1. IInv => InputsAreDescribed
  <2> SUFFICES ASSUME IInv, Described, NEW m \in manifest
               PROVE  prep.admitted
                      = {Sanitize(r) : r \in m.inputs["canonical"] \cup m.inputs["derived"]}
    BY DEF InputsAreDescribed, Described
  <2>1. prep.at = "prepared"
    BY DEF IInv, StageInv
  <2>2. m.inputs = prep.digest
    BY DEF IInv, ManifestInv
  <2>3. prep.admitted = Sanitized(prep.digest["canonical"]) \cup Sanitized(prep.digest["derived"])
    BY <2>1 DEF IInv, DigestInv
  <2> QED
    BY <2>2, <2>3 DEF Sanitized
<1> QED
  BY <1>1, PreparationIsInductive, PTL
===============================================================================
