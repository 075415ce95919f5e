---------------------- MODULE PostgresLeakCasesProofs ----------------------
(***************************************************************************)
(* Proofs about PostgresLeakCases, for any number of clients,              *)
(* opportunities and cases, any evidence and any clocks.                   *)
(*                                                                         *)
(* SeriesIsALine is not inductive.  IInv adds that an opportunity has one  *)
(* active case at most, that a superseded case names the case that follows *)
(* it, and what a request that is under way knows of rows that others      *)
(* write meanwhile (Knows): its case exists and was detected before it     *)
(* arrived, and the opportunities a scan enumerated are at least those     *)
(* that were there when it arrived.                                        *)
(*                                                                         *)
(* What the browser recomputes of an answer needs RecordsInv as well: the  *)
(* audit trail of every case is the life it is in, and its evidence was    *)
(* readable when it was detected.  That the browser's counts, order and    *)
(* sums are the server's is then shown answer by answer (ReplyReads): the  *)
(* order of the queue exists and is the only one, and both sums count the  *)
(* same units.                                                             *)
(***************************************************************************)
EXTENDS PostgresLeakCases, FiniteSetTheorems, WellFoundedInduction, TLAPS

-----------------------------------------------------------------------------
(* Types                                                                   *)

States == {"OPEN", "SNOOZED", "DISMISSED", "SUPERSEDED"}
Entries == [to : States \cup {"LINKED"}, at : Nat]
FactRows == {Facts(e) : e \in Evidence(Nat)}
BasisRows == {Basis(e) : e \in Evidence(Nat)}

CaseRows ==
    [opp : DOMAIN evidence, facts : FactRows, detected : 0 .. now, state : States,
     updated : 0 .. now, wake : Int, pred : {0} \cup DOMAIN cases,
     succ : {0} \cup DOMAIN cases, action : {0} \cup DOMAIN actions,
     audit : Seq(Entries)]

ActionRows ==
    [opp : DOMAIN evidence, basis : BasisRows, status : {"OPEN", "DONE"}, created : 0 .. now]

IsRequest(q) ==
    q = [op |-> q.op, opp |-> q.opp, case |-> q.case, more |-> q.more, at |-> q.at,
         step |-> q.step, seen |-> q.seen, todo |-> q.todo]

Typed ==
    /\ setting \in Settings /\ now \in 0 .. setting.until
    /\ evidence \in [DOMAIN evidence -> Evidence(Nat)]
    /\ DOMAIN cases \subseteq 1 .. MaxCases
    /\ cases \in [DOMAIN cases -> CaseRows]
    /\ \E k \in 0 .. MaxActions : DOMAIN actions = 1 .. k
    /\ actions \in [DOMAIN actions -> ActionRows]
    /\ milestones \subseteq {ScanCompleted} \cup DOMAIN cases
    /\ tx = [c \in Clients |-> tx[c]]

-----------------------------------------------------------------------------
(* What a request knows                                                    *)

CaseOps == {"handoff", "resume", "dismiss", "snooze", "link"}

\* Every opportunity that was there when the request arrived has been seen.
SawAll(q) == \A o \in DOMAIN evidence : evidence[o].born < q.at => o \in DOMAIN q.seen

Knows(q) == q # Idle =>
    /\ IsRequest(q) /\ q.at \in 0 .. now
    /\ q.op = "detect" => q.opp \in DOMAIN evidence
    /\ q.op \in CaseOps => q.case \in DOMAIN cases /\ cases[q.case].detected <= q.at
    /\ q.op = "snooze" => q.more \in Nat
    /\ q.op = "link" => q.more \in DOMAIN actions
    /\ q.op = "scan" /\ q.step = "enumerated" => SawAll(q) /\ DOMAIN q.seen \subseteq DOMAIN evidence

-----------------------------------------------------------------------------
(* What the cases say of each other                                        *)

OneActiveCase == \A o : \A i, j \in Active(o) : i = j

Dated == \A i \in DOMAIN cases : cases[i].detected <= cases[i].updated

Followed(i, j) == /\ j \in DOMAIN cases /\ cases[j].opp = cases[i].opp /\ cases[j].pred = i

Superseded == \A i \in DOMAIN cases :
    cases[i].state = "SUPERSEDED" => Followed(i, cases[i].succ)

InSeries == \A i \in DOMAIN cases :
    cases[i].pred # 0 => /\ cases[i].pred \in DOMAIN cases
                         /\ cases[cases[i].pred].opp = cases[i].opp

Later(o) == \A i \in Series(o) :
    cases[i].pred # 0 => cases[cases[i].pred].detected < cases[i].detected

\* The conclusion of SeriesIsALine, for one opportunity.
IsALine(o) ==
    /\ \A i, j \in Series(o) : cases[i].pred = cases[j].pred => i = j
    /\ \A i, j \in Series(o) : cases[i].pred = j =>
         /\ cases[i].facts # cases[j].facts
         /\ cases[j].state \notin ActiveCases
         /\ cases[j].state = "SUPERSEDED" => cases[j].succ = i

CasesInv ==
    /\ OneActiveCase /\ Dated /\ Superseded /\ InSeries
    /\ \A o : Later(o) => IsALine(o)

IInv == Typed /\ (\A c \in Clients : Knows(tx[c])) /\ CasesInv

-----------------------------------------------------------------------------
(* Reconciliation                                                          *)

\* A nonempty set of numbers has a least one.
LEMMA LeastIn ==
  ASSUME NEW S \in SUBSET Nat, S # {}
  PROVE  \E x \in S : \A y \in S : x <= y
<1> DEFINE R == OpToRel(<, Nat)
<1>1. IsWellFoundedOn(R, Nat)
  BY NatLessThanWellFounded
<1>2. PICK x \in S : \A y \in Nat : <<y, x>> \in R => ~(y \in S)
  BY <1>1, WFMin, Zenon
<1>3. \A y \in S : ~(y < x)
  BY <1>2, Zenon DEF OpToRel
<1> QED
  BY <1>3

LEMMA Times == ASSUME Typed PROVE now \in Nat /\ now <= MaxNow /\ setting.until \in 0 .. MaxNow
<1>1. setting.until \in 0 .. MaxNow /\ now \in 0 .. setting.until
  BY SettingAssumption DEF Typed
<1> QED
  BY <1>1, BoundAssumption

LEMMA CaseRow ==
  ASSUME Typed, NEW i \in DOMAIN cases
  PROVE  /\ i \in Nat \ {0} /\ cases[i] \in CaseRows
         /\ cases[i].detected \in 0 .. now /\ cases[i].updated \in 0 .. now
         /\ cases[i].detected \in Nat /\ cases[i].updated \in Nat
<1>1. i \in 1 .. MaxCases /\ cases[i] \in CaseRows
  BY DEF Typed
<1>2. cases[i].detected \in 0 .. now /\ cases[i].updated \in 0 .. now
  BY <1>1 DEF CaseRows
<1> QED
  BY <1>1, <1>2, Times, BoundAssumption

\* An opportunity with cases has one that a detection follows.
LEMMA HasPredecessor ==
  ASSUME Typed, NEW o, Series(o) # {}
  PROVE  The(Predecessor(o)) \in Predecessor(o)
<1>1. Series(o) \subseteq Nat /\ \A i \in Series(o) : now - cases[i].detected \in Nat
                                                    /\ cases[i].detected \in Nat /\ now \in Nat
  <2>1. \A i \in Series(o) : i \in Nat /\ cases[i].detected \in 0 .. now
    BY CaseRow DEF Series
  <2> QED
    BY <2>1, Times
<1> DEFINE Ages == {now - cases[i].detected : i \in Series(o)}
<1>2. PICK i \in Series(o) : \A j \in Series(o) : now - cases[i].detected <= now - cases[j].detected
  <2>1. Ages \in SUBSET Nat /\ Ages # {}
    BY <1>1
  <2>2. PICK a \in Ages : \A b \in Ages : a <= b
    <3> HIDE DEF Ages
    <3> QED BY <2>1, LeastIn
  <2> QED
    BY <2>2
<1> DEFINE Youngest == {j \in Series(o) : cases[j].detected = cases[i].detected}
<1>3. PICK n \in Youngest : \A j \in Youngest : n <= j
  <2>1. Youngest \in SUBSET Nat /\ Youngest # {}
    BY <1>1
  <2> HIDE DEF Youngest
  <2> QED BY <2>1, LeastIn
<1>4. n \in Newest(o)
  <2> SUFFICES ASSUME NEW j \in Series(o) \ {n}
               PROVE  \/ cases[n].detected > cases[j].detected
                      \/ cases[n].detected = cases[j].detected /\ n < j
    BY <1>3 DEF Newest
  <2> QED
    BY <1>1, <1>2, <1>3
<1>5. Predecessor(o) # {}
  BY <1>4 DEF Predecessor
<1> QED
  BY <1>5 DEF The

\* What a detection or a scan writes, row by row: every new leak gets a case,
\* and the active case it follows is superseded.
Opened(after, found, fresh, at) ==
    /\ \A o \in DOMAIN fresh : /\ fresh[o] \in (1 .. MaxCases) \ DOMAIN cases
                               /\ after[fresh[o]] = NewCase(o, found[o], at)
                               /\ ReplayedCase(o, found[o]) = {}
    /\ \A o, p \in DOMAIN fresh : fresh[o] = fresh[p] => o = p
    /\ DOMAIN fresh \subseteq DOMAIN found

Closed(after, fresh, at) ==
    \A i \in DOMAIN cases :
        IF i \in Active(cases[i].opp) /\ cases[i].opp \in DOMAIN fresh
        THEN after[i] = [Audited(cases[i], "SUPERSEDED", at)
                            EXCEPT !.state = "SUPERSEDED", !.succ = fresh[cases[i].opp]]
        ELSE after[i] = cases[i]

Written(after, found, fresh, at) ==
    /\ Opened(after, found, fresh, at) /\ Closed(after, fresh, at)
    /\ DOMAIN after = DOMAIN cases \cup {fresh[o] : o \in DOMAIN fresh}
    /\ after = [i \in DOMAIN after |-> after[i]]

LEMMA ReconciledRows ==
  ASSUME NEW found, NEW fresh \in Numberings(found), NEW at, NEW after, after = Reconciled(found, fresh, at)
  PROVE  Written(after, found, fresh, at)
<1> DEFINE new == {o \in DOMAIN found : ReplayedCase(o, found[o]) = {}}
           S == DOMAIN cases \cup Range(fresh)
<1>1. /\ fresh \in [new -> FreshIds] /\ DOMAIN fresh = new
      /\ \A o, p \in new : o # p => fresh[o] # fresh[p]
  BY DEF Numberings
<1>2. Range(fresh) = {fresh[o] : o \in DOMAIN fresh}
  BY DEF Range
<1>3. /\ DOMAIN after = S
      /\ \A i \in S : after[i] =
            IF i \notin DOMAIN cases
            THEN NewCase(CHOOSE o \in DOMAIN fresh : fresh[o] = i,
                         found[CHOOSE o \in DOMAIN fresh : fresh[o] = i], at)
            ELSE IF cases[i].opp \in DOMAIN fresh /\ i \in Active(cases[i].opp)
            THEN [Audited(cases[i], "SUPERSEDED", at)
                    EXCEPT !.state = "SUPERSEDED", !.succ = fresh[cases[i].opp]]
            ELSE cases[i]
  <2> HIDE DEF S
  <2> QED BY DEF Reconciled, S
<1>4. ASSUME NEW o \in DOMAIN fresh
      PROVE  /\ fresh[o] \in (1 .. MaxCases) \ DOMAIN cases /\ fresh[o] \in S
             /\ (CHOOSE p \in DOMAIN fresh : fresh[p] = fresh[o]) = o
  <2>1. fresh[o] \in (1 .. MaxCases) \ DOMAIN cases /\ fresh[o] \in S
    BY <1>1, <1>2 DEF FreshIds
  <2>2. \A p \in DOMAIN fresh : fresh[p] = fresh[o] => p = o
    BY <1>1
  <2> QED
    BY <2>1, <2>2
<1>5. Opened(after, found, fresh, at)
  <2>1. ASSUME NEW o \in DOMAIN fresh PROVE after[fresh[o]] = NewCase(o, found[o], at)
    BY <1>3, <1>4, Zenon
  <2> QED
    BY <1>1, <1>4, <2>1 DEF Opened
<1>6. Closed(after, fresh, at)
  <2> SUFFICES ASSUME NEW i \in DOMAIN cases
      PROVE IF i \in Active(cases[i].opp) /\ cases[i].opp \in DOMAIN fresh
        THEN after[i] = [Audited(cases[i], "SUPERSEDED", at)
                            EXCEPT !.state = "SUPERSEDED", !.succ = fresh[cases[i].opp]]
        ELSE after[i] = cases[i]
    BY DEF Closed
  <2>1. i \in S
    OBVIOUS
  <2> QED
    BY <1>3, <2>1, Zenon
<1>7. after = [i \in DOMAIN after |-> after[i]]
  <2> DEFINE Row(i) ==
               IF i \notin DOMAIN cases
               THEN NewCase(CHOOSE o \in DOMAIN fresh : fresh[o] = i,
                            found[CHOOSE o \in DOMAIN fresh : fresh[o] = i], at)
               ELSE IF cases[i].opp \in DOMAIN fresh /\ i \in Active(cases[i].opp)
               THEN [Audited(cases[i], "SUPERSEDED", at)
                       EXCEPT !.state = "SUPERSEDED", !.succ = fresh[cases[i].opp]]
               ELSE cases[i]
  <2>1. after = [i \in S |-> Row(i)]
    BY DEF Reconciled
  <2> QED
    <3> HIDE DEF Row, S
    <3> QED BY <2>1
<1> QED
  BY <1>2, <1>3, <1>5, <1>6, <1>7 DEF Written

\* The fields of the rows a detection or a scan writes.
LEMMA WrittenFields ==
  ASSUME Typed, NEW after, NEW found, NEW fresh, NEW at, Written(after, found, fresh, at)
  PROVE  /\ \A o \in DOMAIN fresh :
              /\ after[fresh[o]].opp = o /\ after[fresh[o]].facts = found[o]
              /\ after[fresh[o]].state = "OPEN" /\ after[fresh[o]].detected = at
              /\ after[fresh[o]].updated = at
              /\ after[fresh[o]].pred = The(Predecessor(o))
         /\ \A i \in DOMAIN cases :
              /\ after[i].opp = cases[i].opp /\ after[i].facts = cases[i].facts
              /\ after[i].detected = cases[i].detected /\ after[i].pred = cases[i].pred
              /\ IF i \in Active(cases[i].opp) /\ cases[i].opp \in DOMAIN fresh
                 THEN /\ after[i].state = "SUPERSEDED" /\ after[i].updated = at
                      /\ after[i].succ = fresh[cases[i].opp]
                 ELSE after[i] = cases[i]
<1>1. ASSUME NEW o \in DOMAIN fresh
      PROVE  /\ after[fresh[o]].opp = o /\ after[fresh[o]].facts = found[o]
             /\ after[fresh[o]].state = "OPEN" /\ after[fresh[o]].detected = at
             /\ after[fresh[o]].updated = at
             /\ after[fresh[o]].pred = The(Predecessor(o))
  <2>1. after[fresh[o]] = NewCase(o, found[o], at)
    BY DEF Written, Opened
  <2> QED
    BY <2>1 DEF NewCase
<1>2. ASSUME NEW i \in DOMAIN cases
      PROVE   /\ after[i].opp = cases[i].opp /\ after[i].facts = cases[i].facts
              /\ after[i].detected = cases[i].detected /\ after[i].pred = cases[i].pred
              /\ IF i \in Active(cases[i].opp) /\ cases[i].opp \in DOMAIN fresh
                 THEN /\ after[i].state = "SUPERSEDED" /\ after[i].updated = at
                      /\ after[i].succ = fresh[cases[i].opp]
                 ELSE after[i] = cases[i]
  <2>1. CASE i \in Active(cases[i].opp) /\ cases[i].opp \in DOMAIN fresh
    <3>1. after[i] = [Audited(cases[i], "SUPERSEDED", at)
                        EXCEPT !.state = "SUPERSEDED", !.succ = fresh[cases[i].opp]]
      BY <2>1 DEF Written, Closed
    <3>2. cases[i] \in CaseRows
      BY CaseRow
    <3> QED
      BY <2>1, <3>1, <3>2 DEF CaseRows, Audited
  <2>2. CASE ~(i \in Active(cases[i].opp) /\ cases[i].opp \in DOMAIN fresh)
    BY <2>2 DEF Written, Closed
  <2> QED
    BY <2>1, <2>2
<1> QED
  BY <1>1, <1>2

LEMMA PredecessorIn ==
  ASSUME NEW o, The(Predecessor(o)) # 0
  PROVE  The(Predecessor(o)) \in Predecessor(o) /\ The(Predecessor(o)) \in Series(o)
<1>1. Predecessor(o) # {}
  BY DEF The
<1>2. The(Predecessor(o)) \in Predecessor(o)
  BY <1>1 DEF The
<1> QED
  BY <1>2 DEF Predecessor, Active, Newest

\* A reconciliation that the table admits keeps what the cases say of each other.
LEMMA ReconcilingKeeps ==
  ASSUME Typed, CasesInv, NEW found, NEW fresh, NEW at,
         Written(cases', found, fresh, at), Admissible(cases')
  PROVE  CasesInv'
<1>1. /\ \A i \in DOMAIN cases' : \/ i \in DOMAIN cases
                                  \/ \E o \in DOMAIN fresh : i = fresh[o]
      /\ DOMAIN cases \subseteq DOMAIN cases'
      /\ \A o \in DOMAIN fresh : fresh[o] \in DOMAIN cases' \ DOMAIN cases /\ fresh[o] \in Nat \ {0}
      /\ \A o, p \in DOMAIN fresh : fresh[o] = fresh[p] => o = p
      /\ \A o \in DOMAIN fresh : ReplayedCase(o, found[o]) = {}
  BY BoundAssumption DEF Written, Opened
<1>2. ASSUME NEW o \in DOMAIN fresh
      PROVE  /\ cases'[fresh[o]].opp = o /\ cases'[fresh[o]].facts = found[o]
             /\ cases'[fresh[o]].state = "OPEN" /\ cases'[fresh[o]].detected = at
             /\ cases'[fresh[o]].updated = at
             /\ cases'[fresh[o]].pred = The(Predecessor(o))
  BY WrittenFields
<1>3. ASSUME NEW i \in DOMAIN cases
      PROVE  /\ cases'[i].opp = cases[i].opp /\ cases'[i].facts = cases[i].facts
             /\ cases'[i].detected = cases[i].detected /\ cases'[i].pred = cases[i].pred
             /\ IF i \in Active(cases[i].opp) /\ cases[i].opp \in DOMAIN fresh
                THEN /\ cases'[i].state = "SUPERSEDED" /\ cases'[i].updated = at
                     /\ cases'[i].succ = fresh[cases[i].opp]
                ELSE cases'[i] = cases[i]
  BY WrittenFields
<1>4. ASSUME NEW o, NEW i \in Series(o)'
      PROVE  i \in Series(o) \/ (o \in DOMAIN fresh /\ i = fresh[o])
  <2>1. i \in DOMAIN cases' /\ cases'[i].opp = o
    BY DEF Series
  <2>2. CASE i \in DOMAIN cases
    BY <1>3, <2>1, <2>2 DEF Series
  <2>3. ASSUME NEW p \in DOMAIN fresh, i = fresh[p]
        PROVE  o \in DOMAIN fresh /\ i = fresh[o]
    BY <1>2, <2>1, <2>3
  <2> QED
    BY <1>1, <2>1, <2>2, <2>3
<1>5. OneActiveCase'
  <2> SUFFICES ASSUME NEW o, NEW i \in Active(o)', NEW j \in Active(o)' PROVE i = j
    BY DEF OneActiveCase
  <2> QED
    BY DEF Admissible, Active, Series
<1>6. Dated'
  BY DEF Admissible, Dated
<1>7. Superseded'
  <2> SUFFICES ASSUME NEW i \in DOMAIN cases', cases'[i].state = "SUPERSEDED"
               PROVE  Followed(i, cases[i].succ)'
    BY DEF Superseded
  <2>1. i \in DOMAIN cases
    BY <1>1, <1>2
  <2>2. CASE i \in Active(cases[i].opp) /\ cases[i].opp \in DOMAIN fresh
    <3> DEFINE o == cases[i].opp
    <3>1. The(Predecessor(o)) = i
      <4>1. Predecessor(o) = Active(o) /\ i \in Active(o) /\ \A j \in Active(o) : j = i
        BY <2>2 DEF Predecessor, CasesInv, OneActiveCase
      <4> QED
        BY <4>1 DEF The
    <3>2. cases'[i].succ = fresh[o] /\ cases'[fresh[o]].opp = o /\ cases'[fresh[o]].pred = i
      BY <1>2, <1>3, <2>1, <2>2, <3>1
    <3> QED
      BY <1>1, <1>3, <2>1, <2>2, <3>2 DEF Followed
  <2>3. CASE ~(i \in Active(cases[i].opp) /\ cases[i].opp \in DOMAIN fresh)
    <3>1. cases'[i] = cases[i] /\ Followed(i, cases[i].succ)
      BY <1>3, <2>1, <2>3 DEF CasesInv, Superseded
    <3> QED
      BY <1>1, <1>3, <2>1, <3>1 DEF Followed
  <2> QED
    BY <2>2, <2>3
<1>8. InSeries'
  <2> SUFFICES ASSUME NEW i \in DOMAIN cases', cases'[i].pred # 0
               PROVE  /\ cases'[i].pred \in DOMAIN cases'
                      /\ cases'[cases'[i].pred].opp = cases'[i].opp
    BY DEF InSeries
  <2>1. CASE i \in DOMAIN cases
    BY <1>1, <1>3, <2>1 DEF CasesInv, InSeries
  <2>2. ASSUME NEW o \in DOMAIN fresh, i = fresh[o]
        PROVE  /\ cases'[i].pred \in DOMAIN cases'
               /\ cases'[cases'[i].pred].opp = cases'[i].opp
    <3>1. cases'[i].pred \in Series(o)
      BY <1>2, <2>2, PredecessorIn
    <3> QED
      BY <1>1, <1>2, <1>3, <2>2, <3>1 DEF Series
  <2> QED
    BY <1>1, <2>1, <2>2
<1>9. ASSUME NEW o, Later(o)' PROVE IsALine(o)'
  <2>1. Later(o)
    <3> SUFFICES ASSUME NEW i \in Series(o), cases[i].pred # 0
                 PROVE  cases[cases[i].pred].detected < cases[i].detected
      BY DEF Later
    <3>1. i \in DOMAIN cases /\ cases[i].pred \in DOMAIN cases
      BY DEF Series, CasesInv, InSeries
    <3>2. i \in Series(o)' /\ cases'[i].pred = cases[i].pred
      BY <1>1, <1>3, <3>1 DEF Series
    <3> QED
      BY <1>3, <1>9, <3>1, <3>2 DEF Later
  <2>2. IsALine(o)
    BY <2>1 DEF CasesInv
  <2>3. \A i \in Series(o) : i \in DOMAIN cases /\ cases[i].opp = o /\ i # 0
    BY CaseRow DEF Series
  <2>4. CASE o \notin DOMAIN fresh
    <3>1. \A i \in Series(o)' : i \in Series(o) /\ cases'[i] = cases[i]
      BY <1>3, <1>4, <2>3, <2>4
    <3> QED
      BY <2>2, <3>1 DEF IsALine
  <2>5. CASE o \in DOMAIN fresh
    <3> DEFINE n == fresh[o]
               p == The(Predecessor(o))
    <3>1. /\ cases'[n].pred = p /\ cases'[n].facts = found[o] /\ cases'[n].state = "OPEN"
          /\ cases'[n].detected = at /\ n \notin DOMAIN cases /\ n # 0
      BY <1>1, <1>2, <2>5
    <3>2. \A i \in Series(o) : cases[i].pred # p /\ cases[i].pred # n
      <4>1. ASSUME NEW i \in Series(o), cases[i].pred = p PROVE FALSE
        <5>1. p \in Predecessor(o) /\ p \in Series(o)
          BY HasPredecessor DEF Predecessor, Active, Newest
        <5>2. cases[p].state \notin ActiveCases
          BY <2>2, <4>1, <5>1 DEF IsALine
        <5>3. p \in Newest(o)
          BY <5>1, <5>2 DEF Predecessor, Active
        <5>4. cases[p].detected < cases[i].detected /\ p # 0
          BY <2>1, <2>3, <4>1, <5>1 DEF Later
        <5>5. cases[p].detected \in Nat /\ cases[i].detected \in Nat
          BY CaseRow, <2>3, <5>1
        <5> QED
          BY <5>3, <5>4, <5>5 DEF Newest
      <4>2. \A i \in Series(o) : cases[i].pred # n
        BY <2>3, <3>1 DEF CasesInv, InSeries
      <4> QED
        BY <4>1, <4>2
    <3>3. p # 0 => /\ p \in Series(o) /\ cases[p].facts # found[o]
                   /\ cases'[p].state \notin ActiveCases
                   /\ cases'[p].state = "SUPERSEDED" => cases'[p].succ = n
      <4> SUFFICES ASSUME p # 0
                   PROVE  /\ p \in Series(o) /\ cases[p].facts # found[o]
                          /\ cases'[p].state \notin ActiveCases
                          /\ cases'[p].state = "SUPERSEDED" => cases'[p].succ = n
        OBVIOUS
      <4>1. p \in Predecessor(o) /\ p \in Series(o)
        BY PredecessorIn
      <4>2. cases[p].facts # found[o]
        BY <1>1, <2>5, <4>1 DEF ReplayedCase
      <4>3. CASE p \in Active(o)
        BY <1>3, <2>3, <2>5, <4>1, <4>2, <4>3 DEF ActiveCases
      <4>4. CASE p \notin Active(o)
        <5>1. cases'[p] = cases[p] /\ cases[p].state \notin ActiveCases
          BY <1>3, <2>3, <4>1, <4>4 DEF Active
        <5>2. cases[p].state # "SUPERSEDED"
          <6> SUFFICES ASSUME cases[p].state = "SUPERSEDED" PROVE FALSE
            OBVIOUS
          <6>1. cases[p].succ \in Series(o) /\ cases[cases[p].succ].pred = p
            BY <2>3, <4>1 DEF CasesInv, Superseded, Followed, Series
          <6> QED
            BY <3>2, <6>1
        <5> QED
          BY <4>1, <4>2, <5>1, <5>2
      <4> QED
        BY <4>3, <4>4
    <3>4. ASSUME NEW i \in Series(o)'
          PROVE  IF i = n THEN cases'[i].pred = p
                 ELSE /\ i \in Series(o) /\ cases'[i].pred = cases[i].pred
                      /\ cases'[i].pred # p /\ cases'[i].pred # n
      BY <1>3, <1>4, <2>3, <3>1, <3>2
    <3>5. ASSUME NEW i \in Series(o)', NEW j \in Series(o)', cases'[i].pred = cases'[j].pred
          PROVE  i = j
      BY <2>2, <3>4, <3>5 DEF IsALine
    <3>6. ASSUME NEW i \in Series(o)', NEW j \in Series(o)', cases'[i].pred = j
          PROVE  /\ cases'[i].facts # cases'[j].facts
                 /\ cases'[j].state \notin ActiveCases
                 /\ cases'[j].state = "SUPERSEDED" => cases'[j].succ = i
      <4>0. j # 0
        BY <2>3, <3>1, <3>4
      <4>1. CASE i = n
        <5>1. j = p
          BY <3>4, <3>6, <4>1
        <5>2. j \in DOMAIN cases
          BY <2>3, <3>3, <4>0, <5>1
        <5> QED
          BY <1>3, <3>1, <3>3, <4>0, <4>1, <5>1, <5>2
      <4>2. CASE i # n
        <5>1. i \in Series(o) /\ cases[i].pred = j /\ j # n /\ j \in Series(o)
          BY <3>4, <3>6, <4>2
        <5>2. /\ cases[i].facts # cases[j].facts /\ cases[j].state \notin ActiveCases
              /\ cases[j].state = "SUPERSEDED" => cases[j].succ = i
          BY <2>2, <5>1 DEF IsALine
        <5>3. cases'[j] = cases[j] /\ cases'[i].facts = cases[i].facts
          BY <1>3, <2>3, <5>1, <5>2 DEF Active
        <5> QED
          BY <5>2, <5>3
      <4> QED
        BY <4>1, <4>2
    <3> QED
      BY <3>5, <3>6 DEF IsALine
  <2> QED
    BY <2>4, <2>5
<1> QED
  BY <1>5, <1>6, <1>7, <1>8, <1>9 DEF CasesInv

\* A change of an active case keeps what the cases say of each other.
LEMMA RowKeeps ==
  ASSUME CasesInv, NEW id \in DOMAIN cases, NEW r, cases' = [cases EXCEPT ![id] = r],
         r.opp = cases[id].opp, r.facts = cases[id].facts, r.detected = cases[id].detected,
         r.pred = cases[id].pred, cases[id].state \in ActiveCases, r.state # "SUPERSEDED",
         r.detected <= r.updated
  PROVE  CasesInv'
<1>1. /\ DOMAIN cases' = DOMAIN cases /\ cases'[id] = r
      /\ \A i \in DOMAIN cases \ {id} : cases'[i] = cases[i]
  OBVIOUS
<1>2. \A i \in DOMAIN cases : /\ cases'[i].opp = cases[i].opp /\ cases'[i].facts = cases[i].facts
                              /\ cases'[i].detected = cases[i].detected
                              /\ cases'[i].pred = cases[i].pred
                              /\ cases'[i].state \in ActiveCases => cases[i].state \in ActiveCases
                              /\ i # id => cases'[i] = cases[i]
  BY <1>1
<1>3. \A o : Series(o)' = Series(o)
  BY <1>1, <1>2 DEF Series
<1>4. OneActiveCase'
  BY <1>1, <1>2 DEF CasesInv, OneActiveCase, Active, Series
<1>5. Dated'
  BY <1>1, <1>2 DEF CasesInv, Dated
<1>6. Superseded'
  <2> SUFFICES ASSUME NEW i \in DOMAIN cases, cases'[i].state = "SUPERSEDED"
               PROVE  Followed(i, cases[i].succ)'
    BY <1>1 DEF Superseded
  <2>1. i # id /\ cases'[i] = cases[i]
    BY <1>1, <1>2
  <2>2. Followed(i, cases[i].succ)
    BY <2>1 DEF CasesInv, Superseded
  <2> QED
    BY <1>1, <1>2, <2>1, <2>2 DEF Followed
<1>7. InSeries'
  BY <1>1, <1>2 DEF CasesInv, InSeries
<1>8. ASSUME NEW o, Later(o)' PROVE IsALine(o)'
  <2>1. Series(o)' = Series(o) /\ Series(o) \subseteq DOMAIN cases
    BY <1>3 DEF Series
  <2>2. Later(o)
    <3> SUFFICES ASSUME NEW i \in Series(o), cases[i].pred # 0
                 PROVE  cases[cases[i].pred].detected < cases[i].detected
      BY DEF Later
    <3>1. i \in DOMAIN cases /\ cases[i].pred \in DOMAIN cases
      BY <2>1 DEF CasesInv, InSeries
    <3> QED
      BY <1>2, <1>8, <2>1, <3>1 DEF Later
  <2>3. IsALine(o)
    BY <2>2 DEF CasesInv
  <2>4. ASSUME NEW i \in Series(o), NEW j \in Series(o), cases'[i].pred = j
        PROVE  /\ cases'[i].facts # cases'[j].facts
               /\ cases'[j].state \notin ActiveCases
               /\ cases'[j].state = "SUPERSEDED" => cases'[j].succ = i
    <3>1. cases[i].pred = j
      BY <1>2, <2>1, <2>4
    <3>2. cases[i].facts # cases[j].facts /\ cases[j].state \notin ActiveCases
          /\ (cases[j].state = "SUPERSEDED" => cases[j].succ = i)
      BY <2>3, <3>1 DEF IsALine
    <3>3. j # id /\ cases'[j] = cases[j]
      BY <1>2, <2>1, <3>2
    <3> QED
      BY <1>2, <2>1, <3>2, <3>3
  <2> QED
    BY <1>2, <2>1, <2>3, <2>4 DEF IsALine
<1> QED
  BY <1>4, <1>5, <1>6, <1>7, <1>8 DEF CasesInv

-----------------------------------------------------------------------------
(* What requests know stays true                                           *)

Grew ==
    /\ now' \in Nat /\ now <= now'
    /\ DOMAIN evidence \subseteq DOMAIN evidence'
    /\ \A o \in DOMAIN evidence' : IF o \in DOMAIN evidence
                                   THEN evidence'[o].born = evidence[o].born
                                   ELSE evidence'[o].born = now
    /\ DOMAIN cases \subseteq DOMAIN cases'
    /\ \A i \in DOMAIN cases : cases'[i].detected = cases[i].detected
    /\ DOMAIN actions \subseteq DOMAIN actions'

LEMMA RowsGrow ==
  ASSUME Typed, Grew
  PROVE  CaseRows \subseteq CaseRows' /\ ActionRows \subseteq ActionRows'
<1>1. 0 .. now \subseteq 0 .. now'
  BY Times DEF Grew
<1>2. /\ DOMAIN evidence \subseteq DOMAIN evidence' /\ DOMAIN actions \subseteq DOMAIN actions'
      /\ DOMAIN cases \subseteq DOMAIN cases'
  BY DEF Grew
<1>3. ASSUME NEW r \in CaseRows PROVE r \in CaseRows'
  BY <1>1, <1>2, <1>3 DEF CaseRows
<1>4. ASSUME NEW r \in ActionRows PROVE r \in ActionRows'
  BY <1>1, <1>2, <1>4 DEF ActionRows
<1> QED
  BY <1>3, <1>4

LEMMA KnowsStays ==
  ASSUME Typed, Grew, NEW q, Knows(q)
  PROVE  Knows(q)'
<1> SUFFICES ASSUME q # Idle PROVE Knows(q)'
  BY DEF Knows
<1>1. IsRequest(q) /\ q.at \in 0 .. now /\ q.at \in 0 .. now' /\ now \in Nat
  BY Times DEF Knows, Grew
<1>2. q.op = "scan" /\ q.step = "enumerated" => SawAll(q)' /\ DOMAIN q.seen \subseteq DOMAIN evidence'
  <2> SUFFICES ASSUME q.op = "scan", q.step = "enumerated"
               PROVE  SawAll(q)' /\ DOMAIN q.seen \subseteq DOMAIN evidence'
    OBVIOUS
  <2>1. SawAll(q) /\ DOMAIN q.seen \subseteq DOMAIN evidence
    BY DEF Knows
  <2>2. ASSUME NEW o \in DOMAIN evidence', evidence'[o].born < q.at PROVE o \in DOMAIN q.seen
    BY <1>1, <2>1, <2>2 DEF SawAll, Grew
  <2> QED
    BY <2>1, <2>2 DEF SawAll, Grew
<1>3. /\ q.op = "detect" => q.opp \in DOMAIN evidence'
      /\ q.op \in CaseOps => q.case \in DOMAIN cases' /\ cases'[q.case].detected <= q.at
      /\ q.op = "snooze" => q.more \in Nat
      /\ q.op = "link" => q.more \in DOMAIN actions'
  BY DEF Knows, Grew
<1>4. IsRequest(q)'
  BY <1>1 DEF IsRequest
<1> QED
  BY <1>1, <1>2, <1>3, <1>4 DEF Knows

\* One client goes on, the others know what they knew.
LEMMA OneGoesOn ==
  ASSUME Typed, Grew, \A d \in Clients : Knows(tx[d]),
         NEW c \in Clients, NEW q, tx' = [tx EXCEPT ![c] = q], Knows(q)'
  PROVE  tx' = [d \in Clients |-> tx'[d]] /\ \A d \in Clients : Knows(tx[d])'
<1>1. tx = [d \in Clients |-> tx[d]]
  BY DEF Typed
<1>2. tx' = [d \in Clients |-> tx'[d]] /\ tx'[c] = q /\ \A d \in Clients \ {c} : tx'[d] = tx[d]
  BY <1>1
<1>3. ASSUME NEW d \in Clients PROVE Knows(tx[d])'
  <2>1. CASE d = c
    BY <1>2, <2>1 DEF Knows, IsRequest, SawAll
  <2>2. CASE d # c
    <3>1. PICK p : p = tx[d]
      OBVIOUS
    <3>2. Knows(p)'
      BY <3>1, KnowsStays
    <3>3. tx'[d] = p
      BY <1>2, <2>2, <3>1
    <3> QED
      BY <3>2, <3>3 DEF Knows, IsRequest, SawAll
  <2> QED
    BY <2>1, <2>2
<1> QED
  BY <1>2, <1>3

\* Nobody goes on.
LEMMA NobodyGoesOn ==
  ASSUME Typed, Grew, \A d \in Clients : Knows(tx[d]), tx' = tx
  PROVE  tx' = [d \in Clients |-> tx'[d]] /\ \A d \in Clients : Knows(tx[d])'
<1>1. ASSUME NEW d \in Clients PROVE Knows(tx[d])'
  <2>1. PICK p : p = tx[d]
    OBVIOUS
  <2>2. Knows(p)'
    BY <2>1, KnowsStays
  <2> QED
    BY <2>1, <2>2 DEF Knows, IsRequest, SawAll
<1> QED
  BY <1>1 DEF Typed

-----------------------------------------------------------------------------
(* Steps that write nothing                                                *)

LEMMA IdleKnows == Knows(Idle)
  BY DEF Knows

\* Nothing but a request changes.
LEMMA StoreStays ==
  ASSUME IInv, UNCHANGED Store
  PROVE  Grew /\ CasesInv' /\ (tx' = [d \in Clients |-> tx'[d]] => Typed')
<1>1. Grew
  <2>1. /\ now' = now /\ evidence' = evidence /\ cases' = cases /\ actions' = actions
    BY DEF Store
  <2> QED
    BY <2>1, Times DEF IInv, Grew
<1>2. CasesInv'
  <2>1. cases' = cases
    BY DEF Store
  <2> QED
    BY <2>1 DEF IInv, CasesInv, OneActiveCase, Dated, Superseded, InSeries, Followed,
                Later, IsALine, Active, Series
<1>3. ASSUME tx' = [d \in Clients |-> tx'[d]] PROVE Typed'
  BY <1>3 DEF IInv, Typed, Store, CaseRows, ActionRows
<1> QED
  BY <1>1, <1>2, <1>3

LEMMA RequestMoves ==
  ASSUME IInv, UNCHANGED Store, NEW c \in Clients, NEW q, tx' = [tx EXCEPT ![c] = q], Knows(q)
  PROVE  IInv'
<1>1. Grew /\ CasesInv' /\ (tx' = [d \in Clients |-> tx'[d]] => Typed')
  BY StoreStays
<1>2. Knows(q)'
  BY <1>1, KnowsStays DEF IInv
<1>3. tx' = [d \in Clients |-> tx'[d]] /\ \A d \in Clients : Knows(tx[d])'
  BY <1>1, <1>2, OneGoesOn DEF IInv
<1> QED
  BY <1>1, <1>3 DEF IInv

\* A request ends without having written.
LEMMA RequestEnds ==
  ASSUME IInv, UNCHANGED Store, NEW c \in Clients, tx' = [tx EXCEPT ![c] = Idle]
  PROVE  IInv'
<1>1. PICK q : q = Idle
  OBVIOUS
<1> QED
  BY <1>1, IdleKnows, RequestMoves

LEMMA RefuseKeeps ==
  ASSUME IInv, NEW c \in Clients, NEW code, Refuse(c, code)
  PROVE  IInv'
  BY RequestEnds DEF Refuse, Answer, Store

LEMMA NewRequest ==
  ASSUME NEW op, NEW o, NEW id, NEW more
  PROVE  /\ IsRequest(Request(op, o, id, more)) /\ Request(op, o, id, more).op = op
         /\ Request(op, o, id, more).opp = o /\ Request(op, o, id, more).case = id
         /\ Request(op, o, id, more).more = more /\ Request(op, o, id, more).at = now
         /\ Request(op, o, id, more).step = "begun"
  BY DEF Request, IsRequest

LEMMA BeginKeeps ==
  ASSUME IInv, NEW c \in Clients, Begin(c)
  PROVE  IInv'
<1>0. UNCHANGED Store /\ now \in 0 .. now
  BY Times DEF Begin, IInv
<1>1. ASSUME NEW op, NEW o, NEW id, NEW more, tx' = [tx EXCEPT ![c] = Request(op, o, id, more)],
             op = "detect" => o \in DOMAIN evidence,
             op \in CaseOps => id \in DOMAIN cases,
             op = "snooze" => more \in Nat,
             op = "link" => more \in DOMAIN actions
      PROVE  IInv'
  <2>1. PICK q : q = Request(op, o, id, more)
    OBVIOUS
  <2>2. op \in CaseOps => id \in DOMAIN cases /\ cases[id].detected <= now
    BY <1>1, CaseRow, Times DEF IInv
  <2>3. Knows(q)
    BY <1>0, <1>1, <2>1, <2>2, NewRequest DEF Knows
  <2> QED
    BY <1>0, <1>1, <2>1, <2>3, RequestMoves
<1>2. PICK op \in setting.requests[c] :
         \/ /\ op \in {"scan", "eligibility", "queue"}
            /\ tx' = [tx EXCEPT ![c] = Request(op, 0, 0, 0)]
         \/ /\ op \in {"detect", "list"}
            /\ \E o \in DOMAIN evidence :
                 tx' = [tx EXCEPT ![c] = Request(op, o, 0, 0)]
         \/ /\ op \in {"handoff", "resume", "dismiss"}
            /\ \E id \in DOMAIN cases :
                 tx' = [tx EXCEPT ![c] = Request(op, cases[id].opp, id, 0)]
         \/ /\ op = "snooze"
            /\ \E id \in DOMAIN cases, wake \in 1 .. MaxNow :
                 tx' = [tx EXCEPT ![c] = Request(op, cases[id].opp, id, wake)]
         \/ /\ op = "link"
            /\ \E id \in DOMAIN cases, a \in DOMAIN actions :
                 tx' = [tx EXCEPT ![c] = Request(op, cases[id].opp, id, a)]
  BY DEF Begin
<1>3. CASE op \in {"scan", "eligibility", "queue"} /\ tx' = [tx EXCEPT ![c] = Request(op, 0, 0, 0)]
  BY <1>1, <1>3 DEF CaseOps
<1>4. ASSUME op \in {"detect", "list"}, NEW o \in DOMAIN evidence,
             tx' = [tx EXCEPT ![c] = Request(op, o, 0, 0)]
      PROVE  IInv'
  BY <1>1, <1>4 DEF CaseOps
<1>5. ASSUME op \in {"handoff", "resume", "dismiss"}, NEW id \in DOMAIN cases,
             tx' = [tx EXCEPT ![c] = Request(op, cases[id].opp, id, 0)]
      PROVE  IInv'
  <2>1. PICK o : o = cases[id].opp
    OBVIOUS
  <2> QED
    BY <1>1, <1>5, <2>1
<1>6. ASSUME op = "snooze", NEW id \in DOMAIN cases, NEW wake \in 1 .. MaxNow,
             tx' = [tx EXCEPT ![c] = Request(op, cases[id].opp, id, wake)]
      PROVE  IInv'
  <2>1. PICK o : o = cases[id].opp
    OBVIOUS
  <2>2. wake \in Nat /\ op # "detect" /\ op # "link"
    BY BoundAssumption, <1>6
  <2>3. tx' = [tx EXCEPT ![c] = Request(op, o, id, wake)]
    BY <1>6, <2>1
  <2> QED
    BY <1>1, <2>2, <2>3
<1>7. ASSUME op = "link", NEW id \in DOMAIN cases, NEW a \in DOMAIN actions,
             tx' = [tx EXCEPT ![c] = Request(op, cases[id].opp, id, a)]
      PROVE  IInv'
  <2>1. PICK o : o = cases[id].opp
    OBVIOUS
  <2>2. op # "detect" /\ op # "snooze"
    BY <1>7
  <2>3. tx' = [tx EXCEPT ![c] = Request(op, o, id, a)]
    BY <1>7, <2>1
  <2> QED
    BY <1>1, <2>2, <2>3
<1> QED
  BY <1>2, <1>3, <1>4, <1>5, <1>6, <1>7, Zenon

LEMMA EnumerateKeeps ==
  ASSUME IInv, NEW c \in Clients, Enumerate(c)
  PROVE  IInv'
<1>1. PICK t : t = tx[c]
  OBVIOUS
<1>2. PICK q : q = [t EXCEPT !.step = "enumerated", !.seen = evidence, !.todo = DOMAIN evidence]
  OBVIOUS
<1>3. tx' = [tx EXCEPT ![c] = q]
  BY <1>1, <1>2 DEF Enumerate
<1>4. t # Idle /\ IsRequest(t) /\ t.at \in 0 .. now /\ t.op \in {"scan", "eligibility"}
  BY <1>1 DEF IInv, Knows, Enumerate, Idle
<1>5. IsRequest(q) /\ q.at = t.at /\ q.op = t.op /\ q.seen = evidence
  BY <1>2, <1>4 DEF IsRequest
<1>6. Knows(q)
  BY <1>4, <1>5 DEF Knows, SawAll, CaseOps
<1> QED
  BY <1>3, <1>6, RequestMoves DEF Enumerate

LEMMA ChildrenKeep ==
  ASSUME IInv, NEW c \in Clients, ReadActivities(c) \/ ReadTasks(c)
  PROVE  IInv'
<1>1. PICK t : t = tx[c]
  OBVIOUS
<1>2. t # Idle /\ IsRequest(t) /\ t.at \in 0 .. now /\ t.op = "eligibility"
  BY <1>1 DEF IInv, Knows, ReadActivities, ReadTasks, Idle
<1>3. PICK step, todo, seen : tx' = [tx EXCEPT ![c] = [t EXCEPT !.step = step, !.todo = todo, !.seen = seen]]
  <2>1. CASE ReadActivities(c)
    <3>1. PICK seen : tx' = [tx EXCEPT ![c].step = "activities", ![c].seen = seen]
      BY <2>1 DEF ReadActivities
    <3>2. tx' = [tx EXCEPT ![c] = [t EXCEPT !.step = "activities", !.todo = t.todo, !.seen = seen]]
      BY <1>1, <1>2, <3>1 DEF IsRequest, IInv, Typed
    <3> QED
      BY <3>2
  <2>2. CASE ReadTasks(c)
    <3>1. PICK todo, seen : tx' = [tx EXCEPT ![c].step = "enumerated", ![c].todo = todo, ![c].seen = seen]
      BY <2>2 DEF ReadTasks
    <3>2. tx' = [tx EXCEPT ![c] = [t EXCEPT !.step = "enumerated", !.todo = todo, !.seen = seen]]
      BY <1>1, <3>1 DEF IInv, Typed
    <3> QED
      BY <3>2
  <2> QED
    BY <2>1, <2>2
<1>4. PICK q : q = [t EXCEPT !.step = step, !.todo = todo, !.seen = seen]
  OBVIOUS
<1>5. IsRequest(q) /\ q.op = t.op /\ q.at = t.at
  BY <1>2, <1>4 DEF IsRequest
<1>6. Knows(q)
  BY <1>2, <1>5 DEF Knows, CaseOps
<1>7. reply' = NoReply /\ UNCHANGED Store
  BY DEF ReadActivities, ReadTasks
<1> QED
  BY <1>3, <1>4, <1>6, <1>7, RequestMoves

-----------------------------------------------------------------------------
(* Detection and scan                                                      *)

LEMMA AuditedRow ==
  ASSUME NEW r \in CaseRows, NEW to \in States \cup {"LINKED"}, NEW at \in 0 .. now, now \in Nat
  PROVE  LET a == Audited(r, to, at) IN
         /\ a \in CaseRows /\ a.opp = r.opp /\ a.facts = r.facts /\ a.detected = r.detected
         /\ a.pred = r.pred /\ a.state = r.state /\ a.updated = at
<1>1. [to |-> to, at |-> at] \in Entries
  BY DEF Entries
<1>2. r.audit \in Seq(Entries)
  BY DEF CaseRows
<1>3. Append(r.audit, [to |-> to, at |-> at]) \in Seq(Entries)
  BY <1>1, <1>2
<1>4. PICK a \in Seq(Entries) : a = Append(r.audit, [to |-> to, at |-> at])
  BY <1>3
<1>5. Audited(r, to, at) = [r EXCEPT !.updated = at, !.audit = a]
  BY <1>4 DEF Audited
<1>6. [r EXCEPT !.updated = at, !.audit = a] \in CaseRows
  BY DEF CaseRows
<1> QED
  BY <1>5, <1>6 DEF CaseRows

LEMMA WrittenTypes ==
  ASSUME Typed, NEW found, NEW fresh, NEW at \in 0 .. now, Written(cases', found, fresh, at),
         \A o \in DOMAIN found : o \in DOMAIN evidence /\ found[o] \in FactRows,
         UNCHANGED <<now, evidence, actions>>
  PROVE  /\ Grew /\ DOMAIN cases' \subseteq 1 .. MaxCases
         /\ cases' \in [DOMAIN cases' -> CaseRows']
<1>0. /\ now \in Nat
      /\ DOMAIN cases \subseteq DOMAIN cases' /\ DOMAIN cases' \subseteq 1 .. MaxCases
      /\ \A o \in DOMAIN fresh : fresh[o] \in DOMAIN cases' /\ o \in DOMAIN found
      /\ \A i \in DOMAIN cases' : i \in DOMAIN cases \/ \E o \in DOMAIN fresh : i = fresh[o]
  BY Times DEF Typed, Written, Opened
<1>1. Grew
  <2>1. \A i \in DOMAIN cases : cases'[i].detected = cases[i].detected
    BY WrittenFields
  <2> QED
    BY <1>0, <2>1 DEF Grew
<1>2. CaseRows \subseteq CaseRows'
  BY <1>1, RowsGrow
<1>3. ASSUME NEW o \in DOMAIN fresh PROVE cases'[fresh[o]] \in CaseRows'
  <2>1. cases'[fresh[o]] = NewCase(o, found[o], at)
    BY DEF Written, Opened
  <2>2. o \in DOMAIN evidence' /\ found[o] \in FactRows
    BY <1>0
  <2>3. The(Predecessor(o)) \in {0} \cup DOMAIN cases'
    BY <1>0, PredecessorIn DEF Series
  <2>4. at \in 0 .. now' /\ at \in Nat
    BY <1>0
  <2>5. <<[to |-> "OPEN", at |-> at]>> \in Seq(Entries)
    BY <2>4 DEF Entries, States
  <2>6. NoTime \in Int
    BY DEF NoTime
  <2> QED
    BY <2>1, <2>2, <2>3, <2>4, <2>5, <2>6 DEF NewCase, CaseRows, States
<1>4. ASSUME NEW i \in DOMAIN cases PROVE cases'[i] \in CaseRows'
  <2>1. CASE i \in Active(cases[i].opp) /\ cases[i].opp \in DOMAIN fresh
    <3>1. PICK r : r = Audited(cases[i], "SUPERSEDED", at)
      OBVIOUS
    <3>2. r \in CaseRows'
      BY <1>0, <1>2, <3>1, CaseRow, AuditedRow DEF States
    <3>3. PICK n : n = fresh[cases[i].opp]
      OBVIOUS
    <3>4. cases'[i] = [r EXCEPT !.state = "SUPERSEDED", !.succ = n]
      BY <2>1, <3>1, <3>3 DEF Written, Closed
    <3>5. n \in DOMAIN cases'
      BY <1>0, <2>1, <3>3
    <3> QED
      BY <3>2, <3>4, <3>5 DEF CaseRows, States
  <2>2. CASE ~(i \in Active(cases[i].opp) /\ cases[i].opp \in DOMAIN fresh)
    <3>1. cases'[i] = cases[i]
      BY <2>2 DEF Written, Closed
    <3> QED
      BY <1>2, <3>1, CaseRow
  <2> QED
    BY <2>1, <2>2
<1>5. \A i \in DOMAIN cases' : cases'[i] \in CaseRows'
  BY <1>0, <1>3, <1>4
<1>6. cases' = [i \in DOMAIN cases' |-> cases'[i]]
  BY DEF Written
<1> QED
  BY <1>0, <1>1, <1>5, <1>6

\* A reconciliation of the leaks found, by a detection or a scan.
LEMMA ReconcileKeeps ==
  ASSUME IInv, NEW c \in Clients, NEW found, NEW fresh \in Numberings(found), NEW at \in 0 .. now,
         \A o \in DOMAIN found : o \in DOMAIN evidence /\ found[o] \in FactRows,
         cases' = Reconciled(found, fresh, at), Admissible(Reconciled(found, fresh, at)),
         UNCHANGED <<now, evidence, actions, setting>>,
         milestones' \subseteq milestones \cup {ScanCompleted},
         tx' = [tx EXCEPT ![c] = Idle]
  PROVE  IInv'
<1>1. Written(cases', found, fresh, at)
  BY ReconciledRows
<1>2. CasesInv'
  BY <1>1, ReconcilingKeeps DEF IInv
<1>3. /\ Grew /\ DOMAIN cases' \subseteq 1 .. MaxCases
      /\ cases' \in [DOMAIN cases' -> CaseRows']
  BY <1>1, WrittenTypes DEF IInv
<1>4. tx' = [d \in Clients |-> tx'[d]] /\ \A d \in Clients : Knows(tx[d])'
  <2>1. PICK q : q = Idle
    OBVIOUS
  <2>2. Knows(q)'
    BY <2>1 DEF Knows
  <2> QED
    BY <1>3, <2>1, <2>2, OneGoesOn DEF IInv
<1>5. Typed'
  <2>1. ActionRows' = ActionRows
    BY DEF ActionRows
  <2>2. milestones' \subseteq {ScanCompleted} \cup DOMAIN cases'
    BY <1>3 DEF Grew, IInv, Typed
  <2>3. /\ setting' \in Settings /\ now' \in 0 .. setting'.until
        /\ evidence' \in [DOMAIN evidence' -> Evidence(Nat)]
        /\ \E k \in 0 .. MaxActions : DOMAIN actions' = 1 .. k
        /\ actions' \in [DOMAIN actions' -> ActionRows']
    BY <2>1 DEF IInv, Typed
  <2> QED
    BY <1>3, <1>4, <2>2, <2>3 DEF Typed
<1> QED
  BY <1>2, <1>4, <1>5 DEF IInv

LEMMA FactsOf ==
  ASSUME Typed, NEW o \in DOMAIN evidence
  PROVE  Facts(evidence[o]) \in FactRows /\ Basis(evidence[o]) \in BasisRows
<1>1. evidence[o] \in Evidence(Nat)
  BY DEF Typed
<1> QED
  BY <1>1 DEF FactRows, BasisRows

LEMMA DetectKeeps ==
  ASSUME IInv, NEW c \in Clients, Detect(c)
  PROVE  IInv'
<1> DEFINE o == tx[c].opp
           at == tx[c].at
           found == [p \in {o} |-> Facts(evidence[p])]
<1>1. tx[c].op = "detect" /\ tx[c] # Idle
  BY DEF Detect, Idle
<1>2. o \in DOMAIN evidence /\ at \in 0 .. now
  BY <1>1 DEF IInv, Knows
<1>3. DOMAIN found = {o} /\ found[o] = Facts(evidence[o])
  OBVIOUS
<1>4. \/ UNCHANGED Store /\ tx' = [tx EXCEPT ![c] = Idle]
      \/ \E fresh \in Numberings(found) :
            \/ Refuse(c, "FAILED")
            \/ /\ cases' = Reconciled(found, fresh, at) /\ Admissible(Reconciled(found, fresh, at))
               /\ tx' = [tx EXCEPT ![c] = Idle]
               /\ UNCHANGED <<now, evidence, actions, milestones, setting>>
  BY DEF Detect, Answer
<1>5. CASE UNCHANGED Store /\ tx' = [tx EXCEPT ![c] = Idle]
  BY <1>5, RequestEnds
<1>6. ASSUME NEW fresh \in Numberings(found), cases' = Reconciled(found, fresh, at),
             Admissible(Reconciled(found, fresh, at)), tx' = [tx EXCEPT ![c] = Idle],
             UNCHANGED <<now, evidence, actions, milestones, setting>>
      PROVE  IInv'
  <2>1. \A p \in DOMAIN found : p \in DOMAIN evidence /\ found[p] \in FactRows
    BY <1>2, <1>3, FactsOf DEF IInv
  <2>2. PICK f, t : f = found /\ t = at
    OBVIOUS
  <2> HIDE DEF found, at
  <2> QED
    BY <1>2, <1>6, <2>1, <2>2, ReconcileKeeps
<1> HIDE DEF found, at
<1> QED
  BY <1>4, <1>5, <1>6, RefuseKeeps

LEMMA ScanKeeps ==
  ASSUME IInv, NEW c \in Clients, Scan(c)
  PROVE  IInv'
<1> DEFINE at == tx[c].at
           scanned == Scanned(c)
           found == [o \in {p \in scanned : IsLeak(evidence[p], at)} |-> Facts(evidence[o])]
<1>1. tx[c].op = "scan" /\ tx[c].step = "enumerated" /\ tx[c] # Idle
  BY DEF Scan, Idle
<1>2. scanned \subseteq DOMAIN evidence /\ at \in 0 .. now
  BY <1>1 DEF IInv, Knows, Scanned
<1>3. \/ Refuse(c, "LIMIT")
      \/ \E fresh \in Numberings(found) :
            \/ Refuse(c, "FAILED")
            \/ /\ cases' = Reconciled(found, fresh, at) /\ Admissible(Reconciled(found, fresh, at))
               /\ tx' = [tx EXCEPT ![c] = Idle]
               /\ milestones' = milestones \cup {ScanCompleted}
               /\ UNCHANGED <<now, evidence, actions, setting>>
  BY DEF Scan, Answer
<1>4. ASSUME NEW fresh \in Numberings(found), cases' = Reconciled(found, fresh, at),
             Admissible(Reconciled(found, fresh, at)), tx' = [tx EXCEPT ![c] = Idle],
             milestones' = milestones \cup {ScanCompleted},
             UNCHANGED <<now, evidence, actions, setting>>
      PROVE  IInv'
  <2>1. \A p \in DOMAIN found : p \in DOMAIN evidence /\ found[p] \in FactRows
    BY <1>2, FactsOf DEF IInv
  <2>2. PICK f, t : f = found /\ t = at
    OBVIOUS
  <2> HIDE DEF found, at
  <2> QED
    BY <1>2, <1>4, <2>1, <2>2, ReconcileKeeps
<1> HIDE DEF found, at
<1> QED
  BY <1>3, <1>4, RefuseKeeps

-----------------------------------------------------------------------------
(* Writes of one case and of actions                                       *)

LEMMA CaseWritten ==
  ASSUME IInv, NEW c \in Clients, NEW id \in DOMAIN cases, NEW r \in CaseRows',
         cases' = [cases EXCEPT ![id] = r],
         r.opp = cases[id].opp, r.facts = cases[id].facts, r.detected = cases[id].detected,
         r.pred = cases[id].pred, cases[id].state \in ActiveCases, r.state # "SUPERSEDED",
         r.detected <= r.updated,
         UNCHANGED <<now, evidence, setting>>,
         \E k \in 0 .. MaxActions : DOMAIN actions' = 1 .. k,
         DOMAIN actions \subseteq DOMAIN actions', actions' \in [DOMAIN actions' -> ActionRows'],
         milestones' \subseteq milestones \cup {id},
         tx' = [tx EXCEPT ![c] = Idle]
  PROVE  IInv'
<1>1. /\ DOMAIN cases' = DOMAIN cases /\ cases'[id] = r
      /\ \A i \in DOMAIN cases \ {id} : cases'[i] = cases[i]
      /\ cases' = [i \in DOMAIN cases' |-> cases'[i]]
  BY DEF IInv, Typed
<1>2. Grew
  BY <1>1, Times DEF Grew, IInv
<1>3. CasesInv'
  BY RowKeeps DEF IInv
<1>4. tx' = [d \in Clients |-> tx'[d]] /\ \A d \in Clients : Knows(tx[d])'
  <2>1. PICK q : q = Idle
    OBVIOUS
  <2>2. Knows(q)'
    BY <2>1 DEF Knows
  <2> QED
    BY <1>2, <2>1, <2>2, OneGoesOn DEF IInv
<1>5. Typed'
  <2>1. cases' \in [DOMAIN cases' -> CaseRows']
    <3>1. \A i \in DOMAIN cases' : cases'[i] \in CaseRows'
      BY <1>1, <1>2, CaseRow, RowsGrow DEF IInv
    <3> QED
      BY <1>1, <3>1
  <2>2. DOMAIN cases' \subseteq 1 .. MaxCases /\ milestones' \subseteq {ScanCompleted} \cup DOMAIN cases'
    BY <1>1 DEF IInv, Typed
  <2>3. /\ setting' \in Settings /\ now' \in 0 .. setting'.until
        /\ evidence' \in [DOMAIN evidence' -> Evidence(Nat)]
    BY DEF IInv, Typed
  <2> QED
    BY <1>4, <2>1, <2>2, <2>3 DEF Typed
<1> QED
  BY <1>3, <1>4, <1>5 DEF IInv

\* What the actions look like after a materialization.
LEMMA MaterializedRows ==
  ASSUME Typed, NEW o \in DOMAIN evidence, NEW a \in Candidates(o), a <= MaxActions,
         actions' = Materialized(o, a), UNCHANGED <<now, evidence>>,
         DOMAIN cases \subseteq DOMAIN cases',
         \A i \in DOMAIN cases : cases'[i].detected = cases[i].detected
  PROVE  /\ Grew /\ a \in DOMAIN actions' /\ a # 0
         /\ \E k \in 0 .. MaxActions : DOMAIN actions' = 1 .. k
         /\ actions' \in [DOMAIN actions' -> ActionRows']
         /\ actions'[a].opp = o /\ actions'[a].basis = Basis(evidence[o])
         /\ actions'[a].status = "OPEN"
         /\ \A b \in DOMAIN actions' :
              actions'[b].opp = o /\ actions'[b].status = "OPEN" => b = a
<1>0. PICK k \in 0 .. MaxActions : DOMAIN actions = 1 .. k
  BY DEF Typed
<1>1. k \in Nat /\ now \in Nat
  BY <1>0, BoundAssumption, Times
<1> DEFINE same == {b \in OpenActions(o) : actions[b].basis = Basis(evidence[o])}
<1>2. \/ a \in DOMAIN actions /\ a \in OpenActions(o) /\ actions[a].basis = Basis(evidence[o])
      \/ a = k + 1 /\ a \notin DOMAIN actions
  <2>1. Cardinality(1 .. k) = k
    <3>1. Cardinality(1 .. k) = IF 1 > k THEN 0 ELSE k - 1 + 1
      BY <1>1, FS_Interval
    <3> QED
      BY <1>1, <3>1
  <2>2. CASE same # {}
    BY <2>2 DEF Candidates, OpenActions
  <2>3. CASE same = {}
    BY <1>0, <1>1, <2>1, <2>3 DEF Candidates
  <2> QED
    BY <2>2, <2>3
<1>3. /\ DOMAIN actions' = DOMAIN actions \cup {a}
      /\ \A b \in DOMAIN actions \cup {a} : actions'[b] =
            IF b \notin DOMAIN actions
            THEN [opp |-> o, basis |-> Basis(evidence[o]), status |-> "OPEN", created |-> now]
            ELSE IF b \in OpenActions(o) \ {a} THEN [actions[b] EXCEPT !.status = "DONE"]
            ELSE actions[b]
  BY DEF Materialized
<1>4. PICK n \in 0 .. MaxActions : DOMAIN actions' = 1 .. n
  <2>1. CASE a \in DOMAIN actions
    BY <1>0, <1>3, <2>1
  <2>2. CASE a = k + 1 /\ a \notin DOMAIN actions
    <3>1. (1 .. k) \cup {k + 1} = 1 .. (k + 1) /\ k + 1 \in 0 .. MaxActions
      BY <1>1, <2>2, BoundAssumption
    <3> QED
      BY <1>0, <1>3, <2>2, <3>1
  <2> QED
    BY <1>2, <2>1, <2>2
<1>5. Grew
  BY <1>1, <1>3 DEF Grew
<1>6. ActionRows \subseteq ActionRows'
  BY <1>5, RowsGrow
<1>7. ASSUME NEW b \in DOMAIN actions' PROVE actions'[b] \in ActionRows'
  <2>1. CASE b \notin DOMAIN actions
    <3>1. actions'[b] = [opp |-> o, basis |-> Basis(evidence[o]), status |-> "OPEN", created |-> now]
      BY <1>3, <2>1
    <3>2. Basis(evidence[o]) \in BasisRows
      BY FactsOf
    <3>3. now \in 0 .. now' /\ o \in DOMAIN evidence'
      BY <1>1
    <3> QED
      BY <3>1, <3>2, <3>3 DEF ActionRows
  <2>2. CASE b \in DOMAIN actions
    <3>1. actions[b] \in ActionRows
      BY <2>2 DEF Typed
    <3>2. [actions[b] EXCEPT !.status = "DONE"] \in ActionRows
      BY <3>1 DEF ActionRows
    <3> QED
      BY <1>3, <1>6, <2>2, <3>1, <3>2
  <2> QED
    BY <2>1, <2>2
<1>8. actions' = [b \in DOMAIN actions' |-> actions'[b]]
  <2> DEFINE Row(b) == IF b \notin DOMAIN actions
            THEN [opp |-> o, basis |-> Basis(evidence[o]), status |-> "OPEN", created |-> now]
            ELSE IF b \in OpenActions(o) \ {a} THEN [actions[b] EXCEPT !.status = "DONE"]
            ELSE actions[b]
  <2>1. actions' = [b \in DOMAIN actions \cup {a} |-> Row(b)]
    BY DEF Materialized
  <2> HIDE DEF Row
  <2> QED
    BY <2>1
<1>9. actions'[a].opp = o /\ actions'[a].basis = Basis(evidence[o]) /\ actions'[a].status = "OPEN"
  <2>1. CASE a \in DOMAIN actions
    <3>1. actions'[a] = actions[a] /\ a \in OpenActions(o) /\ actions[a].basis = Basis(evidence[o])
      BY <1>1, <1>2, <1>3, <2>1
    <3> QED
      BY <3>1 DEF OpenActions
  <2>2. CASE a \notin DOMAIN actions
    <3>1. actions'[a] =
            [opp |-> o, basis |-> Basis(evidence[o]), status |-> "OPEN", created |-> now]
      BY <1>3, <2>2
    <3> QED
      BY ONLY <3>1
  <2> QED
    BY <2>1, <2>2
<1>10. ASSUME NEW b \in DOMAIN actions', actions'[b].opp = o, actions'[b].status = "OPEN", b # a
       PROVE  FALSE
  <2>1. b \in DOMAIN actions /\ actions[b] \in ActionRows
    BY <1>3, <1>10 DEF Typed
  <2>2. CASE b \in OpenActions(o)
    <3>1. actions'[b] = [actions[b] EXCEPT !.status = "DONE"]
      BY <1>3, <1>10, <2>1, <2>2
    <3>2. actions'[b].status = "DONE"
      BY <2>1, <3>1 DEF ActionRows
    <3> QED
      BY <1>10, <3>2
  <2>3. CASE b \notin OpenActions(o)
    <3>1. actions'[b] = actions[b]
      BY <1>3, <1>10, <2>1, <2>3
    <3> QED
      BY <1>10, <2>1, <2>3, <3>1 DEF OpenActions
  <2> QED
    BY <2>2, <2>3
<1>11. a \in DOMAIN actions' /\ a # 0
  BY <1>0, <1>1, <1>2, <1>3
<1> QED
  BY <1>4, <1>5, <1>7, <1>8, <1>9, <1>10, <1>11

-----------------------------------------------------------------------------
(* Human transitions, links and handoffs                                   *)

LEMMA CaseOpKnows ==
  ASSUME IInv, NEW c \in Clients, tx[c].op \in CaseOps
  PROVE  /\ tx[c].case \in DOMAIN cases /\ tx[c].at \in 0 .. now
         /\ cases[tx[c].case].detected <= tx[c].at
         /\ tx[c].op = "snooze" => tx[c].more \in Nat
         /\ tx[c].op = "link" => tx[c].more \in DOMAIN actions
  BY DEF IInv, Knows, Idle, CaseOps

\* A write of one case by a request about it.
LEMMA WriteKeeps ==
  ASSUME IInv, NEW c \in Clients, tx[c].op \in CaseOps, NEW r \in CaseRows, Write(c, r),
         r.opp = cases[tx[c].case].opp, r.facts = cases[tx[c].case].facts,
         r.detected = cases[tx[c].case].detected, r.pred = cases[tx[c].case].pred,
         cases[tx[c].case].state \in ActiveCases, r.state # "SUPERSEDED",
         r.detected <= r.updated
  PROVE  IInv'
<1>1. PICK id : id = tx[c].case
  OBVIOUS
<1>2. id \in DOMAIN cases
  BY <1>1, CaseOpKnows
<1>3. /\ cases' = [cases EXCEPT ![id] = r] /\ tx' = [tx EXCEPT ![c] = Idle]
      /\ UNCHANGED <<now, evidence, actions, milestones, setting>>
  BY <1>1 DEF Write, Answer
<1>4. DOMAIN cases' = DOMAIN cases
  BY <1>2, <1>3 DEF IInv, Typed
<1>5. CaseRows' = CaseRows /\ ActionRows' = ActionRows
  BY <1>3, <1>4 DEF CaseRows, ActionRows
<1>6. /\ \E k \in 0 .. MaxActions : DOMAIN actions' = 1 .. k
      /\ actions' \in [DOMAIN actions' -> ActionRows']
  BY <1>3, <1>5 DEF IInv, Typed
<1> QED
  BY <1>1, <1>2, <1>3, <1>5, <1>6, CaseWritten

LEMMA TransitionKeeps ==
  ASSUME IInv, NEW c \in Clients, Transition(c)
  PROVE  IInv'
<1>1. tx[c].op \in CaseOps
  BY DEF Transition, CaseOps
<1>2. PICK r, at, wake : r = cases[tx[c].case] /\ at = tx[c].at /\ wake = tx[c].more
  OBVIOUS
<1>3. /\ r \in CaseRows /\ at \in 0 .. now /\ r.detected <= at /\ now \in Nat
      /\ tx[c].op = "snooze" => wake \in Int
  BY <1>1, <1>2, CaseOpKnows, CaseRow, Times DEF IInv
<1>4. CASE Refuse(c, "TRANSITION_INVALID")
  BY <1>4, RefuseKeeps
<1>5. ASSUME NEW to \in {"SNOOZED", "OPEN", "DISMISSED"}, NEW b,
             r.state \in ActiveCases, Write(c, b),
             \/ b = [Audited(r, to, at) EXCEPT !.state = to]
             \/ \E t \in Int : b = [Audited(r, to, at) EXCEPT !.state = to, !.wake = t]
      PROVE  IInv'
  <2>1. PICK a : a = Audited(r, to, at)
    OBVIOUS
  <2>2. /\ a \in CaseRows /\ a.opp = r.opp /\ a.facts = r.facts /\ a.detected = r.detected
        /\ a.pred = r.pred /\ a.updated = at
    <3>1. to \in States \cup {"LINKED"}
      BY DEF States
    <3> QED
      BY <1>3, <2>1, <3>1, AuditedRow
  <2>3. \/ b = [a EXCEPT !.state = to]
        \/ \E t \in Int : b = [a EXCEPT !.state = to, !.wake = t]
    BY <1>5, <2>1
  <2>4. /\ b \in CaseRows /\ b.opp = r.opp /\ b.facts = r.facts /\ b.detected = r.detected
        /\ b.pred = r.pred /\ b.updated = at /\ b.state = to
    <3>1. to \in States
      BY DEF States
    <3>2. CASE b = [a EXCEPT !.state = to]
      BY <2>2, <3>1, <3>2 DEF CaseRows
    <3>3. ASSUME NEW t \in Int, b = [a EXCEPT !.state = to, !.wake = t]
          PROVE  /\ b \in CaseRows /\ b.opp = r.opp /\ b.facts = r.facts /\ b.detected = r.detected
                 /\ b.pred = r.pred /\ b.updated = at /\ b.state = to
      BY <2>2, <3>1, <3>3 DEF CaseRows
    <3> QED
      BY <2>3, <3>2, <3>3, Zenon
  <2>5. b.state # "SUPERSEDED" /\ b.detected <= b.updated
    BY <1>3, <2>4
  <2> QED
    BY <1>1, <1>2, <1>5, <2>4, <2>5, WriteKeeps
<1>6. CASE r.state = "OPEN" /\ tx[c].op = "snooze"
           /\ Write(c, [Audited(r, "SNOOZED", at) EXCEPT !.state = "SNOOZED", !.wake = wake])
  <2>1. r.state \in ActiveCases
    BY <1>6 DEF ActiveCases
  <2>2. PICK b : b = [Audited(r, "SNOOZED", at) EXCEPT !.state = "SNOOZED", !.wake = wake]
    OBVIOUS
  <2>3. Write(c, b) /\ wake \in Int
    BY <1>3, <1>6, <2>2
  <2> QED
    BY <1>5, <2>1, <2>2, <2>3
<1>7. CASE r.state = "SNOOZED"
           /\ Write(c, [Audited(r, "OPEN", at) EXCEPT !.state = "OPEN", !.wake = NoTime])
  <2>1. r.state \in ActiveCases /\ NoTime \in Int
    BY <1>7 DEF ActiveCases, NoTime
  <2>2. PICK b : b = [Audited(r, "OPEN", at) EXCEPT !.state = "OPEN", !.wake = NoTime]
    OBVIOUS
  <2>3. Write(c, b)
    BY <1>7, <2>2
  <2> QED
    BY <1>5, <2>1, <2>2, <2>3
<1>8. CASE r.state \in ActiveCases
           /\ Write(c, [Audited(r, "DISMISSED", at) EXCEPT !.state = "DISMISSED"])
  <2>1. PICK b : b = [Audited(r, "DISMISSED", at) EXCEPT !.state = "DISMISSED"]
    OBVIOUS
  <2>2. Write(c, b)
    BY <1>8, <2>1
  <2> QED
    BY <1>5, <1>8, <2>1, <2>2
<1>9. \/ Refuse(c, "TRANSITION_INVALID")
      \/ /\ r.state = "OPEN" /\ tx[c].op = "snooze"
         /\ Write(c, [Audited(r, "SNOOZED", at) EXCEPT !.state = "SNOOZED", !.wake = wake])
      \/ /\ r.state = "SNOOZED"
         /\ Write(c, [Audited(r, "OPEN", at) EXCEPT !.state = "OPEN", !.wake = NoTime])
      \/ /\ r.state \in ActiveCases
         /\ Write(c, [Audited(r, "DISMISSED", at) EXCEPT !.state = "DISMISSED"])
  <2>1. tx[c].op = "snooze" => tx[c].op # "resume" /\ tx[c].op # "dismiss"
    OBVIOUS
  <2>2. tx[c].op = "resume" => tx[c].op # "snooze" /\ tx[c].op # "dismiss"
    OBVIOUS
  <2>3. tx[c].op = "dismiss" => tx[c].op # "snooze" /\ tx[c].op # "resume"
    OBVIOUS
  <2>4. Refuse(c, "TRANSITION_INVALID") \/ MayTransition(r, tx[c].op, at, wake)
    BY <1>2 DEF Transition
  <2>5. CASE ~Refuse(c, "TRANSITION_INVALID")
    <3>1. /\ MayTransition(r, tx[c].op, at, wake)
          /\ \/ /\ tx[c].op = "snooze"
                /\ Write(c, [Audited(r, "SNOOZED", at) EXCEPT !.state = "SNOOZED", !.wake = wake])
             \/ /\ tx[c].op = "resume"
                /\ Write(c, [Audited(r, "OPEN", at) EXCEPT !.state = "OPEN", !.wake = NoTime])
             \/ /\ tx[c].op = "dismiss"
                /\ Write(c, [Audited(r, "DISMISSED", at) EXCEPT !.state = "DISMISSED"])
      BY <1>2, <2>4, <2>5 DEF Transition
    <3> QED
      BY <2>1, <2>2, <2>3, <3>1, Zenon DEF MayTransition
  <2> QED
    BY <2>5
<1> QED
  BY <1>4, <1>6, <1>7, <1>8, <1>9

LEMMA LinkKeeps ==
  ASSUME IInv, NEW c \in Clients, Link(c)
  PROVE  IInv'
<1>1. tx[c].op \in CaseOps /\ tx[c].op = "link"
  BY DEF Link, CaseOps
<1>2. PICK r, at, a : r = cases[tx[c].case] /\ at = tx[c].at /\ a = tx[c].more
  OBVIOUS
<1>3. /\ r \in CaseRows /\ at \in 0 .. now /\ r.detected <= at /\ now \in Nat
      /\ a \in DOMAIN actions /\ r.detected <= r.updated
  BY <1>1, <1>2, CaseOpKnows, CaseRow, Times DEF IInv, CasesInv, Dated
<1>4. CASE \E code : Refuse(c, code)
  BY <1>4, RefuseKeeps
<1>5. ASSUME NEW b \in CaseRows, r.state \in ActiveCases, Write(c, b), b.opp = r.opp,
             b.facts = r.facts, b.detected = r.detected, b.pred = r.pred, b.state = r.state,
             b.detected <= b.updated
      PROVE  IInv'
  BY <1>1, <1>2, <1>5, WriteKeeps DEF ActiveCases
<1>6. CASE r.state \in ActiveCases /\ Write(c, r)
  BY <1>3, <1>5, <1>6
<1>7. CASE r.state \in ActiveCases /\ Write(c, [Audited(r, "LINKED", at) EXCEPT !.action = a])
  <2>1. PICK b : b = Audited(r, "LINKED", at)
    OBVIOUS
  <2>2. /\ b \in CaseRows /\ b.opp = r.opp /\ b.facts = r.facts /\ b.detected = r.detected
        /\ b.pred = r.pred /\ b.updated = at /\ b.state = r.state
    BY <1>3, <2>1, AuditedRow
  <2>3. PICK d : d = [b EXCEPT !.action = a]
    OBVIOUS
  <2>4. /\ d \in CaseRows /\ d.opp = r.opp /\ d.facts = r.facts /\ d.detected = r.detected
        /\ d.pred = r.pred /\ d.updated = at /\ d.state = r.state
    BY <1>3, <2>2, <2>3 DEF CaseRows
  <2>5. Write(c, d)
    BY <1>7, <2>1, <2>3
  <2> QED
    BY <1>3, <1>5, <1>7, <2>4, <2>5
<1> QED
  BY <1>2, <1>4, <1>6, <1>7 DEF Link

LEMMA LinkCurrentKeeps ==
  ASSUME IInv, NEW c \in Clients, tx[c].op \in CaseOps,
         LinkCurrent(c, cases[tx[c].case]), cases[tx[c].case].state \in ActiveCases,
         UNCHANGED <<now, evidence, setting>>
  PROVE  IInv'
<1>1. PICK id, r : id = tx[c].case /\ r = cases[id]
  OBVIOUS
<1>2. id \in DOMAIN cases /\ r \in CaseRows /\ now \in Nat /\ r.detected <= now /\ r.opp \in DOMAIN evidence
  <2>1. id \in DOMAIN cases /\ r \in CaseRows /\ now \in Nat /\ r.detected \in 0 .. now
    BY <1>1, CaseOpKnows, CaseRow, Times DEF IInv
  <2> QED
    BY <2>1 DEF CaseRows
<1>3. PICK a \in Candidates(r.opp) :
        /\ a <= MaxActions /\ actions' = Materialized(r.opp, a)
        /\ cases' = [cases EXCEPT ![id] = [Audited(r, "LINKED", now) EXCEPT !.action = a]]
        /\ milestones' = milestones \cup LinkMilestones(id, r.opp)
        /\ tx' = [tx EXCEPT ![c] = Idle]
  BY <1>1 DEF LinkCurrent, HandoffAnswer, Answer
<1>4. PICK b : b = Audited(r, "LINKED", now)
  OBVIOUS
<1>5. /\ b \in CaseRows /\ b.opp = r.opp /\ b.facts = r.facts /\ b.detected = r.detected
      /\ b.pred = r.pred /\ b.updated = now /\ b.state = r.state
  BY <1>2, <1>4, AuditedRow
<1>6. PICK d : d = [b EXCEPT !.action = a]
  OBVIOUS
<1>7. cases' = [cases EXCEPT ![id] = d]
  BY <1>3, <1>4, <1>6
<1>8. d.opp = r.opp /\ d.facts = r.facts /\ d.detected = r.detected
      /\ d.pred = r.pred /\ d.updated = now /\ d.state = r.state
  BY <1>5, <1>6 DEF CaseRows
<1>9. DOMAIN cases' = DOMAIN cases /\ \A i \in DOMAIN cases : cases'[i].detected = cases[i].detected
  BY <1>1, <1>2, <1>7, <1>8
<1>10. /\ Grew /\ a \in DOMAIN actions'
       /\ \E k \in 0 .. MaxActions : DOMAIN actions' = 1 .. k
       /\ actions' \in [DOMAIN actions' -> ActionRows']
  BY <1>2, <1>3, <1>9, MaterializedRows DEF IInv
<1>11. d \in CaseRows'
  <2>1. b \in CaseRows'
    BY <1>5, <1>10, RowsGrow DEF IInv
  <2> QED
    BY <1>6, <1>10, <2>1 DEF CaseRows
<1>12. milestones' \subseteq milestones \cup {id} /\ DOMAIN actions \subseteq DOMAIN actions'
  BY <1>3, <1>10 DEF LinkMilestones, Grew
<1> QED
  BY <1>1, <1>2, <1>3, <1>7, <1>8, <1>10, <1>11, <1>12, CaseWritten DEF ActiveCases

LEMMA HandoffKeeps ==
  ASSUME IInv, NEW c \in Clients, Handoff(c)
  PROVE  IInv'
<1> DEFINE r == cases[tx[c].case]
<1>1. tx[c].op \in CaseOps /\ tx[c].case \in DOMAIN cases
  BY CaseOpKnows DEF Handoff, CaseOps
<1>2. CASE \E code : Refuse(c, code)
  BY <1>2, RefuseKeeps
<1>3. CASE /\ milestones' = milestones \cup LinkMilestones(tx[c].case, r.opp)
           /\ UNCHANGED <<cases, actions, now, evidence, setting>>
           /\ tx' = [tx EXCEPT ![c] = Idle]
  <2>1. Grew
    BY <1>3, Times DEF Grew, IInv
  <2>2. PICK q : q = Idle
    OBVIOUS
  <2>3. Knows(q)'
    BY <2>2 DEF Knows
  <2>4. tx' = [d \in Clients |-> tx'[d]] /\ \A d \in Clients : Knows(tx[d])'
    BY <1>3, <2>1, <2>2, <2>3, OneGoesOn DEF IInv
  <2>5. CasesInv'
    BY <1>3 DEF IInv, CasesInv, OneActiveCase, Dated, Superseded, InSeries, Followed,
                Later, IsALine, Active, Series
  <2>6. milestones' \subseteq {ScanCompleted} \cup DOMAIN cases
    BY <1>1, <1>3 DEF IInv, Typed, LinkMilestones
  <2>7. Typed'
    BY <1>3, <2>4, <2>6 DEF IInv, Typed, CaseRows, ActionRows
  <2> QED
    BY <2>4, <2>5, <2>7 DEF IInv
<1>4. CASE r.state \in ActiveCases /\ LinkCurrent(c, r) /\ UNCHANGED <<now, evidence, setting>>
  BY <1>1, <1>4, LinkCurrentKeeps
<1>5. \/ \E code : Refuse(c, code)
      \/ /\ r.state \in ActiveCases /\ ReplayHandoff(c, r) /\ UNCHANGED <<now, evidence, setting>>
      \/ r.state \in ActiveCases /\ LinkCurrent(c, r) /\ UNCHANGED <<now, evidence, setting>>
  BY Zenon DEF Handoff
<1>6. CASE ReplayHandoff(c, r) /\ UNCHANGED <<now, evidence, setting>>
  BY <1>2, <1>3, <1>6 DEF ReplayHandoff, HandoffAnswer, Answer
<1> QED
  BY <1>2, <1>4, <1>5, <1>6

-----------------------------------------------------------------------------
(* Everything else that happens                                            *)

\* Steps of which no request is part.
LEMMA OutsideKeeps ==
  ASSUME IInv, Grew, UNCHANGED <<cases, milestones, setting, tx>>,
         now' \in 0 .. setting.until,
         evidence' \in [DOMAIN evidence' -> Evidence(Nat)],
         \E k \in 0 .. MaxActions : DOMAIN actions' = 1 .. k,
         actions' \in [DOMAIN actions' -> ActionRows']
  PROVE  IInv'
<1>1. tx' = [d \in Clients |-> tx'[d]] /\ \A d \in Clients : Knows(tx[d])'
  BY NobodyGoesOn DEF IInv
<1>2. CasesInv'
  BY DEF IInv, CasesInv, OneActiveCase, Dated, Superseded, InSeries, Followed,
         Later, IsALine, Active, Series
<1>3. cases' \in [DOMAIN cases' -> CaseRows']
  <2>1. CaseRows \subseteq CaseRows'
    BY RowsGrow DEF IInv
  <2> QED
    BY <2>1 DEF IInv, Typed
<1>4. Typed'
  BY <1>1, <1>3 DEF IInv, Typed
<1> QED
  BY <1>1, <1>2, <1>4 DEF IInv

\* One opportunity changes, and possibly the actions.
LEMMA EvidenceKeeps ==
  ASSUME IInv, NEW o \in DOMAIN evidence, NEW e \in Evidence(Nat), e.born = evidence[o].born,
         evidence' = [evidence EXCEPT ![o] = e],
         UNCHANGED <<now, cases, milestones, setting, tx>>, DOMAIN actions' = DOMAIN actions,
         actions' \in [DOMAIN actions -> ActionRows]
  PROVE  IInv'
<1>1. DOMAIN evidence' = DOMAIN evidence /\ evidence' \in [DOMAIN evidence -> Evidence(Nat)]
  BY DEF IInv, Typed
<1>2. ASSUME NEW p \in DOMAIN evidence PROVE evidence'[p].born = evidence[p].born
  BY <1>1
<1>3. Grew
  BY <1>1, <1>2, Times DEF Grew, IInv
<1>4. ActionRows' = ActionRows
  BY <1>1 DEF ActionRows
<1>5. (\E k \in 0 .. MaxActions : DOMAIN actions' = 1 .. k) /\ now' \in 0 .. setting.until
  BY DEF IInv, Typed
<1> QED
  BY <1>1, <1>3, <1>4, <1>5, OutsideKeeps

LEMMA EditTypes ==
  ASSUME now \in Nat, NEW x \in Evidence(Nat), NEW edit, NEW e \in Edited(x, edit)
  PROVE  e \in Evidence(Nat) /\ e.born = x.born
<1>1. CASE edit = "contact"
  BY <1>1 DEF Edited, Evidence
<1>2. CASE edit = "value"
  <2>1. PICK v \in Amounts : e = [x EXCEPT !.value = v, !.updated = now, !.act = now]
    BY <1>2 DEF Edited
  <2> QED
    BY <2>1, SettingAssumption DEF Evidence
<1>3. CASE edit = "stage"
  <2>1. PICK s \in {"active", "closed"} :
           e = [x EXCEPT !.stage = s, !.next = "set", !.updated = now, !.act = now]
    BY <1>3 DEF Edited
  <2> QED
    BY <2>1 DEF Evidence
<1>4. CASE edit = "task"
  BY <1>4 DEF Edited, Evidence
<1>5. CASE edit = "done"
  BY <1>5 DEF Edited, Evidence
<1>6. CASE edit = "history"
  <2>1. PICK t \in 0 .. now : e = [x EXCEPT !.task = "done", !.tasked = t]
    BY <1>6 DEF Edited
  <2>2. t \in Nat
    OBVIOUS
  <2> QED
    BY <2>1, <2>2 DEF Evidence
<1> QED
  BY <1>1, <1>2, <1>3, <1>4, <1>5, <1>6 DEF Edited

LEMMA EditCrmKeeps ==
  ASSUME IInv, NEW o \in DOMAIN evidence, EditCrm(o)
  PROVE  IInv'
<1>1. PICK edit : \E e \in Edited(evidence[o], edit) : evidence' = [evidence EXCEPT ![o] = e]
  BY DEF EditCrm
<1>2. PICK x : x = evidence[o]
  OBVIOUS
<1>3. PICK e \in Edited(x, edit) : evidence' = [evidence EXCEPT ![o] = e]
  BY <1>1, <1>2
<1>4. e \in Evidence(Nat) /\ e.born = x.born
  <2>1. x \in Evidence(Nat) /\ now \in Nat
    BY <1>2, Times DEF IInv, Typed
  <2> QED
    BY <2>1, EditTypes
<1>5. actions' \in [DOMAIN actions -> ActionRows] /\ DOMAIN actions' = DOMAIN actions
  BY DEF EditCrm, IInv, Typed
<1>6. UNCHANGED <<now, cases, milestones, setting, tx>>
  BY DEF EditCrm
<1> QED
  BY <1>2, <1>3, <1>4, <1>5, <1>6, EvidenceKeeps

LEMMA CreateKeeps ==
  ASSUME IInv, Create
  PROVE  IInv'
<1>1. PICK o \in DOMAIN setting.new \ DOMAIN evidence :
         evidence' = [p \in DOMAIN evidence \cup {o} |->
            IF p = o THEN [setting.new[o] EXCEPT !.born = now] ELSE evidence[p]]
  BY DEF Create
<1>2. PICK e : e = [setting.new[o] EXCEPT !.born = now]
  OBVIOUS
<1>3. e \in Evidence(Nat) /\ e.born = now
  <2>1. setting.new[o] \in Evidence(0 .. MaxNow) /\ now \in Nat
    BY <1>1, SettingAssumption, Times DEF IInv, Typed
  <2>2. \A t \in 0 .. MaxNow : t \in Nat
    BY BoundAssumption
  <2> QED
    BY <1>2, <2>1, <2>2 DEF Evidence
<1>4. DOMAIN evidence' = DOMAIN evidence \cup {o}
  BY <1>1
<1>5. evidence' \in [DOMAIN evidence' -> Evidence(Nat)]
  BY <1>1, <1>2, <1>3 DEF IInv, Typed
<1>6. Grew
  BY <1>1, <1>2, <1>3, Times DEF Create, Grew, IInv
<1>7. actions' \in [DOMAIN actions' -> ActionRows']
  <2>1. ActionRows \subseteq ActionRows'
    BY <1>6, RowsGrow DEF IInv
  <2> QED
    BY <2>1 DEF Create, IInv, Typed
<1>8. /\ UNCHANGED <<cases, milestones, setting, tx>> /\ now' \in 0 .. setting.until
      /\ \E k \in 0 .. MaxActions : DOMAIN actions' = 1 .. k
  BY DEF Create, IInv, Typed
<1> QED
  BY <1>5, <1>6, <1>7, <1>8, OutsideKeeps

LEMMA MaterializeKeeps ==
  ASSUME IInv, NEW o \in DOMAIN evidence, Materialize(o)
  PROVE  IInv'
<1>1. PICK a \in Candidates(o) : a <= MaxActions /\ actions' = Materialized(o, a)
  BY DEF Materialize
<1>2. UNCHANGED <<now, evidence, cases, milestones, setting, tx>>
  BY DEF Materialize
<1>3. /\ Grew /\ \E k \in 0 .. MaxActions : DOMAIN actions' = 1 .. k
      /\ actions' \in [DOMAIN actions' -> ActionRows']
  BY <1>1, <1>2, MaterializedRows DEF IInv
<1>4. now' \in 0 .. setting.until /\ evidence' \in [DOMAIN evidence' -> Evidence(Nat)]
  BY <1>2 DEF IInv, Typed
<1> QED
  BY <1>2, <1>3, <1>4, OutsideKeeps

LEMMA FinishActionKeeps ==
  ASSUME IInv, NEW a \in DOMAIN actions, FinishAction(a)
  PROVE  IInv'
<1>1. PICK o, x : o = actions[a].opp /\ x = evidence[o]
  OBVIOUS
<1>2. o \in DOMAIN evidence /\ x \in Evidence(Nat) /\ now \in Nat
  <2>1. actions[a] \in ActionRows
    BY DEF IInv, Typed
  <2> QED
    BY <1>1, <2>1, Times DEF ActionRows, IInv, Typed
<1>3. DOMAIN actions' = DOMAIN actions /\ actions' \in [DOMAIN actions -> ActionRows]
  <2>1. actions \in [DOMAIN actions -> ActionRows] /\ actions' = [actions EXCEPT ![a].status = "DONE"]
    BY DEF FinishAction, IInv, Typed
  <2>2. [actions[a] EXCEPT !.status = "DONE"] \in ActionRows
    BY <2>1 DEF ActionRows
  <2> QED
    BY <2>1, <2>2
<1>4. PICK e : /\ e \in {x, [x EXCEPT !.next = "set", !.task = "active", !.updated = now,
                                      !.act = now, !.tasked = now]}
               /\ evidence' = [evidence EXCEPT ![o] = e]
  <2>1. evidence = [evidence EXCEPT ![o] = x]
    BY <1>1, <1>2 DEF IInv, Typed
  <2> QED
    BY <1>1, <2>1 DEF FinishAction
<1>5. e \in Evidence(Nat) /\ e.born = x.born
  BY <1>2, <1>4 DEF Evidence
<1>6. UNCHANGED <<now, cases, milestones, setting, tx>>
  BY DEF FinishAction
<1> QED
  BY <1>1, <1>2, <1>3, <1>4, <1>5, <1>6, EvidenceKeeps

LEMMA TickKeeps ==
  ASSUME IInv, Tick
  PROVE  IInv'
<1>1. now \in Nat /\ now' = now + 1 /\ now < setting.until /\ setting.until \in Nat
  BY Times, BoundAssumption DEF Tick, IInv
<1>2. UNCHANGED <<evidence, cases, actions, milestones, setting, tx>>
  BY DEF Tick
<1>3. Grew /\ now' \in 0 .. setting.until
  BY <1>1, <1>2 DEF Grew
<1>4. actions' \in [DOMAIN actions' -> ActionRows']
  <2>1. ActionRows \subseteq ActionRows'
    BY <1>3, RowsGrow DEF IInv
  <2> QED
    BY <1>2, <2>1 DEF IInv, Typed
<1>5. /\ evidence' \in [DOMAIN evidence' -> Evidence(Nat)]
      /\ \E k \in 0 .. MaxActions : DOMAIN actions' = 1 .. k
  BY <1>2 DEF IInv, Typed
<1> QED
  BY <1>2, <1>3, <1>4, <1>5, OutsideKeeps

-----------------------------------------------------------------------------
(* The invariant                                                           *)

LEMMA Initially ==
  ASSUME Init
  PROVE  IInv
<1>1. /\ now = 0 /\ cases = <<>> /\ actions = <<>> /\ milestones = {}
      /\ setting \in Settings /\ evidence = setting.evidence /\ tx = [c \in Clients |-> Idle]
  BY DEF Init
<1>2. DOMAIN cases = {} /\ DOMAIN actions = {} /\ DOMAIN actions = 1 .. 0 /\ 0 \in 0 .. MaxActions
  BY <1>1, BoundAssumption
<1>3. CasesInv
  BY <1>2 DEF CasesInv, OneActiveCase, Dated, Superseded, InSeries, Later, IsALine, Active, Series
<1>4. \A c \in Clients : Knows(tx[c])
  <2> SUFFICES ASSUME NEW c \in Clients PROVE Knows(tx[c])
    OBVIOUS
  <2>1. tx[c] = Idle
    BY <1>1
  <2> QED
    BY <2>1 DEF Knows
<1>5. now \in 0 .. setting.until
  BY <1>1, SettingAssumption
<1>6. evidence \in [DOMAIN evidence -> Evidence(Nat)]
  <2>1. evidence \in [DOMAIN evidence -> Evidence(0 .. MaxNow)]
    BY <1>1, SettingAssumption
  <2>2. \A t \in 0 .. MaxNow : t \in Nat
    BY BoundAssumption
  <2>3. Evidence(0 .. MaxNow) \subseteq Evidence(Nat)
    <3>1. ASSUME NEW e \in Evidence(0 .. MaxNow) PROVE e \in Evidence(Nat)
      BY <2>2, <3>1 DEF Evidence
    <3> QED
      BY <3>1
  <2> QED
    BY <2>1, <2>3
<1>7. tx = [c \in Clients |-> tx[c]]
  BY <1>1
<1>8. /\ cases \in [DOMAIN cases -> CaseRows] /\ actions \in [DOMAIN actions -> ActionRows]
      /\ DOMAIN cases \subseteq 1 .. MaxCases
      /\ \E k \in 0 .. MaxActions : DOMAIN actions = 1 .. k
  BY <1>1, <1>2
<1> QED
  BY <1>1, <1>3, <1>4, <1>5, <1>6, <1>7, <1>8 DEF IInv, Typed

LEMMA Inductive ==
  ASSUME IInv, [Next]_vars
  PROVE  IInv'
<1>1. ASSUME NEW c \in Clients, Abort(c) PROVE IInv'
  BY <1>1, RequestEnds DEF Abort
<1>2. ASSUME NEW c \in Clients, AnswerEligibility(c) \/ AnswerList(c) PROVE IInv'
  BY <1>2, RequestEnds DEF AnswerEligibility, AnswerList, Answer
<1>3. ASSUME NEW c \in Clients, AnswerQueue(c) PROVE IInv'
  <2>1. (\E code : Refuse(c, code)) \/ (tx' = [tx EXCEPT ![c] = Idle] /\ UNCHANGED Store)
    BY <1>3 DEF AnswerQueue, Answer
  <2> QED
    BY <2>1, RefuseKeeps, RequestEnds
<1>4. CASE UNCHANGED vars
  <2>1. UNCHANGED Store /\ tx' = tx
    BY <1>4 DEF vars, Store
  <2>2. Grew /\ CasesInv' /\ (tx' = [d \in Clients |-> tx'[d]] => Typed')
    BY <2>1, StoreStays
  <2>3. tx' = [d \in Clients |-> tx'[d]] /\ \A d \in Clients : Knows(tx[d])'
    BY <2>1, <2>2, NobodyGoesOn DEF IInv
  <2> QED
    BY <2>2, <2>3 DEF IInv
<1>5. ASSUME NEW c \in Clients,
             \/ Begin(c) \/ Abort(c)
             \/ Detect(c) \/ Enumerate(c) \/ Scan(c)
             \/ ReadActivities(c) \/ ReadTasks(c) \/ AnswerEligibility(c) \/ AnswerQueue(c) \/ AnswerList(c)
             \/ Transition(c) \/ Link(c) \/ Handoff(c)
      PROVE  IInv'
  BY <1>1, <1>2, <1>3, <1>5, BeginKeeps, DetectKeeps, EnumerateKeeps, ScanKeeps,
     ChildrenKeep, TransitionKeeps, LinkKeeps, HandoffKeeps
<1> QED
  BY <1>4, <1>5, EditCrmKeeps, MaterializeKeeps, FinishActionKeeps, CreateKeeps, TickKeeps DEF Next

\* The invariant of every state of PostgresLeakCases.
THEOREM Invariance == Spec => []IInv
<1>1. Init => IInv
  BY Initially
<1>2. IInv /\ [Next]_vars => IInv'
  BY Inductive
<1> QED
  BY <1>1, <1>2, PTL DEF Spec

\* The rows of revenue_leak_cases and pilot_evidence_events refer to rows that
\* exist, and no time that is stored lies in the future.
THEOREM TypeCorrect == Spec => []TypeOK
<1>1. IInv => TypeOK
  <2> SUFFICES ASSUME IInv PROVE TypeOK
    OBVIOUS
  <2>1. now \in 0 .. MaxNow
    BY Times, BoundAssumption DEF IInv
  <2>2. ASSUME NEW id \in DOMAIN cases
        PROVE  /\ cases[id].detected \in 0 .. now
               /\ cases[id].action \in {0} \cup DOMAIN actions
               /\ {cases[id].pred, cases[id].succ} \subseteq {0} \cup DOMAIN cases
    <3>1. cases[id] \in CaseRows
      BY DEF IInv, Typed
    <3> QED
      BY <3>1 DEF CaseRows
  <2>3. milestones \subseteq {ScanCompleted} \cup DOMAIN cases
    BY DEF IInv, Typed
  <2> QED
    BY <2>1, <2>2, <2>3 DEF TypeOK
<1> QED
  BY <1>1, Invariance, PTL

\* The cases of an opportunity are one line of evidence (reconcileBatch), as
\* long as none was detected earlier than the one it follows.
THEOREM LineOfCases == Spec => []SeriesIsALine
<1>1. IInv => SeriesIsALine
  <2> SUFFICES ASSUME IInv, NEW o \in DOMAIN evidence, Later(o) PROVE IsALine(o)
    BY DEF SeriesIsALine, Later, IsALine
  <2> QED
    BY DEF IInv, CasesInv
<1> QED
  BY <1>1, Invariance, PTL

-----------------------------------------------------------------------------
(* The answers                                                             *)

\* Which request gave the answer of a step.
LEMMA Replies ==
  ASSUME Next
  PROVE  \/ reply'.op = "none"
         \/ reply'.op = "refused" /\ reply'.code \notin {"INTEGRITY", "FAILED"}
         \/ \E c \in Clients : Detect(c) /\ reply'.op \in {"detect", "refused"}
         \/ \E c \in Clients : Scan(c) /\ reply'.op \in {"scan", "refused"}
         \/ \E c \in Clients : AnswerEligibility(c) /\ reply'.op = "eligibility"
         \/ \E c \in Clients : AnswerQueue(c) /\ reply'.op \in {"queue", "refused"}
         \/ \E c \in Clients : AnswerList(c) /\ reply'.op = "list"
         \/ \E c \in Clients : (Transition(c) \/ Link(c)) /\ reply'.op = "mutation"
         \/ \E c \in Clients : Handoff(c) /\ reply'.op = "handoff"
<1>1. CASE reply' = NoReply
  BY <1>1 DEF NoReply
<1>2. ASSUME NEW c \in Clients, NEW code, Refuse(c, code)
      PROVE  reply'.op = "refused" /\ reply'.code = code
  BY <1>2 DEF Refuse, Answer
<1>3. ASSUME NEW c \in Clients, NEW r, Write(c, r) PROVE reply'.op = "mutation"
  BY <1>3 DEF Write, Answer
<1>4. ASSUME NEW c \in Clients, Transition(c)
      PROVE  reply'.op = "mutation" \/ (reply'.op = "refused" /\ reply'.code \notin {"INTEGRITY", "FAILED"})
  <2>1. CASE Refuse(c, "TRANSITION_INVALID")
    BY <1>2, <2>1
  <2>2. CASE \E r : Write(c, r)
    BY <1>3, <2>2
  <2> QED
    BY <1>4, <2>1, <2>2 DEF Transition
<1>5. ASSUME NEW c \in Clients, Link(c)
      PROVE  reply'.op = "mutation" \/ (reply'.op = "refused" /\ reply'.code \notin {"INTEGRITY", "FAILED"})
  <2>1. CASE Refuse(c, "TRANSITION_INVALID") \/ Refuse(c, "LINK_CONFLICT") \/ Refuse(c, "UNAVAILABLE")
    BY <1>2, <2>1
  <2>2. CASE \E r : Write(c, r)
    BY <1>3, <2>2
  <2> QED
    BY <1>5, <2>1, <2>2 DEF Link
<1>6. ASSUME NEW c \in Clients, Handoff(c)
      PROVE  \/ reply'.op = "handoff"
             \/ reply'.op = "refused" /\ reply'.code \notin {"INTEGRITY", "FAILED"}
  <2>1. CASE \/ Refuse(c, "TRANSITION_INVALID") \/ Refuse(c, "UNAVAILABLE")
             \/ Refuse(c, "STALE") \/ Refuse(c, "INCOMPATIBLE")
    BY <1>2, <2>1
  <2>2. CASE \E r, a, made, flags : HandoffAnswer(c, r, a, made, flags)
    BY <2>2 DEF HandoffAnswer, Answer
  <2> QED
    BY <1>6, <2>1, <2>2 DEF Handoff, ReplayHandoff, LinkCurrent
<1>7. ASSUME NEW c \in Clients, Detect(c) PROVE reply'.op \in {"detect", "refused"}
  <2>1. CASE Refuse(c, "FAILED")
    BY <1>2, <2>1
  <2>2. CASE \E o, at, case, created : Answer(c, DetectionAnswer(o, at, case, created))
    BY <2>2 DEF Answer, DetectionAnswer
  <2> QED
    BY <1>7, <2>1, <2>2 DEF Detect
<1>8. ASSUME NEW c \in Clients, Scan(c) PROVE reply'.op \in {"scan", "refused"}
  <2>1. CASE Refuse(c, "FAILED") \/ Refuse(c, "LIMIT")
    BY <1>2, <2>1
  <2>2. CASE \E scanned, fresh, at : Answer(c, ScanAnswer(scanned, fresh, at))
    BY <2>2 DEF Answer, ScanAnswer
  <2> QED
    BY <1>8, <2>1, <2>2 DEF Scan
<1>9. ASSUME NEW c \in Clients, AnswerQueue(c) PROVE reply'.op \in {"queue", "refused"}
  <2>1. CASE Refuse(c, "INTEGRITY") \/ Refuse(c, "LIMIT")
    BY <1>2, <2>1
  <2>2. CASE \E active, at : Answer(c, Queue(active, at))
    BY <2>2 DEF Answer, Queue
  <2> QED
    BY <1>9, <2>1, <2>2 DEF AnswerQueue
<1>10. ASSUME NEW c \in Clients PROVE /\ AnswerList(c) => reply'.op = "list"
                                      /\ AnswerEligibility(c) => reply'.op = "eligibility"
  <2>1. ASSUME AnswerList(c) PROVE reply'.op = "list"
    BY <2>1 DEF AnswerList, Answer
  <2>2. ASSUME AnswerEligibility(c) PROVE reply'.op = "eligibility"
    <3>1. CASE \E total, at : Answer(c, BlockedEligibility(total, at))
      BY <3>1 DEF Answer, BlockedEligibility
    <3>2. CASE \E seen, at : Answer(c, Eligibility(seen, at))
      BY <3>2 DEF Answer, Eligibility
    <3> QED
      BY <2>2, <3>1, <3>2 DEF AnswerEligibility
  <2> QED
    BY <2>1, <2>2
<1>11. ASSUME NEW c \in Clients, Begin(c) \/ Abort(c) \/ Enumerate(c) \/ ReadActivities(c) \/ ReadTasks(c)
       PROVE  reply' = NoReply
  BY <1>11 DEF Begin, Abort, Enumerate, ReadActivities, ReadTasks
<1>12. ASSUME \/ \E o \in DOMAIN evidence : EditCrm(o) \/ Materialize(o)
              \/ \E a \in DOMAIN actions : FinishAction(a)
              \/ Create \/ Tick
       PROVE  reply' = NoReply
  BY <1>12 DEF EditCrm, Materialize, FinishAction, Create, Tick
<1> QED
  BY <1>1, <1>4, <1>5, <1>6, <1>7, <1>8, <1>9, <1>10, <1>11, <1>12 DEF Next

LEMMA OutcomeLeak ==
  ASSUME NEW e, NEW at
  PROVE  Evaluation(e, at).outcome = "LEAK" <=> IsLeak(e, at)
<1>1. PICK r : r = Reason(e, at)
  OBVIOUS
<1>2. OutcomeOf(r) = "LEAK" <=> r = "STALE_WITHOUT_NEXT_ACTION"
  BY DEF OutcomeOf
<1>3. Evaluation(e, at).outcome = OutcomeOf(r)
  BY <1>1 DEF Evaluation
<1> QED
  BY <1>1, <1>2, <1>3 DEF IsLeak

\* What a scan that is answered has written and says of each opportunity.
LEMMA ScanWrites ==
  ASSUME NEW c \in Clients, Scan(c), reply'.op = "scan"
  PROVE  \E found : \E fresh \in Numberings(found) :
           /\ found = [o \in {p \in Scanned(c) : IsLeak(evidence[p], tx[c].at)} |-> Facts(evidence[o])]
           /\ cases' = Reconciled(found, fresh, tx[c].at)
           /\ reply' = ScanAnswer(Scanned(c), fresh, tx[c].at)
<1> DEFINE leaks == [o \in {p \in Scanned(c) : IsLeak(evidence[p], tx[c].at)} |-> Facts(evidence[o])]
<1>1. \A code : ~Refuse(c, code)
  BY DEF Refuse, Answer
<1>2. \E fresh \in Numberings(leaks) :
           /\ cases' = Reconciled(leaks, fresh, tx[c].at)
           /\ reply' = ScanAnswer(Scanned(c), fresh, tx[c].at)
  BY <1>1, Zenon DEF Scan, Answer
<1> HIDE DEF leaks
<1> QED
  <2> SUFFICES \E found : /\ found = leaks
                          /\ \E fresh \in Numberings(found) :
                               /\ cases' = Reconciled(found, fresh, tx[c].at)
                               /\ reply' = ScanAnswer(Scanned(c), fresh, tx[c].at)
    BY DEF leaks
  <2> WITNESS leaks
  <2> QED
    BY <1>2

LEMMA ScanItems ==
  ASSUME NEW scanned, NEW fresh, NEW at
  PROVE  /\ ScanAnswer(scanned, fresh, at).at = at
         /\ DOMAIN ScanAnswer(scanned, fresh, at).results = scanned
         /\ \A o \in scanned :
              /\ ScanAnswer(scanned, fresh, at).results[o].outcome =
                    Evaluation(evidence[o], at).outcome
              /\ Evaluation(evidence[o], at).outcome = "LEAK" =>
                   ScanAnswer(scanned, fresh, at).results[o].case =
                      IF o \in DOMAIN fresh THEN fresh[o]
                      ELSE The(ReplayedCase(o, Facts(evidence[o])))
<1>1. PICK results, outcomes, dispositions :
        /\ results = [o \in scanned |->
             [outcome |-> Evaluation(evidence[o], at).outcome,
              reason |-> Evaluation(evidence[o], at).reason,
              disposition |-> IF Evaluation(evidence[o], at).outcome # "LEAK" THEN "READ_ONLY"
                              ELSE IF o \notin DOMAIN fresh THEN "REPLAYED"
                              ELSE IF The(Active(o)) # 0 THEN "SUPERSEDED" ELSE "CREATED",
              case |-> IF Evaluation(evidence[o], at).outcome # "LEAK" THEN 0
                       ELSE IF o \in DOMAIN fresh THEN fresh[o]
                       ELSE The(ReplayedCase(o, Facts(evidence[o]))),
              old |-> IF o \in DOMAIN fresh THEN The(Active(o)) ELSE 0]]
        /\ ScanAnswer(scanned, fresh, at) =
             [op |-> "scan", at |-> at, total |-> Cardinality(scanned),
              results |-> results, outcomes |-> outcomes,
              detected |-> outcomes["LEAK"], created |-> dispositions["CREATED"],
              replayed |-> dispositions["REPLAYED"],
              superseded |-> dispositions["SUPERSEDED"]]
  BY Zenon DEF ScanAnswer
<1>2. /\ ScanAnswer(scanned, fresh, at).at = at
      /\ ScanAnswer(scanned, fresh, at).results = results
  BY <1>1
<1> QED
  BY <1>1, <1>2

\* A scan has an item for every opportunity that was there when it read its
\* clock, and the case of a leak has exactly the evidence of its COMMIT
\* (scanWithRepositories).
THEOREM WholeScan == Spec => ScanIsWhole
<1> DEFINE Whole == reply'.op = "scan" =>
          \A o \in DOMAIN evidence : evidence[o].born < reply'.at =>
            /\ o \in DOMAIN reply'.results
            /\ LET item == reply'.results[o]
               IN  /\ item.outcome = "LEAK" <=> IsLeak(evidence[o], reply'.at)
                   /\ item.outcome = "LEAK" =>
                        /\ cases'[item.case].opp = o
                        /\ cases'[item.case].facts = Facts(evidence[o])
<1>1. ASSUME IInv, NEW c \in Clients, Scan(c), reply'.op = "scan" PROVE Whole
  <2>1. PICK at, scanned : at = tx[c].at /\ scanned = Scanned(c)
    OBVIOUS
  <2>2. PICK found : \E fresh \in Numberings(found) :
           /\ found = [o \in {p \in scanned : IsLeak(evidence[p], at)} |-> Facts(evidence[o])]
           /\ cases' = Reconciled(found, fresh, at)
           /\ reply' = ScanAnswer(scanned, fresh, at)
    BY <1>1, <2>1, ScanWrites
  <2>3. PICK fresh \in Numberings(found) :
           /\ found = [o \in {p \in scanned : IsLeak(evidence[p], at)} |-> Facts(evidence[o])]
           /\ cases' = Reconciled(found, fresh, at)
           /\ reply' = ScanAnswer(scanned, fresh, at)
    BY <2>2
  <2>4. \A o \in DOMAIN evidence : evidence[o].born < at => o \in scanned
    <3>1. tx[c] # Idle /\ tx[c].op = "scan" /\ tx[c].step = "enumerated"
      BY <1>1 DEF Scan, Idle
    <3> QED
      BY <1>1, <2>1, <3>1 DEF IInv, Knows, SawAll, Scanned
  <2>5. reply'.at = at /\ DOMAIN reply'.results = scanned
    BY <2>3, ScanItems
  <2>6. ASSUME NEW o \in scanned
        PROVE  /\ reply'.results[o].outcome = "LEAK" <=> IsLeak(evidence[o], at)
               /\ reply'.results[o].outcome = "LEAK" =>
                     reply'.results[o].case =
                        IF o \in DOMAIN fresh THEN fresh[o]
                        ELSE The(ReplayedCase(o, Facts(evidence[o])))
    <3>1. PICK answer : answer = ScanAnswer(scanned, fresh, at)
      OBVIOUS
    <3>2. /\ answer.results[o].outcome = Evaluation(evidence[o], at).outcome
          /\ Evaluation(evidence[o], at).outcome = "LEAK" =>
                   answer.results[o].case =
                      IF o \in DOMAIN fresh THEN fresh[o]
                      ELSE The(ReplayedCase(o, Facts(evidence[o])))
      BY <3>1, ScanItems
    <3>3. Evaluation(evidence[o], at).outcome = "LEAK" <=> IsLeak(evidence[o], at)
      BY OutcomeLeak, Zenon
    <3> QED
      BY <2>3, <3>1, <3>2, <3>3, Zenon
  <2>7. Written(cases', found, fresh, at)
    BY <2>3, ReconciledRows
  <2>8. ASSUME NEW o \in scanned, IsLeak(evidence[o], at)
        PROVE  LET id == IF o \in DOMAIN fresh THEN fresh[o]
                         ELSE The(ReplayedCase(o, Facts(evidence[o])))
               IN  cases'[id].opp = o /\ cases'[id].facts = Facts(evidence[o])
    <3>1. o \in DOMAIN found /\ found[o] = Facts(evidence[o])
      BY <2>3, <2>8
    <3>2. CASE o \in DOMAIN fresh
      BY <1>1, <2>7, <3>1, <3>2, WrittenFields DEF IInv
    <3>3. CASE o \notin DOMAIN fresh
      <4>1. ReplayedCase(o, found[o]) # {}
        BY <2>3, <3>1, <3>3 DEF Numberings
      <4>2. PICK id : id = The(ReplayedCase(o, found[o])) /\ id \in ReplayedCase(o, found[o])
        BY <4>1 DEF The
      <4>3. id \in DOMAIN cases /\ cases[id].opp = o /\ cases[id].facts = found[o]
        BY <4>2 DEF ReplayedCase, Predecessor, Active, Newest, Series
      <4>4. cases'[id].opp = o /\ cases'[id].facts = found[o]
        BY <1>1, <2>7, <4>3, WrittenFields DEF IInv
      <4> QED
        BY <3>1, <3>3, <4>2, <4>4
    <3> QED
      BY <3>2, <3>3
  <2> QED
    BY <2>4, <2>5, <2>6, <2>8
<1>2. IInv /\ [Next]_vars => [Whole]_vars
  <2> SUFFICES ASSUME IInv, Next, reply'.op = "scan" PROVE Whole
    BY DEF Whole
  <2>1. \E c \in Clients : Scan(c)
    BY Replies
  <2> QED
    BY <1>1, <2>1
<1> QED
  BY <1>2, Invariance, PTL DEF Spec, ScanIsWhole

\* A handoff links only a current case to the one open recommendation of the
\* same evidence, with its milestone (handoffWithRepositories).
THEOREM CurrentHandoff == Spec => HandoffIsCurrent
<1> DEFINE Current == (reply'.op = "handoff" /\ reply'.linked) =>
          LET r == reply'.case
              a == actions'[reply'.action]
              e == evidence[r.opp]
          IN  /\ r.state \in ActiveCases /\ r.facts = Facts(e)
              /\ IsLeak(e, reply'.at) /\ a.basis = Basis(e) /\ a.status = "OPEN"
              /\ \A b \in DOMAIN actions' :
                   actions'[b].opp = r.opp /\ actions'[b].status = "OPEN"
                   => b = reply'.action
              /\ r.opp \in Imported =>
                   \E id \in milestones' \ {ScanCompleted} : cases'[id] = r
<1>1. ASSUME IInv, NEW c \in Clients, Handoff(c), reply'.op = "handoff", reply'.linked
      PROVE  Current
  <2>1. PICK id, r, at : id = tx[c].case /\ r = cases[id] /\ at = tx[c].at
    OBVIOUS
  <2>2. /\ id \in DOMAIN cases /\ id # 0 /\ r \in CaseRows /\ now \in Nat
        /\ r.opp \in DOMAIN evidence
    <3>1. tx[c].op \in CaseOps
      BY <1>1 DEF Handoff, CaseOps
    <3>2. id \in DOMAIN cases
      BY <1>1, <2>1, <3>1, CaseOpKnows
    <3> QED
      BY <1>1, <2>1, <3>2, CaseRow, Times DEF IInv, CaseRows
  <2>3. \A code : ~Refuse(c, code)
    BY <1>1 DEF Refuse, Answer
  <2>4. ~ReplayHandoff(c, r)
    <3> SUFFICES ASSUME ReplayHandoff(c, r) PROVE FALSE
      OBVIOUS
    <3>1. HandoffAnswer(c, r, r.action, actions[r.action],
                        [created |-> FALSE, linked |-> FALSE, reconciled |-> TRUE])
      BY <2>3, Zenon DEF ReplayHandoff
    <3>2. reply'.linked = [created |-> FALSE, linked |-> FALSE, reconciled |-> TRUE].linked
      BY <3>1 DEF HandoffAnswer, Answer
    <3> QED
      BY <1>1, <3>2
  <2>5. /\ r.state \in ActiveCases /\ CaseIsCurrent(r, at) /\ LinkCurrent(c, r)
        /\ UNCHANGED <<now, evidence>>
    BY <1>1, <2>1, <2>3, <2>4, Zenon DEF Handoff
  <2>6. PICK a \in Candidates(r.opp) :
          /\ a <= MaxActions /\ actions' = Materialized(r.opp, a)
          /\ cases' = [cases EXCEPT ![id] = [Audited(r, "LINKED", now) EXCEPT !.action = a]]
          /\ milestones' = milestones \cup LinkMilestones(id, r.opp)
          /\ reply'.case = [Audited(r, "LINKED", now) EXCEPT !.action = a]
          /\ reply'.at = at /\ reply'.action = a
    <3>1. PICK a \in Candidates(r.opp) :
            /\ a <= MaxActions /\ actions' = Materialized(r.opp, a)
            /\ cases' = [cases EXCEPT ![id] = [Audited(r, "LINKED", now) EXCEPT !.action = a]]
            /\ milestones' = milestones \cup LinkMilestones(id, r.opp)
            /\ \E made, flags :
                  HandoffAnswer(c, [Audited(r, "LINKED", now) EXCEPT !.action = a], a, made, flags)
      BY <2>1, <2>5, Zenon DEF LinkCurrent
    <3>2. PICK d : d = [Audited(r, "LINKED", now) EXCEPT !.action = a]
      OBVIOUS
    <3>3. PICK made, flags : HandoffAnswer(c, d, a, made, flags)
      BY <3>1, <3>2
    <3>4. reply'.case = d /\ reply'.at = at /\ reply'.action = a
      BY <2>1, <3>3 DEF HandoffAnswer, Answer
    <3> QED
      BY <3>1, <3>2, <3>4
  <2>7. PICK b : b = Audited(r, "LINKED", now)
    OBVIOUS
  <2>8. b \in CaseRows /\ b.opp = r.opp /\ b.facts = r.facts /\ b.detected = r.detected /\ b.state = r.state
    <3>1. now \in 0 .. now /\ "LINKED" \in States \cup {"LINKED"}
      BY <2>2
    <3> QED
      BY <2>2, <2>7, <3>1, AuditedRow
  <2>9. PICK d : d = [b EXCEPT !.action = a]
    OBVIOUS
  <2>10. d.opp = r.opp /\ d.facts = r.facts /\ d.detected = r.detected /\ d.state = r.state
    BY <2>8, <2>9 DEF CaseRows
  <2>11. cases' = [cases EXCEPT ![id] = d] /\ reply'.case = d
    BY <2>6, <2>7, <2>9
  <2>12. cases'[id] = d /\ \A i \in DOMAIN cases : cases'[i].detected = cases[i].detected
    BY <2>1, <2>2, <2>10, <2>11
  <2>13. DOMAIN cases \subseteq DOMAIN cases'
    BY <2>11
  <2>14. /\ actions'[a].basis = Basis(evidence[r.opp]) /\ actions'[a].status = "OPEN"
         /\ \A x \in DOMAIN actions' :
              actions'[x].opp = r.opp /\ actions'[x].status = "OPEN" => x = a
    BY <1>1, <2>2, <2>5, <2>6, <2>12, <2>13, MaterializedRows DEF IInv
  <2>15. IsLeak(evidence[r.opp], at) /\ Facts(evidence[r.opp]) = r.facts
    BY <2>5 DEF CaseIsCurrent
  <2>16. r.opp \in Imported => id \in milestones' \ {ScanCompleted}
    BY <2>2, <2>6 DEF LinkMilestones, ScanCompleted
  <2>17. reply'.at = at /\ reply'.action = a
    BY <2>6
  <2> QED
    BY <2>5, <2>10, <2>11, <2>12, <2>14, <2>15, <2>16, <2>17
<1>2. IInv /\ [Next]_vars => [Current]_vars
  <2> SUFFICES ASSUME IInv, Next, reply'.op = "handoff", reply'.linked PROVE Current
    BY DEF Current
  <2>1. \E c \in Clients : Handoff(c)
    BY Replies
  <2> QED
    BY <1>1, <2>1
<1> QED
  BY <1>2, Invariance, PTL DEF Spec, HandoffIsCurrent

\* If no case was detected later than the request, the table admits what the
\* request writes.
LEMMA AdmitsLatest ==
  ASSUME IInv, NEW found, NEW fresh \in Numberings(found), NEW at \in Nat,
         \A i \in DOMAIN cases : cases[i].detected <= at
  PROVE  Admissible(Reconciled(found, fresh, at))
<1>1. PICK after : after = Reconciled(found, fresh, at)
  OBVIOUS
<1>2. Written(after, found, fresh, at)
  BY <1>1, ReconciledRows
<1>3. ASSUME NEW i \in DOMAIN after
      PROVE  \/ i \in DOMAIN cases
             \/ i \notin DOMAIN cases /\ \E o \in DOMAIN fresh : i = fresh[o]
  BY <1>2 DEF Written
<1>4. \A o \in DOMAIN fresh : /\ after[fresh[o]].opp = o
                              /\ after[fresh[o]].detected = at /\ after[fresh[o]].updated = at
  BY <1>2, WrittenFields DEF IInv
<1>5. \A i \in DOMAIN cases :
        /\ after[i].opp = cases[i].opp /\ after[i].detected = cases[i].detected
        /\ IF i \in Active(cases[i].opp) /\ cases[i].opp \in DOMAIN fresh
           THEN after[i].state = "SUPERSEDED" /\ after[i].updated = at
           ELSE after[i] = cases[i]
  BY <1>2, WrittenFields DEF IInv
<1>6. ASSUME NEW i \in DOMAIN after PROVE after[i].updated >= after[i].detected
  <2>1. CASE i \in DOMAIN cases
    <3>1. cases[i].detected <= at /\ cases[i].detected <= cases[i].updated
          /\ cases[i].detected \in Nat /\ cases[i].updated \in Nat
      BY <2>1, CaseRow DEF IInv, CasesInv, Dated
    <3> QED
      BY <1>5, <2>1, <3>1
  <2>2. CASE i \notin DOMAIN cases
    BY <1>3, <1>4, <2>2
  <2> QED
    BY <2>1, <2>2
<1>7. ASSUME NEW i \in DOMAIN after, NEW j \in DOMAIN after, after[i].opp = after[j].opp,
             i # j, after[i].state \in ActiveCases, after[j].state \in ActiveCases
      PROVE  FALSE
  <2>1. ASSUME NEW k \in DOMAIN cases, after[k].state \in ActiveCases
        PROVE  k \in Active(cases[k].opp) /\ after[k].opp = cases[k].opp
               /\ cases[k].opp \notin DOMAIN fresh
    <3>1. "SUPERSEDED" \notin ActiveCases
      BY DEF ActiveCases
    <3>2. after[k] = cases[k]
      BY <1>5, <2>1, <3>1
    <3>3. k \in Active(cases[k].opp)
      BY <2>1, <3>2 DEF Active, Series
    <3> QED
      BY <1>5, <2>1, <3>1, <3>3
  <2>2. CASE i \in DOMAIN cases /\ j \in DOMAIN cases
    BY <1>7, <2>1, <2>2 DEF IInv, CasesInv, OneActiveCase
  <2>3. CASE i \notin DOMAIN cases /\ j \notin DOMAIN cases
    BY <1>3, <1>4, <1>7, <2>3
  <2>4. CASE i \in DOMAIN cases /\ j \notin DOMAIN cases
    BY <1>3, <1>4, <1>7, <2>1, <2>4
  <2>5. CASE i \notin DOMAIN cases /\ j \in DOMAIN cases
    BY <1>3, <1>4, <1>7, <2>1, <2>5
  <2> QED
    BY <2>2, <2>3, <2>4, <2>5
<1> QED
  BY <1>1, <1>6, <1>7 DEF Admissible

\* A request fails on a constraint of the table, or is refused as inconsistent,
\* only if another that arrived later was first.
THEOREM OvertakenOnly == Spec => RefusedOnlyOvertaken
<1> DEFINE Overtaken == (reply'.op = "refused" /\ reply'.code \in {"INTEGRITY", "FAILED"}) =>
          \E id \in DOMAIN cases : cases[id].detected > reply'.at
<1>1. ASSUME IInv, NEW c \in Clients, NEW found, NEW fresh \in Numberings(found),
             ~Admissible(Reconciled(found, fresh, tx[c].at)), reply'.at = tx[c].at, tx[c] # Idle
      PROVE  Overtaken
  <2>1. PICK at : at = tx[c].at
    OBVIOUS
  <2>2. at \in Nat
    BY <1>1, <2>1, Times DEF IInv, Knows
  <2>3. ~(\A i \in DOMAIN cases : cases[i].detected <= at)
    BY <1>1, <2>1, <2>2, AdmitsLatest
  <2>4. \A i \in DOMAIN cases : cases[i].detected \in Nat
    BY <1>1, CaseRow DEF IInv
  <2> QED
    BY <1>1, <2>1, <2>2, <2>3, <2>4
<1>2. ASSUME NEW c \in Clients, NEW code, Refuse(c, code)
      PROVE  reply'.code = code /\ reply'.at = tx[c].at /\ reply'.op = "refused"
  BY <1>2 DEF Refuse, Answer
<1>3. ASSUME IInv, NEW c \in Clients, Detect(c) PROVE Overtaken
  <2>1. tx[c] # Idle
    BY <1>3 DEF Detect, Idle
  <2>2. CASE reply'.op = "refused"
    <3> DEFINE found == [p \in {tx[c].opp} |-> Facts(evidence[p])]
    <3>1. \A o, at, case, created : ~Answer(c, DetectionAnswer(o, at, case, created))
      BY <2>2 DEF Answer, DetectionAnswer
    <3>2. \E fresh \in Numberings(found) :
             ~Admissible(Reconciled(found, fresh, tx[c].at)) /\ Refuse(c, "FAILED")
      BY <1>3, <3>1, Zenon DEF Detect
    <3> HIDE DEF found, Overtaken
    <3> QED
      BY <1>1, <1>2, <1>3, <2>1, <3>2
  <2> QED
    BY <2>2
<1>4. ASSUME IInv, NEW c \in Clients, Scan(c) PROVE Overtaken
  <2>1. tx[c] # Idle
    BY <1>4 DEF Scan, Idle
  <2>2. CASE reply'.op = "refused"
    <3> DEFINE found == [o \in {p \in Scanned(c) : IsLeak(evidence[p], tx[c].at)} |-> Facts(evidence[o])]
    <3>1. \A scanned, fresh, at : ~Answer(c, ScanAnswer(scanned, fresh, at))
      BY <2>2 DEF Answer, ScanAnswer
    <3>2. \/ Refuse(c, "LIMIT")
          \/ \E fresh \in Numberings(found) :
               ~Admissible(Reconciled(found, fresh, tx[c].at)) /\ Refuse(c, "FAILED")
      BY <1>4, <3>1, Zenon DEF Scan
    <3>3. CASE Refuse(c, "LIMIT")
      <4>1. reply'.code = "LIMIT"
        BY <1>2, <3>3
      <4> QED
        BY <4>1
    <3> HIDE DEF found, Overtaken
    <3> QED
      BY <1>1, <1>2, <1>4, <2>1, <3>2, <3>3
  <2> QED
    BY <2>2
<1>5. ASSUME IInv, NEW c \in Clients, AnswerQueue(c) PROVE Overtaken
  <2>1. CASE reply'.op = "refused"
    <3>1. \A active, at : ~Answer(c, Queue(active, at))
      BY <2>1 DEF Answer, Queue
    <3> DEFINE active == [id \in {i \in DOMAIN cases : cases[i].state \in ActiveCases} |-> cases[id]]
    <3>2. \/ Refuse(c, "LIMIT")
          \/ /\ \E id \in DOMAIN active : active[id].detected > tx[c].at
             /\ Refuse(c, "INTEGRITY")
      BY <1>5, <3>1, Zenon DEF AnswerQueue
    <3>3. CASE Refuse(c, "LIMIT")
      <4>1. reply'.code = "LIMIT"
        BY <1>2, <3>3
      <4> QED
        BY <4>1
    <3>4. CASE /\ \E id \in DOMAIN active : active[id].detected > tx[c].at
               /\ Refuse(c, "INTEGRITY")
      <4>1. reply'.at = tx[c].at
        BY <1>2, <3>4
      <4> QED
        BY <3>4, <4>1
    <3> QED
      BY <3>2, <3>3, <3>4
  <2> QED
    BY <2>1
<1>6. IInv /\ [Next]_vars => [Overtaken]_vars
  <2> SUFFICES ASSUME IInv, Next, reply'.op = "refused", reply'.code \in {"INTEGRITY", "FAILED"}
               PROVE  Overtaken
    BY DEF Overtaken
  <2>1. \E c \in Clients : Detect(c) \/ Scan(c) \/ AnswerQueue(c)
    BY Replies
  <2> QED
    BY <1>3, <1>4, <1>5, <2>1
<1> QED
  BY <1>6, Invariance, PTL DEF Spec, RefusedOnlyOvertaken

-----------------------------------------------------------------------------
(* The detector                                                            *)

\* The reason is the first question answered with yes.
LEMMA FirstQuestion ==
  ASSUME NEW e, NEW at
  PROVE  \E k \in 1 .. 10 : /\ Reason(e, at) = Questions[k]
                            /\ Answered(e, at)[Questions[k]]
                            /\ \A j \in 1 .. (k - 1) : ~Answered(e, at)[Questions[j]]
<1> DEFINE Yes == {i \in DOMAIN Questions : Answered(e, at)[Questions[i]]}
<1>1. DOMAIN Questions = 1 .. 10
  BY DEF Questions
<1>2. 10 \in Yes
  <2>1. Questions[10] = "STALE_WITHOUT_NEXT_ACTION"
    BY DEF Questions
  <2>2. Answered(e, at)["STALE_WITHOUT_NEXT_ACTION"]
    BY DEF Answered
  <2> QED
    BY <1>1, <2>1, <2>2
<1>3. Yes \in SUBSET Nat /\ Yes # {}
  BY <1>1, <1>2
<1>4. \E k \in Yes : \A j \in Yes : k <= j
  <2> HIDE DEF Yes
  <2> QED BY <1>3, LeastIn
<1>5. PICK k : k = Min(Yes) /\ k \in Yes /\ \A j \in Yes : k <= j
  <2> HIDE DEF Yes
  <2> QED BY <1>4 DEF Min
<1>6. Reason(e, at) = Questions[k]
  BY <1>5 DEF Reason
<1>7. ASSUME NEW j \in 1 .. (k - 1) PROVE ~Answered(e, at)[Questions[j]]
  <2>1. k \in 1 .. 10
    BY <1>1, <1>5
  <2>2. j \in DOMAIN Questions /\ j \in Nat /\ ~(k <= j)
    BY <1>1, <2>1
  <2>3. j \notin Yes
    BY <1>5, <2>2
  <2> QED
    BY <2>2, <2>3
<1> QED
  BY <1>1, <1>5, <1>6, <1>7

LEMMA OutcomeIn == ASSUME NEW r PROVE OutcomeOf(r) \in Outcomes
BY DEF OutcomeOf, Outcomes

\* What the detector has made sure of when it says that there is a leak or none.
LEMMA Trusted ==
  ASSUME NEW e, NEW at, OutcomeOf(Reason(e, at)) \in {"LEAK", "NO_LEAK"}
  PROVE  /\ e.stage \notin {"blank", "odd"} /\ ~(e.updated < e.created)
         /\ ~(\E t \in SourceTimes(e) : t > at) /\ Baseline(e).time # NoTime
         /\ ~SourceTooOld(e, at)
         /\ \/ Reason(e, at) = "OPPORTUNITY_CLOSED" /\ e.stage = "closed"
            \/ /\ Reason(e, at) = "RECENT_MEANINGFUL_ACTIVITY"
               /\ e.stage # "closed" /\ ~IsStale(e, at)
            \/ /\ Reason(e, at) = "NEXT_ACTION_PRESENT" /\ e.stage # "closed"
               /\ IsStale(e, at) /\ NextActionPresent(e)
            \/ /\ Reason(e, at) = "STALE_WITHOUT_NEXT_ACTION" /\ e.stage # "closed"
               /\ IsStale(e, at) /\ ~NextActionPresent(e)
<1>1. PICK k \in 1 .. 10 : /\ Reason(e, at) = Questions[k]
                           /\ Answered(e, at)[Questions[k]]
                           /\ \A j \in 1 .. (k - 1) : ~Answered(e, at)[Questions[j]]
  BY FirstQuestion
<1>2. /\ Questions[1] = "OPPORTUNITY_STAGE_MISSING" /\ Questions[2] = "OPPORTUNITY_STAGE_UNRECOGNIZED"
      /\ Questions[3] = "CANONICAL_TIMESTAMP_INVALID" /\ Questions[4] = "CANONICAL_TIMESTAMP_IN_FUTURE"
      /\ Questions[5] = "MEANINGFUL_ACTIVITY_BASELINE_MISSING"
      /\ Questions[6] = "CANONICAL_SOURCE_TOO_OLD" /\ Questions[7] = "OPPORTUNITY_CLOSED"
      /\ Questions[8] = "RECENT_MEANINGFUL_ACTIVITY" /\ Questions[9] = "NEXT_ACTION_PRESENT"
      /\ Questions[10] = "STALE_WITHOUT_NEXT_ACTION"
  BY DEF Questions
<1>3. PICK said : said = Answered(e, at)
  OBVIOUS
<1>4. /\ said.OPPORTUNITY_STAGE_MISSING <=> e.stage = "blank"
      /\ said.OPPORTUNITY_STAGE_UNRECOGNIZED <=> e.stage = "odd"
      /\ said.CANONICAL_TIMESTAMP_INVALID <=> e.updated < e.created
      /\ said.CANONICAL_TIMESTAMP_IN_FUTURE <=> \E t \in SourceTimes(e) : t > at
      /\ said.MEANINGFUL_ACTIVITY_BASELINE_MISSING <=> Baseline(e).time = NoTime
      /\ said.CANONICAL_SOURCE_TOO_OLD <=> SourceTooOld(e, at)
      /\ said.OPPORTUNITY_CLOSED <=> e.stage = "closed"
      /\ said.RECENT_MEANINGFUL_ACTIVITY <=> ~IsStale(e, at)
      /\ said.NEXT_ACTION_PRESENT <=> NextActionPresent(e)
  BY <1>3 DEF Answered
<1>5. k \in 7 .. 10
  <2>1. OutcomeOf(Questions[k]) \in {"LEAK", "NO_LEAK"}
    BY <1>1
  <2>2. ASSUME NEW j \in 1 .. 6 PROVE OutcomeOf(Questions[j]) \notin {"LEAK", "NO_LEAK"}
    BY <1>2 DEF OutcomeOf
  <2> QED
    BY <2>1, <2>2
<1>6. \A j \in 1 .. 6 : ~said[Questions[j]]
  BY <1>1, <1>3, <1>5
<1>7. /\ e.stage \notin {"blank", "odd"} /\ ~(e.updated < e.created)
      /\ ~(\E t \in SourceTimes(e) : t > at) /\ Baseline(e).time # NoTime
      /\ ~SourceTooOld(e, at)
  <2>1. /\ ~said[Questions[1]] /\ ~said[Questions[2]] /\ ~said[Questions[3]]
        /\ ~said[Questions[4]] /\ ~said[Questions[5]] /\ ~said[Questions[6]]
    BY <1>6
  <2> HIDE DEF Questions
  <2> QED
    BY <1>2, <1>4, <2>1, Zenon
<1>8. CASE k = 7
  <2>1. said[Questions[7]]
    BY <1>1, <1>3, <1>8
  <2> QED
    BY <1>1, <1>2, <1>4, <1>7, <1>8, <2>1, Zenon
<1>9. CASE k = 8
  <2>1. said[Questions[8]] /\ ~said[Questions[7]]
    BY <1>1, <1>3, <1>9
  <2> QED
    BY <1>1, <1>2, <1>4, <1>7, <1>9, <2>1, Zenon
<1>10. CASE k = 9
  <2>1. said[Questions[9]] /\ ~said[Questions[7]] /\ ~said[Questions[8]]
    BY <1>1, <1>3, <1>10
  <2> QED
    BY <1>1, <1>2, <1>4, <1>7, <1>10, <2>1, Zenon
<1>11. CASE k = 10
  <2>1. ~said[Questions[9]] /\ ~said[Questions[7]] /\ ~said[Questions[8]]
    BY <1>1, <1>3, <1>11
  <2> QED
    BY <1>1, <1>2, <1>4, <1>7, <1>11, <2>1, Zenon
<1> QED
  BY <1>5, <1>8, <1>9, <1>10, <1>11

\* The latest time an opportunity records.
LEMMA LatestSource ==
  ASSUME NEW e \in Evidence(Nat)
  PROVE  /\ ObservedAt(e) \in SourceTimes(e)
         /\ \A t \in SourceTimes(e) : t \in Nat /\ t <= ObservedAt(e)
<1>1. /\ e.created \in Nat \cup {-1} /\ e.updated \in Nat
      /\ e.act \in Nat \cup {-1} /\ e.tasked \in Nat \cup {-1}
  BY DEF Evidence, NoTime
<1>2. PICK a, b, c, d : a = e.created /\ b = e.updated /\ c = e.act /\ d = e.tasked
  OBVIOUS
<1>3. PICK S : S = SourceTimes(e)
  OBVIOUS
<1>4. S = {a, b, c, d} \ {-1} /\ S \subseteq Nat
  BY <1>1, <1>2, <1>3 DEF SourceTimes, NoTime
<1>5. \E x \in S : \A y \in S : x >= y
  <2>1. a \in Nat \cup {-1} /\ b \in Nat /\ c \in Nat \cup {-1} /\ d \in Nat \cup {-1}
    BY <1>1, <1>2
  <2>2. PICK x \in {a, b, c, d} : x >= a /\ x >= b /\ x >= c /\ x >= d
    BY <2>1
  <2> QED
    BY <1>4, <2>1, <2>2
<1>6. PICK m : m = Max(S) /\ m \in S /\ \A y \in S : m >= y
  BY <1>5 DEF Max
<1>7. ObservedAt(e) = m
  BY <1>3, <1>6 DEF ObservedAt
<1> QED
  BY <1>3, <1>4, <1>6, <1>7

\* The evidence of a leak, and of no leak, is what the browser expects of it at
\* the time it was evaluated.
LEMMA EvidenceStands ==
  ASSUME NEW e \in Evidence(Nat), NEW at \in Nat,
         OutcomeOf(Reason(e, at)) \in {"LEAK", "NO_LEAK"}
  PROVE  /\ EvidenceReadable(Facts(e), Reason(e, at), at)
         /\ Reason(e, at) = "STALE_WITHOUT_NEXT_ACTION" => StalledSince(Facts(e)) <= at
<1>1. PICK r : r = Reason(e, at)
  OBVIOUS
<1>2. /\ e.stage \notin {"blank", "odd"} /\ ~(\E t \in SourceTimes(e) : t > at)
      /\ Baseline(e).time # NoTime /\ ~SourceTooOld(e, at)
      /\ \/ r = "OPPORTUNITY_CLOSED" /\ e.stage = "closed"
         \/ r = "RECENT_MEANINGFUL_ACTIVITY" /\ e.stage # "closed" /\ ~IsStale(e, at)
         \/ /\ r = "NEXT_ACTION_PRESENT" /\ e.stage # "closed"
            /\ IsStale(e, at) /\ NextActionPresent(e)
         \/ /\ r = "STALE_WITHOUT_NEXT_ACTION" /\ e.stage # "closed"
            /\ IsStale(e, at) /\ ~NextActionPresent(e)
  BY <1>1, Trusted
<1>3. PICK f : f = Facts(e)
  OBVIOUS
<1>4. /\ f.stage = e.stage /\ f.base = Baseline(e) /\ f.present = NextActionPresent(e)
      /\ f.observed = ObservedAt(e)
  BY <1>3 DEF Facts
<1>5. f.stage \in {"active", "closed"}
  BY <1>2, <1>4 DEF Evidence
<1>6. PICK b, m : b = Baseline(e).time /\ m = ObservedAt(e)
  OBVIOUS
<1>7. b \in SourceTimes(e)
  <2>1. \/ e.act # NoTime /\ Baseline(e) = [kind |-> "ACTIVITY", time |-> e.act]
        \/ e.act = NoTime /\ Baseline(e) = [kind |-> "CREATED", time |-> e.created]
    BY DEF Baseline
  <2>2. b # NoTime /\ b \in {e.act, e.created}
    BY <1>2, <1>6, <2>1
  <2> QED
    BY <2>2 DEF SourceTimes
<1>8. b \in Nat /\ m \in Nat /\ b <= m /\ m <= at
  BY <1>2, <1>6, <1>7, LatestSource
<1>9. at - m <= FreshFor
  BY <1>2, <1>6, <1>8, DetectorAssumption DEF SourceTooOld
<1>10. IsStale(e, at) <=> at >= b + StaleAfter
  BY <1>6 DEF IsStale
<1>11. f.base.time = b /\ f.observed = m /\ StalledSince(f) = b + StaleAfter
  BY <1>4, <1>6 DEF StalledSince
<1>12. EvidenceReadable(f, r, at)
  BY <1>2, <1>4, <1>5, <1>6, <1>8, <1>9, <1>10, <1>11, DetectorAssumption DEF EvidenceReadable
<1>13. r = "STALE_WITHOUT_NEXT_ACTION" => StalledSince(f) <= at
  BY <1>2, <1>8, <1>10, <1>11, DetectorAssumption
<1> QED
  BY <1>1, <1>3, <1>12, <1>13

-----------------------------------------------------------------------------
(* The records of a case                                                   *)

\* The state of a case after an entry of an audit trail with one link at most.
Stage(audit, i) ==
    IF i > 1 /\ audit[i].to = "LINKED" THEN audit[i - 1].to ELSE audit[i].to

Links(audit) == {i \in DOMAIN audit : audit[i].to = "LINKED"}

\* The audit trail of a case detected at a time, as it is until another time.
Trail(audit, since, till) ==
    /\ audit \in Seq(Entries) /\ Len(audit) \in Nat \ {0}
    /\ audit[1] = [to |-> "OPEN", at |-> since]
    /\ \A i \in 2 .. Len(audit) : /\ audit[i].at \in since .. till
                                  /\ LegalEntry(Stage(audit, i - 1), audit[i].to)
    /\ \A i, j \in Links(audit) : i = j

\* What a case says of itself.
Recorded(r) ==
    /\ Trail(r.audit, r.detected, now)
    /\ r.state = Stage(r.audit, Len(r.audit)) /\ r.updated = r.audit[Len(r.audit)].at
    /\ Links(r.audit) # {} <=> r.action # 0
    /\ StalledSince(r.facts) <= r.detected
    /\ EvidenceReadable(r.facts, "STALE_WITHOUT_NEXT_ACTION", r.detected)

\* The action of a case is one of its opportunity, and not newer than the link.
Linked(r) == r.action # 0 =>
    /\ actions[r.action].opp = r.opp
    /\ \E i \in Links(r.audit) : r.audit[i].at >= actions[r.action].created

\* What a request that is under way has read.
Read(q) == q # Idle =>
    /\ q.op = "link" => actions[q.more].created <= q.at
    /\ q.op \in {"scan", "eligibility"} /\ q.step \in {"enumerated", "activities"} => IsFiniteSet(DOMAIN q.seen)

RecordsInv ==
    /\ IsFiniteSet(DOMAIN evidence)
    /\ \A id \in DOMAIN cases : Recorded(cases[id]) /\ Linked(cases[id])
    /\ \A c \in Clients : Read(tx[c])

\* The states that the browser makes of a trail are those of Stage.
LEMMA ReplayedTrail ==
  ASSUME NEW audit, NEW since, NEW till, Trail(audit, since, till)
  PROVE  \A i \in 1 .. Len(audit) : Replayed(audit)[i] = Stage(audit, i)
<1> DEFINE Step(f) == [i \in DOMAIN audit |->
               IF i > 1 /\ audit[i].to = "LINKED" THEN f[i - 1] ELSE audit[i].to]
           stages == [i \in DOMAIN audit |-> Stage(audit, i)]
<1>1. /\ DOMAIN audit = 1 .. Len(audit) /\ Len(audit) \in Nat
      /\ audit[1].to = "OPEN" /\ \A i, j \in Links(audit) : i = j
  BY DEF Trail
<1>2. ASSUME NEW i \in DOMAIN audit, i > 1, audit[i].to = "LINKED"
      PROVE  i - 1 \in DOMAIN audit /\ audit[i - 1].to # "LINKED"
  <2>1. i - 1 \in DOMAIN audit /\ i - 1 # i
    BY <1>1, <1>2
  <2>2. i \in Links(audit)
    BY <1>2 DEF Links
  <2>3. i - 1 \notin Links(audit)
    BY <1>1, <2>1, <2>2
  <2> QED
    BY <2>1, <2>3 DEF Links
<1>3. stages = Step(stages)
  <2>1. ASSUME NEW i \in DOMAIN audit
        PROVE  stages[i] = IF i > 1 /\ audit[i].to = "LINKED" THEN stages[i - 1] ELSE audit[i].to
    BY <1>2, <2>1 DEF Stage
  <2> HIDE DEF stages
  <2>2. DOMAIN stages = DOMAIN audit /\ stages = [i \in DOMAIN audit |-> stages[i]]
    BY DEF stages
  <2> QED
    BY <2>1, <2>2
<1>4. Replayed(audit) = CHOOSE f : f = Step(f)
  BY DEF Replayed
<1>5. PICK g : g = Replayed(audit) /\ g = Step(g)
  <2> HIDE DEF Step, stages
  <2>1. \E f : f = Step(f)
    BY <1>3
  <2> QED
    BY <1>4, <2>1
<1>6. ASSUME NEW i \in DOMAIN audit
      PROVE  g[i] = IF i > 1 /\ audit[i].to = "LINKED" THEN g[i - 1] ELSE audit[i].to
  BY <1>5, Zenon
<1>7. ASSUME NEW i \in DOMAIN audit PROVE g[i] = Stage(audit, i)
  <2>1. CASE i > 1 /\ audit[i].to = "LINKED"
    <3>1. g[i] = g[i - 1] /\ g[i - 1] = audit[i - 1].to
      BY <1>2, <1>6, <2>1
    <3> QED
      BY <2>1, <3>1 DEF Stage
  <2>2. CASE ~(i > 1 /\ audit[i].to = "LINKED")
    BY <1>6, <2>2 DEF Stage
  <2> QED
    BY <2>1, <2>2
<1> QED
  BY <1>1, <1>5, <1>7

\* A case that says this of itself is one that the browser reads, if its trail
\* is chronological.
LEMMA CaseStands ==
  ASSUME NEW r, NEW till \in Nat, now \in Nat, now <= till, r.detected \in Nat, r.detected <= till,
         Recorded(r), Chronological(r.audit)
  PROVE  CaseReadable(r, r.opp, till)
<1>1. PICK audit, since : audit = r.audit /\ since = r.detected
  OBVIOUS
<1>2. Trail(audit, since, now) /\ Chronological(audit) /\ since \in Nat
  BY <1>1 DEF Recorded
<1>3. \A i \in 1 .. Len(audit) : Replayed(audit)[i] = Stage(audit, i)
  BY <1>2, ReplayedTrail
<1>4. PICK state, last : state = Replayed(audit) /\ last = Len(audit)
  OBVIOUS
<1>5. /\ audit[1] = [to |-> "OPEN", at |-> since] /\ last \in Nat \ {0} /\ DOMAIN audit = 1 .. last
      /\ \A i \in 2 .. last : /\ audit[i].at \in since .. now
                              /\ LegalEntry(Stage(audit, i - 1), audit[i].to)
      /\ \A i, j \in Links(audit) : i = j
  BY <1>2, <1>4 DEF Trail
<1>6. \A i \in 2 .. last : /\ audit[i].at \in since .. till
                           /\ LegalEntry(state[i - 1], audit[i].to)
  <2> SUFFICES ASSUME NEW i \in 2 .. last
               PROVE  audit[i].at \in since .. till /\ LegalEntry(state[i - 1], audit[i].to)
    OBVIOUS
  <2>1. i - 1 \in 1 .. last
    BY <1>5
  <2>2. state[i - 1] = Stage(audit, i - 1)
    BY <1>3, <1>4, <2>1
  <2>3. audit[i].at \in since .. now
    BY <1>5
  <2>4. audit[i].at \in since .. till
    BY <1>2, <2>3
  <2> QED
    BY <1>5, <2>2, <2>4
<1>7. Cardinality(Links(audit)) <= 1
  <2>1. CASE Links(audit) = {}
    BY <2>1, FS_EmptySet
  <2>2. CASE Links(audit) # {}
    <3>1. PICK i : Links(audit) = {i}
      BY <1>5, <2>2
    <3>2. Cardinality({i}) = 1
      BY FS_Singleton, Zenon
    <3> QED
      BY <3>1, <3>2
  <2> QED
    BY <2>1, <2>2
<1>8. r.state = state[last] /\ r.updated = audit[last].at
  <2>1. last \in 1 .. last
    BY <1>5
  <2> QED
    BY <1>1, <1>3, <1>4, <2>1 DEF Recorded
<1>9. AuditReadable(r, till)
  <2>1. Links(audit) = {i \in DOMAIN audit : audit[i].to = "LINKED"}
    BY DEF Links
  <2>2. Links(audit) # {} <=> r.action # 0
    BY <1>1 DEF Recorded
  <2> QED
    BY <1>1, <1>2, <1>4, <1>5, <1>6, <1>7, <1>8, <2>1, <2>2, Zenon DEF AuditReadable
<1> QED
  BY <1>9 DEF CaseReadable, Recorded

\* What a step leaves of the actions that cases and requests refer to.
ActionsStay ==
    /\ DOMAIN actions \subseteq DOMAIN actions'
    /\ \A a \in DOMAIN actions : /\ actions'[a].opp = actions[a].opp
                                 /\ actions'[a].created = actions[a].created

\* A trail with one more entry than another.
Longer(a, b, since, till, to, at) ==
    /\ Trail(b, since, till) /\ b[Len(b)].at = at
    /\ to = "LINKED" => Stage(b, Len(b)) = Stage(a, Len(a)) /\ Len(b) \in Links(b)
    /\ to # "LINKED" => Stage(b, Len(b)) = to /\ Links(b) = Links(a)
    /\ Links(a) \subseteq Links(b) /\ \A i \in Links(a) : b[i] = a[i]

\* One more entry in the trail of a case.
LEMMA TrailGrows ==
  ASSUME NEW a, NEW since \in Nat, NEW till \in Nat, Trail(a, since, till),
         NEW to \in States \cup {"LINKED"}, NEW at \in since .. till,
         LegalEntry(Stage(a, Len(a)), to), to = "LINKED" => Links(a) = {},
         NEW b, b = Append(a, [to |-> to, at |-> at])
  PROVE  Longer(a, b, since, till, to, at)
<1>1. /\ a \in Seq(Entries) /\ Len(a) \in Nat \ {0} /\ DOMAIN a = 1 .. Len(a)
      /\ a[1] = [to |-> "OPEN", at |-> since]
      /\ \A i \in 2 .. Len(a) : /\ a[i].at \in since .. till
                                /\ LegalEntry(Stage(a, i - 1), a[i].to)
      /\ \A i, j \in Links(a) : i = j
  BY DEF Trail
<1>2. PICK n : n = Len(a)
  OBVIOUS
<1>3. PICK e : e = [to |-> to, at |-> at]
  OBVIOUS
<1>4. e \in Entries /\ e.to = to /\ e.at = at
  BY <1>3 DEF Entries
<1>5. /\ b \in Seq(Entries) /\ Len(b) = n + 1 /\ n \in Nat \ {0} /\ DOMAIN b = 1 .. (n + 1)
      /\ b[n + 1] = e /\ \A i \in 1 .. n : b[i] = a[i]
  BY <1>1, <1>2, <1>3, <1>4
<1>6. ASSUME NEW i \in 1 .. n PROVE Stage(b, i) = Stage(a, i)
  <2>1. b[i] = a[i] /\ (i > 1 => b[i - 1] = a[i - 1])
    BY <1>5
  <2> QED
    BY <2>1 DEF Stage
<1>7. Links(b) = IF to = "LINKED" THEN {n + 1} ELSE Links(a)
  <2>1. \A i : i \in Links(b) <=> (i \in Links(a) \/ (i = n + 1 /\ to = "LINKED"))
    BY <1>1, <1>2, <1>4, <1>5 DEF Links
  <2> QED
    BY <2>1
<1>8. Stage(b, n + 1) = IF to = "LINKED" THEN Stage(a, n) ELSE to
  <2>1. b[n + 1].to = to /\ n + 1 > 1 /\ (n + 1) - 1 = n /\ b[n] = a[n]
    BY <1>4, <1>5
  <2>2. CASE to = "LINKED"
    <3>1. a[n].to # "LINKED"
      BY <1>1, <1>2, <2>2 DEF Links
    <3> QED
      BY <2>1, <2>2, <3>1 DEF Stage
  <2>3. CASE to # "LINKED"
    BY <2>1, <2>3 DEF Stage
  <2> QED
    BY <2>2, <2>3
<1>9. Trail(b, since, till)
  <2>1. ASSUME NEW i \in 2 .. (n + 1)
        PROVE  b[i].at \in since .. till /\ LegalEntry(Stage(b, i - 1), b[i].to)
    <3>1. CASE i = n + 1
      <4>1. Stage(b, n) = Stage(a, n)
        BY <1>5, <1>6
      <4>2. LegalEntry(Stage(b, n), to)
        BY <1>2, <4>1
      <4>3. b[i] = e /\ i - 1 = n
        BY <1>5, <3>1
      <4> QED
        BY <1>4, <4>2, <4>3
    <3>2. CASE i \in 2 .. n
      <4>1. b[i] = a[i] /\ i - 1 \in 1 .. n
        BY <1>5, <3>2
      <4>2. Stage(b, i - 1) = Stage(a, i - 1)
        BY <1>6, <4>1
      <4> QED
        BY <1>1, <1>2, <3>2, <4>1, <4>2
    <3> QED
      BY <1>5, <3>1, <3>2
  <2>2. b[1] = a[1]
    BY <1>5
  <2>3. \A i, j \in Links(b) : i = j
    BY <1>1, <1>7
  <2> QED
    BY <1>1, <1>5, <2>1, <2>2, <2>3 DEF Trail
<1>10. Links(a) \subseteq Links(b) /\ \A i \in Links(a) : b[i] = a[i]
  <2>1. Links(a) \subseteq 1 .. n
    BY <1>1, <1>2 DEF Links
  <2> QED
    BY <1>5, <1>7, <2>1
<1> QED
  BY <1>2, <1>4, <1>5, <1>7, <1>8, <1>9, <1>10 DEF Longer

\* A row with one more entry in its trail, and the action of a link.
Adds(r, d, to, at) ==
    /\ d.audit = Append(r.audit, [to |-> to, at |-> at]) /\ d.updated = at
    /\ d.detected = r.detected /\ d.facts = r.facts
    /\ to = "LINKED" => d.state = r.state /\ r.action = 0 /\ d.action # 0
    /\ to # "LINKED" => d.state = to /\ d.action = r.action

LEMMA RecordGrows ==
  ASSUME NEW r, Recorded(r), NEW to \in States \cup {"LINKED"}, now \in Nat,
         r.detected \in Nat, NEW at \in r.detected .. now, LegalEntry(r.state, to),
         NEW d, Adds(r, d, to, at)
  PROVE  Recorded(d) /\ Longer(r.audit, d.audit, r.detected, now, to, at)
<1>1. PICK a, b, since : a = r.audit /\ b = d.audit /\ since = r.detected
  OBVIOUS
<1>2. /\ Trail(a, since, now) /\ r.state = Stage(a, Len(a))
      /\ Links(a) # {} <=> r.action # 0
      /\ StalledSince(r.facts) <= since
      /\ EvidenceReadable(r.facts, "STALE_WITHOUT_NEXT_ACTION", since)
  BY <1>1 DEF Recorded
<1>3. /\ since \in Nat /\ at \in since .. now /\ b = Append(a, [to |-> to, at |-> at])
      /\ LegalEntry(Stage(a, Len(a)), to) /\ (to = "LINKED" => Links(a) = {})
  BY <1>1, <1>2 DEF Adds
<1>4. PICK till : till = now /\ till \in Nat /\ Trail(a, since, till) /\ at \in since .. till
  BY <1>2, <1>3
<1>5. Longer(a, b, since, till, to, at)
  BY <1>3, <1>4, TrailGrows
<1>6. Recorded(d)
  <2>1. d.state = Stage(b, Len(b)) /\ d.updated = b[Len(b)].at
    BY <1>2, <1>5 DEF Longer, Adds
  <2>2. Links(b) # {} <=> d.action # 0
    BY <1>2, <1>5 DEF Longer, Adds
  <2> QED
    BY <1>1, <1>2, <1>4, <1>5, <2>1, <2>2 DEF Recorded, Longer, Adds
<1> QED
  BY <1>1, <1>4, <1>5, <1>6

\* A row that nobody writes goes on saying the same.
LEMMA RecordStays ==
  ASSUME NEW r, Recorded(r), Linked(r), r.action \in {0} \cup DOMAIN actions,
         r.detected \in Nat, now \in Nat, now' \in Nat, now <= now', ActionsStay
  PROVE  Recorded(r)' /\ Linked(r)'
<1>1. Trail(r.audit, r.detected, now')
  <2>1. PICK a, since : a = r.audit /\ since = r.detected
    OBVIOUS
  <2>2. Trail(a, since, now)
    BY <2>1 DEF Recorded
  <2>3. since .. now \subseteq since .. now'
    BY <2>1
  <2> QED
    BY <2>1, <2>2, <2>3 DEF Trail
<1>2. Recorded(r)'
  BY <1>1 DEF Recorded
<1>3. Linked(r)'
  BY DEF Linked, ActionsStay
<1> QED
  BY <1>2, <1>3

LEMMA ReadStays ==
  ASSUME NEW q, Read(q), Knows(q), ActionsStay
  PROVE  Read(q)'
  BY DEF Read, Knows, ActionsStay

\* Every row of a step is unchanged or says what it should.
LEMMA RecordsStay ==
  ASSUME IInv, RecordsInv, ActionsStay, now' \in Nat, now <= now',
         IsFiniteSet(DOMAIN evidence'),
         \A id \in DOMAIN cases' :
            \/ id \in DOMAIN cases /\ cases'[id] = cases[id]
            \/ (Recorded(cases[id]) /\ Linked(cases[id]))',
         \/ tx' = tx
         \/ \E c \in Clients : \E q : tx' = [tx EXCEPT ![c] = q] /\ Read(q)'
  PROVE  RecordsInv'
<1>1. ASSUME NEW id \in DOMAIN cases' PROVE (Recorded(cases[id]) /\ Linked(cases[id]))'
  <2>1. CASE id \in DOMAIN cases /\ cases'[id] = cases[id]
    <3>1. PICK r : r = cases[id]
      OBVIOUS
    <3>2. Recorded(r) /\ Linked(r) /\ r \in CaseRows /\ r.detected \in Nat /\ now \in Nat
      BY <2>1, <3>1, CaseRow, Times DEF IInv, RecordsInv
    <3>3. r.action \in {0} \cup DOMAIN actions
      BY <3>2 DEF CaseRows
    <3>4. Recorded(r)' /\ Linked(r)'
      BY <3>2, <3>3, RecordStays
    <3> QED
      BY <2>1, <3>1, <3>4 DEF Recorded, Linked
  <2> QED
    BY <2>1
<1>2. ASSUME NEW d \in Clients PROVE Read(tx[d])'
  <2>1. PICK p : p = tx[d]
    OBVIOUS
  <2>2. Read(p)'
    BY <2>1, ReadStays DEF IInv, RecordsInv
  <2>3. CASE tx' = tx
    BY <2>1, <2>2, <2>3 DEF Read
  <2>4. ASSUME NEW c \in Clients, NEW q, tx' = [tx EXCEPT ![c] = q], Read(q)'
        PROVE  Read(tx[d])'
    <3>1. tx = [x \in Clients |-> tx[x]]
      BY DEF IInv, Typed
    <3>2. tx'[d] = q \/ tx'[d] = p
      BY <2>1, <2>4, <3>1
    <3> QED
      BY <2>2, <2>4, <3>2 DEF Read
  <2> QED
    BY <2>3, <2>4
<1> QED
  BY <1>1, <1>2 DEF RecordsInv

LEMMA IdleReads ==
  ASSUME NEW c, tx' = [tx EXCEPT ![c] = Idle]
  PROVE  \E q : tx' = [tx EXCEPT ![c] = q] /\ Read(q)'
<1>1. PICK q : q = Idle
  OBVIOUS
<1>2. Read(q)'
  BY <1>1 DEF Read
<1> QED
  BY <1>1, <1>2

\* A request writes one case.
LEMMA CaseGrows ==
  ASSUME IInv, RecordsInv, NEW id \in DOMAIN cases, NEW d, NEW to \in States \cup {"LINKED"},
         NEW at \in cases[id].detected .. now, Adds(cases[id], d, to, at), d.opp = cases[id].opp,
         LegalEntry(cases[id].state, to), cases' = [cases EXCEPT ![id] = d],
         to = "LINKED" => /\ d.action \in DOMAIN actions' /\ actions'[d.action].opp = d.opp
                          /\ actions'[d.action].created <= at,
         ActionsStay, UNCHANGED <<now, evidence>>,
         NEW c \in Clients, tx' = [tx EXCEPT ![c] = Idle]
  PROVE  RecordsInv'
<1>1. PICK r : r = cases[id]
  OBVIOUS
<1>2. /\ Recorded(r) /\ Linked(r) /\ now \in Nat /\ r.detected \in Nat
      /\ r.action \in {0} \cup DOMAIN actions
  <2>1. r \in CaseRows /\ r.detected \in Nat /\ now \in Nat
    BY <1>1, CaseRow, Times DEF IInv
  <2> QED
    BY <1>1, <2>1 DEF RecordsInv, CaseRows
<1>3. /\ Adds(r, d, to, at) /\ at \in r.detected .. now /\ LegalEntry(r.state, to)
  BY <1>1
<1>4. Recorded(d) /\ Longer(r.audit, d.audit, r.detected, now, to, at)
  BY <1>2, <1>3, RecordGrows
<1>5. Recorded(d)'
  BY <1>4 DEF Recorded, Trail
<1>6. Linked(d)'
  <2>1. CASE to = "LINKED"
    <3>1. d.audit[Len(d.audit)].at = at /\ Len(d.audit) \in Links(d.audit)
      BY <1>4, <2>1 DEF Longer
    <3>2. actions'[d.action].opp = d.opp /\ actions'[d.action].created <= at
      BY <2>1
    <3> QED
      BY <3>1, <3>2 DEF Linked
  <2>2. CASE to # "LINKED"
    <3>1. d.action = r.action /\ d.opp = r.opp
      BY <1>1, <1>3, <2>2 DEF Adds
    <3> SUFFICES ASSUME r.action # 0 PROVE Linked(d)'
      BY <3>1 DEF Linked
    <3>2. /\ actions[r.action].opp = r.opp /\ actions'[r.action].opp = actions[r.action].opp
          /\ actions'[r.action].created = actions[r.action].created
      BY <1>2 DEF Linked, ActionsStay
    <3>3. PICK i \in Links(r.audit) : r.audit[i].at >= actions[r.action].created
      BY <1>2 DEF Linked
    <3>4. i \in Links(d.audit) /\ d.audit[i] = r.audit[i]
      BY <1>4, <3>3 DEF Longer
    <3> QED
      BY <3>1, <3>2, <3>3, <3>4 DEF Linked
  <2> QED
    BY <2>1, <2>2
<1>7. \A i \in DOMAIN cases' : \/ i \in DOMAIN cases /\ cases'[i] = cases[i]
                               \/ (Recorded(cases[i]) /\ Linked(cases[i]))'
  <2> SUFFICES ASSUME NEW i \in DOMAIN cases', i # id \/ cases'[i] # cases[i]
               PROVE  \/ i \in DOMAIN cases /\ cases'[i] = cases[i]
                      \/ (Recorded(cases[i]) /\ Linked(cases[i]))'
    OBVIOUS
  <2>1. i \in DOMAIN cases /\ cases'[i] = IF i = id THEN d ELSE cases[i]
    BY DEF IInv, Typed
  <2>2. CASE i = id
    BY <1>5, <1>6, <2>1, <2>2 DEF Recorded, Linked
  <2> QED
    BY <2>1, <2>2
<1>8. now' \in Nat /\ now <= now' /\ IsFiniteSet(DOMAIN evidence')
  BY <1>2 DEF RecordsInv
<1>9. \E q : tx' = [tx EXCEPT ![c] = q] /\ Read(q)'
  BY IdleReads
<1> QED
  BY <1>7, <1>8, <1>9, RecordsStay

\* A new case.
LEMMA NewRecord ==
  ASSUME now \in Nat, NEW o, NEW at \in 0 .. now, NEW e \in Evidence(Nat), IsLeak(e, at),
         NEW r, r = NewCase(o, Facts(e), at)
  PROVE  Recorded(r) /\ Linked(r)
<1>1. PICK a, f : a = <<[to |-> "OPEN", at |-> at]>> /\ f = Facts(e)
  OBVIOUS
<1>2. /\ r.audit = a /\ r.facts = f /\ r.detected = at /\ r.state = "OPEN" /\ r.updated = at
      /\ r.action = 0
  BY <1>1 DEF NewCase
<1>3. /\ a \in Seq(Entries) /\ Len(a) = 1 /\ a[1] = [to |-> "OPEN", at |-> at] /\ DOMAIN a = {1}
  <2>1. [to |-> "OPEN", at |-> at] \in Entries
    BY DEF Entries, States
  <2> QED
    BY <1>1, <2>1
<1>4. Links(a) = {} /\ Stage(a, 1) = "OPEN" /\ a[1].at = at
  BY <1>3 DEF Links, Stage
<1>5. Trail(a, at, now)
  BY <1>3, <1>4 DEF Trail
<1>6. EvidenceReadable(f, "STALE_WITHOUT_NEXT_ACTION", at) /\ StalledSince(f) <= at
  <2>1. PICK s : s = Reason(e, at)
    OBVIOUS
  <2>2. s = "STALE_WITHOUT_NEXT_ACTION"
    BY <2>1 DEF IsLeak
  <2>3. OutcomeOf(s) = "LEAK"
    BY <2>2 DEF OutcomeOf
  <2>4. EvidenceReadable(Facts(e), s, at) /\ StalledSince(Facts(e)) <= at
    <3>1. at \in Nat /\ OutcomeOf(s) \in {"LEAK", "NO_LEAK"}
      BY <2>3
    <3>2. /\ EvidenceReadable(Facts(e), Reason(e, at), at)
          /\ Reason(e, at) = "STALE_WITHOUT_NEXT_ACTION" => StalledSince(Facts(e)) <= at
      BY <2>1, <3>1, EvidenceStands
    <3> QED
      BY <2>1, <2>2, <3>2
  <2> QED
    BY <1>1, <2>2, <2>4
<1> QED
  BY <1>2, <1>3, <1>4, <1>5, <1>6 DEF Recorded, Linked

\* A reconciliation of leaks.
LEMMA ReconciliationKeepsRecords ==
  ASSUME IInv, RecordsInv, NEW c \in Clients, NEW found, NEW fresh \in Numberings(found),
         NEW at \in 0 .. now,
         \A o \in DOMAIN found : /\ o \in DOMAIN evidence /\ found[o] = Facts(evidence[o])
                                 /\ IsLeak(evidence[o], at),
         cases' = Reconciled(found, fresh, at), Admissible(Reconciled(found, fresh, at)),
         UNCHANGED <<now, evidence, actions>>, tx' = [tx EXCEPT ![c] = Idle]
  PROVE  RecordsInv'
<1>1. Written(cases', found, fresh, at)
  BY ReconciledRows
<1>2. /\ now \in Nat /\ at \in Nat
  BY Times DEF IInv
<1>3. ASSUME NEW o \in DOMAIN fresh PROVE (Recorded(cases[fresh[o]]) /\ Linked(cases[fresh[o]]))'
  <2>1. PICK e, r : e = evidence[o] /\ r = cases'[fresh[o]]
    OBVIOUS
  <2>2. o \in DOMAIN found /\ r = NewCase(o, found[o], at)
    BY <1>1, <2>1 DEF Written, Opened
  <2>3. e \in Evidence(Nat) /\ IsLeak(e, at) /\ r = NewCase(o, Facts(e), at)
    BY <2>1, <2>2 DEF IInv, Typed
  <2>4. Recorded(r) /\ Linked(r)
    BY <1>2, <2>3, NewRecord
  <2> QED
    BY <2>1, <2>4 DEF Recorded, Linked
<1>4. ASSUME NEW i \in DOMAIN cases
      PROVE  \/ cases'[i] = cases[i]
             \/ (Recorded(cases[i]) /\ Linked(cases[i]))'
  <2>1. CASE i \in Active(cases[i].opp) /\ cases[i].opp \in DOMAIN fresh
    <3>1. PICK r, d : r = cases[i] /\ d = cases'[i]
      OBVIOUS
    <3>2. /\ r \in CaseRows /\ r.detected \in Nat /\ Recorded(r) /\ Linked(r)
      BY <3>1, CaseRow DEF IInv, RecordsInv
    <3>3. PICK a, n : a = Append(r.audit, [to |-> "SUPERSEDED", at |-> at]) /\ n = fresh[r.opp]
      OBVIOUS
    <3>4. d = [Audited(r, "SUPERSEDED", at) EXCEPT !.state = "SUPERSEDED", !.succ = n]
      BY <1>1, <2>1, <3>1, <3>3 DEF Written, Closed
    <3>5. d = [[r EXCEPT !.updated = at, !.audit = a] EXCEPT !.state = "SUPERSEDED", !.succ = n]
      BY <3>3, <3>4 DEF Audited
    <3>6. /\ d.audit = a /\ d.updated = at /\ d.state = "SUPERSEDED" /\ d.opp = r.opp
          /\ d.detected = r.detected /\ d.facts = r.facts /\ d.action = r.action
      BY <3>2, <3>5 DEF CaseRows
    <3>7. at \in r.detected .. now
      <4>1. i \in DOMAIN cases' /\ d.updated >= d.detected
        BY <1>1, <3>1 DEF Written, Admissible
      <4> QED
        BY <1>2, <3>2, <3>6, <4>1
    <3>8. Adds(r, d, "SUPERSEDED", at)
      BY <3>3, <3>6 DEF Adds
    <3>9. LegalEntry(r.state, "SUPERSEDED") /\ "SUPERSEDED" \in States \cup {"LINKED"}
      <4>1. r.state \in ActiveCases
        BY <2>1, <3>1 DEF Active
      <4> QED
        BY <4>1 DEF LegalEntry, States
    <3>10. Recorded(d) /\ Longer(r.audit, d.audit, r.detected, now, "SUPERSEDED", at)
      BY <1>2, <3>2, <3>7, <3>8, <3>9, RecordGrows
    <3>11. Linked(d)
      BY <3>2, <3>6, <3>10 DEF Linked, Longer
    <3> QED
      BY <3>1, <3>10, <3>11 DEF Recorded, Linked
  <2>2. CASE ~(i \in Active(cases[i].opp) /\ cases[i].opp \in DOMAIN fresh)
    BY <1>1, <2>2 DEF Written, Closed
  <2> QED
    BY <2>1, <2>2
<1>5. \A i \in DOMAIN cases' : \/ i \in DOMAIN cases /\ cases'[i] = cases[i]
                               \/ (Recorded(cases[i]) /\ Linked(cases[i]))'
  <2> SUFFICES ASSUME NEW i \in DOMAIN cases'
               PROVE  \/ i \in DOMAIN cases /\ cases'[i] = cases[i]
                      \/ (Recorded(cases[i]) /\ Linked(cases[i]))'
    OBVIOUS
  <2>1. i \in DOMAIN cases \/ \E o \in DOMAIN fresh : i = fresh[o]
    BY <1>1 DEF Written
  <2>2. CASE \E o \in DOMAIN fresh : i = fresh[o]
    BY <1>3, <2>2, Zenon
  <2> QED
    BY <1>4, <2>1, <2>2
<1>6. now' \in Nat /\ now <= now' /\ IsFiniteSet(DOMAIN evidence') /\ ActionsStay
  BY <1>2 DEF RecordsInv, ActionsStay
<1>7. \E q : tx' = [tx EXCEPT ![c] = q] /\ Read(q)'
  BY IdleReads
<1> QED
  BY <1>5, <1>6, <1>7, RecordsStay

LEMMA StoreKeepsRecords ==
  ASSUME IInv, RecordsInv, UNCHANGED Store, NEW c \in Clients, NEW q, tx' = [tx EXCEPT ![c] = q], Read(q)
  PROVE  RecordsInv'
<1>1. UNCHANGED <<now, evidence, cases, actions>> /\ ActionsStay
  BY DEF Store, ActionsStay
<1>2. now' \in Nat /\ now <= now' /\ IsFiniteSet(DOMAIN evidence')
  BY <1>1, Times DEF IInv, RecordsInv
<1>3. Read(q)'
  BY <1>1 DEF Read
<1>4. \A i \in DOMAIN cases' : \/ i \in DOMAIN cases /\ cases'[i] = cases[i]
                               \/ (Recorded(cases[i]) /\ Linked(cases[i]))'
  BY <1>1
<1> QED
  BY <1>1, <1>2, <1>3, <1>4, RecordsStay

LEMMA EndKeepsRecords ==
  ASSUME IInv, RecordsInv, UNCHANGED Store, NEW c \in Clients, tx' = [tx EXCEPT ![c] = Idle]
  PROVE  RecordsInv'
<1>1. PICK q : q = Idle
  OBVIOUS
<1>2. Read(q)
  BY <1>1 DEF Read
<1> QED
  BY <1>1, <1>2, StoreKeepsRecords

LEMMA RefuseKeepsRecords ==
  ASSUME IInv, RecordsInv, NEW c \in Clients, NEW code, Refuse(c, code)
  PROVE  RecordsInv'
  BY EndKeepsRecords DEF Refuse, Answer, Store

LEMMA BeginKeepsRecords ==
  ASSUME IInv, RecordsInv, NEW c \in Clients, Begin(c)
  PROVE  RecordsInv'
<1>0. UNCHANGED Store /\ now \in Nat
  BY Times DEF Begin, IInv
<1>1. ASSUME NEW op, NEW o, NEW id, NEW more, tx' = [tx EXCEPT ![c] = Request(op, o, id, more)],
             op = "link" => more \in DOMAIN actions
      PROVE  RecordsInv'
  <2>1. PICK q : q = Request(op, o, id, more)
    OBVIOUS
  <2>2. op = "link" => actions[more].created <= now
    <3> SUFFICES ASSUME op = "link" PROVE actions[more].created <= now
      OBVIOUS
    <3>1. actions[more] \in ActionRows
      BY <1>1 DEF IInv, Typed
    <3> QED
      BY <1>0, <3>1 DEF ActionRows
  <2>3. q.op = op /\ q.more = more /\ q.at = now /\ q.step = "begun"
    BY <2>1 DEF Request
  <2>4. Read(q)
    BY <2>2, <2>3 DEF Read
  <2> QED
    BY <1>0, <1>1, <2>1, <2>4, StoreKeepsRecords
<1>2. PICK op \in setting.requests[c] :
         \/ /\ op \in {"scan", "eligibility", "queue"}
            /\ tx' = [tx EXCEPT ![c] = Request(op, 0, 0, 0)]
         \/ /\ op \in {"detect", "list"}
            /\ \E o \in DOMAIN evidence :
                 tx' = [tx EXCEPT ![c] = Request(op, o, 0, 0)]
         \/ /\ op \in {"handoff", "resume", "dismiss"}
            /\ \E id \in DOMAIN cases :
                 tx' = [tx EXCEPT ![c] = Request(op, cases[id].opp, id, 0)]
         \/ /\ op = "snooze"
            /\ \E id \in DOMAIN cases, wake \in 1 .. MaxNow :
                 tx' = [tx EXCEPT ![c] = Request(op, cases[id].opp, id, wake)]
         \/ /\ op = "link"
            /\ \E id \in DOMAIN cases, a \in DOMAIN actions :
                 tx' = [tx EXCEPT ![c] = Request(op, cases[id].opp, id, a)]
  BY DEF Begin
<1>3. ASSUME op # "link", NEW o, NEW id, NEW more, tx' = [tx EXCEPT ![c] = Request(op, o, id, more)]
      PROVE  RecordsInv'
  BY <1>1, <1>3
<1>4. ASSUME NEW id \in DOMAIN cases, NEW a \in DOMAIN actions,
             tx' = [tx EXCEPT ![c] = Request(op, cases[id].opp, id, a)]
      PROVE  RecordsInv'
  <2>1. PICK o : o = cases[id].opp
    OBVIOUS
  <2> QED
    BY <1>1, <1>4, <2>1
<1>5. op = "link" \/ \E o, id, more : op # "link" /\ tx' = [tx EXCEPT ![c] = Request(op, o, id, more)]
  BY <1>2
<1> QED
  BY <1>2, <1>3, <1>4, <1>5

LEMMA EnumerateKeepsRecords ==
  ASSUME IInv, RecordsInv, NEW c \in Clients, Enumerate(c)
  PROVE  RecordsInv'
<1>1. PICK t : t = tx[c]
  OBVIOUS
<1>2. PICK q : q = [t EXCEPT !.step = "enumerated", !.seen = evidence, !.todo = DOMAIN evidence]
  OBVIOUS
<1>3. tx' = [tx EXCEPT ![c] = q] /\ UNCHANGED Store
  BY <1>1, <1>2 DEF Enumerate
<1>4. IsRequest(t) /\ t.op \in {"scan", "eligibility"}
  BY <1>1 DEF IInv, Knows, Enumerate, Idle
<1>5. q.op = t.op /\ q.seen = evidence
  BY <1>2, <1>4 DEF IsRequest
<1>6. Read(q)
  BY <1>4, <1>5 DEF Read, RecordsInv
<1> QED
  BY <1>3, <1>6, StoreKeepsRecords

LEMMA ChildrenKeepRecords ==
  ASSUME IInv, RecordsInv, NEW c \in Clients, ReadActivities(c) \/ ReadTasks(c)
  PROVE  RecordsInv'
<1>1. PICK t : t = tx[c]
  OBVIOUS
<1>2. /\ t # Idle /\ IsRequest(t) /\ t.op = "eligibility" /\ Read(t)
      /\ t.step \in {"enumerated", "activities"}
  BY <1>1 DEF IInv, RecordsInv, Knows, ReadActivities, ReadTasks, Idle
<1>3. PICK step, todo, seen :
        /\ tx' = [tx EXCEPT ![c] = [t EXCEPT !.step = step, !.todo = todo, !.seen = seen]]
        /\ DOMAIN seen = DOMAIN t.seen
  <2>0. tx = [d \in Clients |-> tx[d]]
    BY DEF IInv, Typed
  <2>1. CASE ReadActivities(c)
    <3>1. PICK seen : seen = WithActivities(t.seen, Min(t.todo))
      OBVIOUS
    <3>2. tx' = [tx EXCEPT ![c].step = "activities", ![c].seen = WithActivities(@, Min(tx[c].todo))]
      BY <2>1 DEF ReadActivities
    <3>3. tx' = [tx EXCEPT ![c] = [t EXCEPT !.step = "activities", !.todo = t.todo, !.seen = seen]]
      BY <1>1, <1>2, <2>0, <3>1, <3>2 DEF IsRequest
    <3>4. DOMAIN seen = DOMAIN t.seen
      BY <3>1 DEF WithActivities
    <3> QED
      BY <3>3, <3>4
  <2>2. CASE ReadTasks(c)
    <3>1. PICK o : o = Min(t.todo)
      OBVIOUS
    <3>2. PICK seen : seen = WithTasks(t.seen, o)
      OBVIOUS
    <3>3. tx' = [tx EXCEPT ![c].step = "enumerated", ![c].todo = @ \ {o}, ![c].seen = WithTasks(@, o)]
      BY <1>1, <2>2, <3>1 DEF ReadTasks
    <3>4. tx' = [tx EXCEPT ![c] = [t EXCEPT !.step = "enumerated", !.todo = t.todo \ {o}, !.seen = seen]]
      BY <1>1, <1>2, <2>0, <3>2, <3>3 DEF IsRequest
    <3>5. DOMAIN seen = DOMAIN t.seen
      BY <3>2 DEF WithTasks
    <3> QED
      BY <3>4, <3>5
  <2> QED
    BY <2>1, <2>2
<1>4. PICK q : q = [t EXCEPT !.step = step, !.todo = todo, !.seen = seen]
  OBVIOUS
<1>5. q.op = t.op /\ q.seen = seen
  BY <1>2, <1>4 DEF IsRequest
<1>6. Read(q)
  BY <1>2, <1>3, <1>5 DEF Read
<1>7. reply' = NoReply /\ UNCHANGED Store
  BY DEF ReadActivities, ReadTasks
<1> QED
  BY <1>3, <1>4, <1>6, <1>7, StoreKeepsRecords

LEMMA DetectKeepsRecords ==
  ASSUME IInv, RecordsInv, NEW c \in Clients, Detect(c)
  PROVE  RecordsInv'
<1> DEFINE o == tx[c].opp
           at == tx[c].at
           found == [p \in {o} |-> Facts(evidence[p])]
<1>1. tx[c].op = "detect" /\ tx[c] # Idle
  BY DEF Detect, Idle
<1>2. o \in DOMAIN evidence /\ at \in 0 .. now
  BY <1>1 DEF IInv, Knows
<1>3. DOMAIN found = {o} /\ found[o] = Facts(evidence[o])
  OBVIOUS
<1>4. \/ UNCHANGED Store /\ tx' = [tx EXCEPT ![c] = Idle]
      \/ /\ IsLeak(evidence[o], at)
         /\ \E fresh \in Numberings(found) :
            \/ Refuse(c, "FAILED")
            \/ /\ cases' = Reconciled(found, fresh, at) /\ Admissible(Reconciled(found, fresh, at))
               /\ tx' = [tx EXCEPT ![c] = Idle]
               /\ UNCHANGED <<now, evidence, actions, milestones, setting>>
  BY DEF Detect, Answer
<1>5. CASE UNCHANGED Store /\ tx' = [tx EXCEPT ![c] = Idle]
  BY <1>5, EndKeepsRecords
<1>6. ASSUME NEW fresh \in Numberings(found), cases' = Reconciled(found, fresh, at),
             IsLeak(evidence[o], at),
             Admissible(Reconciled(found, fresh, at)), tx' = [tx EXCEPT ![c] = Idle],
             UNCHANGED <<now, evidence, actions, milestones, setting>>
      PROVE  RecordsInv'
  <2>1. \A p \in DOMAIN found : /\ p \in DOMAIN evidence /\ found[p] = Facts(evidence[p])
                                /\ IsLeak(evidence[p], at)
    BY <1>2, <1>3, <1>6
  <2>2. PICK f, t : f = found /\ t = at
    OBVIOUS
  <2> HIDE DEF found, at
  <2> QED
    BY <1>2, <1>6, <2>1, <2>2, ReconciliationKeepsRecords
<1> HIDE DEF found, at, o
<1> QED
  BY <1>4, <1>5, <1>6, RefuseKeepsRecords

LEMMA ScanKeepsRecords ==
  ASSUME IInv, RecordsInv, NEW c \in Clients, Scan(c)
  PROVE  RecordsInv'
<1> DEFINE at == tx[c].at
           scanned == Scanned(c)
           found == [o \in {p \in scanned : IsLeak(evidence[p], at)} |-> Facts(evidence[o])]
<1>1. tx[c].op = "scan" /\ tx[c].step = "enumerated" /\ tx[c] # Idle
  BY DEF Scan, Idle
<1>2. scanned \subseteq DOMAIN evidence /\ at \in 0 .. now
  BY <1>1 DEF IInv, Knows, Scanned
<1>3. \/ Refuse(c, "LIMIT")
      \/ \E fresh \in Numberings(found) :
            \/ Refuse(c, "FAILED")
            \/ /\ cases' = Reconciled(found, fresh, at) /\ Admissible(Reconciled(found, fresh, at))
               /\ tx' = [tx EXCEPT ![c] = Idle]
               /\ UNCHANGED <<now, evidence, actions>>
  BY DEF Scan, Answer
<1>4. ASSUME NEW fresh \in Numberings(found), cases' = Reconciled(found, fresh, at),
             Admissible(Reconciled(found, fresh, at)), tx' = [tx EXCEPT ![c] = Idle],
             UNCHANGED <<now, evidence, actions>>
      PROVE  RecordsInv'
  <2>1. \A p \in DOMAIN found : /\ p \in DOMAIN evidence /\ found[p] = Facts(evidence[p])
                                /\ IsLeak(evidence[p], at)
    BY <1>2
  <2>2. PICK f, t : f = found /\ t = at
    OBVIOUS
  <2> HIDE DEF found, at
  <2> QED
    BY <1>2, <1>4, <2>1, <2>2, ReconciliationKeepsRecords
<1> HIDE DEF found, at
<1> QED
  BY <1>3, <1>4, RefuseKeepsRecords

\* The rows of an audited case.
LEMMA AuditedFields ==
  ASSUME NEW r \in CaseRows, NEW to, NEW at
  PROVE  LET a == Audited(r, to, at) IN
         /\ a.audit = Append(r.audit, [to |-> to, at |-> at]) /\ a.updated = at
         /\ a.opp = r.opp /\ a.facts = r.facts /\ a.detected = r.detected
         /\ a.state = r.state /\ a.action = r.action
         /\ a = [opp |-> a.opp, facts |-> a.facts, detected |-> a.detected, state |-> a.state,
                 updated |-> a.updated, wake |-> a.wake, pred |-> a.pred, succ |-> a.succ,
                 action |-> a.action, audit |-> a.audit]
<1>1. PICK trail : trail = Append(r.audit, [to |-> to, at |-> at])
  OBVIOUS
<1>2. Audited(r, to, at) = [r EXCEPT !.updated = at, !.audit = trail]
  BY <1>1 DEF Audited
<1> QED
  BY <1>1, <1>2 DEF CaseRows

\* What a human transition that is not refused writes.
LEMMA TransitionWrites ==
  ASSUME NEW c \in Clients, Transition(c), NEW r, r = cases[tx[c].case],
         NEW at, at = tx[c].at, NEW wake, wake = tx[c].more
  PROVE  \/ Refuse(c, "TRANSITION_INVALID")
         \/ /\ r.state = "OPEN" /\ tx[c].op = "snooze"
            /\ Write(c, [Audited(r, "SNOOZED", at) EXCEPT !.state = "SNOOZED", !.wake = wake])
         \/ /\ r.state = "SNOOZED"
            /\ Write(c, [Audited(r, "OPEN", at) EXCEPT !.state = "OPEN", !.wake = NoTime])
         \/ /\ r.state \in ActiveCases
            /\ Write(c, [Audited(r, "DISMISSED", at) EXCEPT !.state = "DISMISSED"])
<1>1. tx[c].op = "snooze" => tx[c].op # "resume" /\ tx[c].op # "dismiss"
  OBVIOUS
<1>2. tx[c].op = "resume" => tx[c].op # "snooze" /\ tx[c].op # "dismiss"
  OBVIOUS
<1>3. tx[c].op = "dismiss" => tx[c].op # "snooze" /\ tx[c].op # "resume"
  OBVIOUS
<1>4. Refuse(c, "TRANSITION_INVALID") \/ MayTransition(r, tx[c].op, at, wake)
  BY DEF Transition
<1>5. CASE ~Refuse(c, "TRANSITION_INVALID")
  <2>1. /\ MayTransition(r, tx[c].op, at, wake)
        /\ \/ /\ tx[c].op = "snooze"
              /\ Write(c, [Audited(r, "SNOOZED", at) EXCEPT !.state = "SNOOZED", !.wake = wake])
           \/ /\ tx[c].op = "resume"
              /\ Write(c, [Audited(r, "OPEN", at) EXCEPT !.state = "OPEN", !.wake = NoTime])
           \/ /\ tx[c].op = "dismiss"
              /\ Write(c, [Audited(r, "DISMISSED", at) EXCEPT !.state = "DISMISSED"])
    BY <1>4, <1>5 DEF Transition
  <2> QED
    BY <1>1, <1>2, <1>3, <2>1, Zenon DEF MayTransition
<1> QED
  BY <1>5

\* A write of one more entry of a case by a request about it.
LEMMA WriteKeepsRecords ==
  ASSUME IInv, RecordsInv, NEW c \in Clients, tx[c].op \in CaseOps, NEW to \in States \cup {"LINKED"},
         LegalEntry(cases[tx[c].case].state, to), NEW d, Write(c, d),
         Adds(cases[tx[c].case], d, to, tx[c].at), d.opp = cases[tx[c].case].opp,
         to = "LINKED" => /\ d.action \in DOMAIN actions /\ actions[d.action].opp = d.opp
                          /\ actions[d.action].created <= tx[c].at
  PROVE  RecordsInv'
<1>1. PICK id, at : id = tx[c].case /\ at = tx[c].at
  OBVIOUS
<1>2. /\ id \in DOMAIN cases /\ at \in 0 .. now /\ cases[id].detected <= at /\ now \in Nat
      /\ cases[id].detected \in Nat
  BY <1>1, CaseOpKnows, CaseRow, Times DEF IInv
<1>3. /\ cases' = [cases EXCEPT ![id] = d] /\ tx' = [tx EXCEPT ![c] = Idle]
      /\ UNCHANGED <<now, evidence, actions>> /\ ActionsStay
  BY <1>1 DEF Write, Answer, ActionsStay
<1>4. /\ Adds(cases[id], d, to, at) /\ d.opp = cases[id].opp /\ LegalEntry(cases[id].state, to)
      /\ at \in cases[id].detected .. now
      /\ to = "LINKED" => /\ d.action \in DOMAIN actions' /\ actions'[d.action].opp = d.opp
                          /\ actions'[d.action].created <= at
  BY <1>1, <1>2, <1>3
<1> QED
  BY <1>2, <1>3, <1>4, CaseGrows

LEMMA TransitionKeepsRecords ==
  ASSUME IInv, RecordsInv, NEW c \in Clients, Transition(c)
  PROVE  RecordsInv'
<1>1. tx[c].op \in CaseOps
  BY DEF Transition, CaseOps
<1>2. PICK r, at, wake : r = cases[tx[c].case] /\ at = tx[c].at /\ wake = tx[c].more
  OBVIOUS
<1>3. r \in CaseRows
  BY <1>1, <1>2, CaseOpKnows, CaseRow DEF IInv
<1>4. ASSUME NEW to \in {"SNOOZED", "OPEN", "DISMISSED"}, NEW b, LegalEntry(r.state, to), Write(c, b),
             \/ b = [Audited(r, to, at) EXCEPT !.state = to]
             \/ \E t : b = [Audited(r, to, at) EXCEPT !.state = to, !.wake = t]
      PROVE  RecordsInv'
  <2>1. PICK a : a = Audited(r, to, at)
    OBVIOUS
  <2>2. /\ a.audit = Append(r.audit, [to |-> to, at |-> at]) /\ a.updated = at
        /\ a.opp = r.opp /\ a.facts = r.facts /\ a.detected = r.detected
        /\ a.state = r.state /\ a.action = r.action
        /\ a = [opp |-> a.opp, facts |-> a.facts, detected |-> a.detected, state |-> a.state,
                updated |-> a.updated, wake |-> a.wake, pred |-> a.pred, succ |-> a.succ,
                action |-> a.action, audit |-> a.audit]
    BY <1>3, <2>1, AuditedFields
  <2>3. b = [a EXCEPT !.state = to] \/ \E t : b = [a EXCEPT !.state = to, !.wake = t]
    BY <1>4, <2>1
  <2>4. /\ b.audit = a.audit /\ b.updated = a.updated /\ b.opp = a.opp /\ b.facts = a.facts
        /\ b.detected = a.detected /\ b.action = a.action /\ b.state = to
    BY <2>2, <2>3
  <2>5. to # "LINKED" /\ to \in States \cup {"LINKED"}
    BY DEF States
  <2>6. Adds(r, b, to, at) /\ b.opp = r.opp
    BY <2>2, <2>4, <2>5 DEF Adds
  <2> QED
    BY <1>1, <1>2, <1>4, <2>5, <2>6, WriteKeepsRecords
<1>5. CASE Refuse(c, "TRANSITION_INVALID")
  BY <1>5, RefuseKeepsRecords
<1>6. CASE r.state = "OPEN"
           /\ Write(c, [Audited(r, "SNOOZED", at) EXCEPT !.state = "SNOOZED", !.wake = wake])
  <2>1. LegalEntry(r.state, "SNOOZED")
    BY <1>6 DEF LegalEntry
  <2>2. PICK b : b = [Audited(r, "SNOOZED", at) EXCEPT !.state = "SNOOZED", !.wake = wake]
    OBVIOUS
  <2>3. Write(c, b)
    BY <1>6, <2>2
  <2> QED
    BY <1>4, <2>1, <2>2, <2>3
<1>7. CASE r.state = "SNOOZED"
           /\ Write(c, [Audited(r, "OPEN", at) EXCEPT !.state = "OPEN", !.wake = NoTime])
  <2>1. LegalEntry(r.state, "OPEN")
    BY <1>7 DEF LegalEntry
  <2>2. PICK b : b = [Audited(r, "OPEN", at) EXCEPT !.state = "OPEN", !.wake = NoTime]
    OBVIOUS
  <2>3. Write(c, b)
    BY <1>7, <2>2
  <2> QED
    BY <1>4, <2>1, <2>2, <2>3
<1>8. CASE r.state \in ActiveCases
           /\ Write(c, [Audited(r, "DISMISSED", at) EXCEPT !.state = "DISMISSED"])
  <2>1. LegalEntry(r.state, "DISMISSED")
    BY <1>8 DEF LegalEntry
  <2>2. PICK b : b = [Audited(r, "DISMISSED", at) EXCEPT !.state = "DISMISSED"]
    OBVIOUS
  <2>3. Write(c, b)
    BY <1>8, <2>2
  <2> QED
    BY <1>4, <2>1, <2>2, <2>3
<1>9. \/ Refuse(c, "TRANSITION_INVALID")
      \/ /\ r.state = "OPEN" /\ tx[c].op = "snooze"
         /\ Write(c, [Audited(r, "SNOOZED", at) EXCEPT !.state = "SNOOZED", !.wake = wake])
      \/ /\ r.state = "SNOOZED"
         /\ Write(c, [Audited(r, "OPEN", at) EXCEPT !.state = "OPEN", !.wake = NoTime])
      \/ /\ r.state \in ActiveCases
         /\ Write(c, [Audited(r, "DISMISSED", at) EXCEPT !.state = "DISMISSED"])
  BY <1>2, TransitionWrites
<1> QED
  BY <1>5, <1>6, <1>7, <1>8, <1>9

\* A row with a link and its action.
LinkedBy(r, at, a) == [Audited(r, "LINKED", at) EXCEPT !.action = a]

LEMMA LinkAdds ==
  ASSUME NEW r \in CaseRows, NEW at, NEW a, a # 0, r.action = 0,
         NEW d, d = LinkedBy(r, at, a)
  PROVE  Adds(r, d, "LINKED", at) /\ d.opp = r.opp /\ d.action = a
<1>0. d = [Audited(r, "LINKED", at) EXCEPT !.action = a]
  BY DEF LinkedBy
<1>1. PICK b : b = Audited(r, "LINKED", at)
  OBVIOUS
<1>2. /\ b.audit = Append(r.audit, [to |-> "LINKED", at |-> at]) /\ b.updated = at
      /\ b.opp = r.opp /\ b.facts = r.facts /\ b.detected = r.detected
      /\ b.state = r.state
      /\ b = [opp |-> b.opp, facts |-> b.facts, detected |-> b.detected, state |-> b.state,
              updated |-> b.updated, wake |-> b.wake, pred |-> b.pred, succ |-> b.succ,
              action |-> b.action, audit |-> b.audit]
  BY <1>1, AuditedFields
<1>3. /\ d.audit = b.audit /\ d.updated = b.updated /\ d.opp = b.opp /\ d.facts = b.facts
      /\ d.detected = b.detected /\ d.state = b.state /\ d.action = a
  BY <1>0, <1>1, <1>2
<1> QED
  BY <1>2, <1>3 DEF Adds

LEMMA LinkKeepsRecords ==
  ASSUME IInv, RecordsInv, NEW c \in Clients, Link(c)
  PROVE  RecordsInv'
<1>1. tx[c].op \in CaseOps /\ tx[c].op = "link"
  BY DEF Link, CaseOps
<1>2. PICK r, at, a : r = cases[tx[c].case] /\ at = tx[c].at /\ a = tx[c].more
  OBVIOUS
<1>3. /\ r \in CaseRows /\ a \in DOMAIN actions /\ a # 0 /\ actions[a].created <= at
      /\ tx[c].case \in DOMAIN cases
  <2>1. r \in CaseRows /\ a \in DOMAIN actions /\ tx[c].case \in DOMAIN cases
    BY <1>1, <1>2, CaseOpKnows, CaseRow DEF IInv
  <2>2. a # 0
    BY <2>1, BoundAssumption DEF IInv, Typed
  <2>3. actions[a].created <= at
    BY <1>1, <1>2 DEF RecordsInv, Read, Idle
  <2> QED
    BY <2>1, <2>2, <2>3
<1>4. CASE \E code : Refuse(c, code)
  BY <1>4, RefuseKeepsRecords
<1>5. CASE Write(c, r)
  <2>1. /\ cases' = [cases EXCEPT ![tx[c].case] = r] /\ tx' = [tx EXCEPT ![c] = Idle]
        /\ UNCHANGED <<now, evidence, actions, milestones, setting>>
    BY <1>5 DEF Write, Answer
  <2>2. cases' = cases
    BY <1>2, <1>3, <2>1 DEF IInv, Typed
  <2> QED
    BY <2>1, <2>2, EndKeepsRecords DEF Store
<1>6. CASE /\ r.state \in ActiveCases /\ r.action \in {0, a} /\ r.action # a /\ actions[a].opp = r.opp
           /\ Write(c, [Audited(r, "LINKED", at) EXCEPT !.action = a])
  <2>1. PICK d : d = [Audited(r, "LINKED", at) EXCEPT !.action = a]
    OBVIOUS
  <2>2. Adds(r, d, "LINKED", at) /\ d.opp = r.opp /\ d.action = a
    <3>1. r.action = 0
      BY <1>6
    <3>2. d = LinkedBy(r, at, a)
      BY <2>1 DEF LinkedBy
    <3> QED
      BY <1>3, <3>1, <3>2, LinkAdds
  <2>3. LegalEntry(r.state, "LINKED") /\ "LINKED" \in States \cup {"LINKED"}
    BY <1>6 DEF LegalEntry
  <2>4. Write(c, d)
    BY <1>6, <2>1
  <2> QED
    BY <1>1, <1>2, <1>3, <1>6, <2>2, <2>3, <2>4, WriteKeepsRecords
<1> QED
  BY <1>2, <1>4, <1>5, <1>6 DEF Link

LEMMA MaterializeKeepsActions ==
  ASSUME IInv, NEW o, NEW a, actions' = Materialized(o, a), now \in Nat
  PROVE  /\ ActionsStay
         /\ a \in DOMAIN actions => actions'[a] = actions[a]
         /\ a \notin DOMAIN actions => actions'[a].created = now
<1>1. /\ DOMAIN actions' = DOMAIN actions \cup {a}
      /\ \A b \in DOMAIN actions \cup {a} : actions'[b] =
            IF b \notin DOMAIN actions
            THEN [opp |-> o, basis |-> Basis(evidence[o]), status |-> "OPEN", created |-> now]
            ELSE IF b \in OpenActions(o) \ {a} THEN [actions[b] EXCEPT !.status = "DONE"]
            ELSE actions[b]
  BY DEF Materialized
<1>2. ASSUME NEW b \in DOMAIN actions
      PROVE  actions'[b].opp = actions[b].opp /\ actions'[b].created = actions[b].created
  <2>1. actions[b] \in ActionRows
    BY DEF IInv, Typed
  <2>2. actions'[b] = [actions[b] EXCEPT !.status = "DONE"] \/ actions'[b] = actions[b]
    BY <1>1
  <2> QED
    BY <2>1, <2>2 DEF ActionRows
<1>3. a \in DOMAIN actions => actions'[a] = actions[a]
  BY <1>1
<1>4. a \notin DOMAIN actions => actions'[a].created = now
  <2> SUFFICES ASSUME a \notin DOMAIN actions PROVE actions'[a].created = now
    OBVIOUS
  <2>1. actions'[a] = [opp |-> o, basis |-> Basis(evidence[o]), status |-> "OPEN", created |-> now]
    BY <1>1
  <2> QED
    BY ONLY <2>1
<1> QED
  BY <1>1, <1>2, <1>3, <1>4 DEF ActionsStay

\* What the commit of a handoff that makes a link writes.
LEMMA LinkCurrentWrites ==
  ASSUME IInv, NEW c \in Clients, tx[c].op \in CaseOps, NEW r, r = cases[tx[c].case],
         r.action = 0, LinkCurrent(c, r), UNCHANGED <<now, evidence>>
  PROVE  \E a, d, flags :
           /\ a \in DOMAIN actions' /\ a # 0 /\ actions'[a].opp = r.opp
           /\ actions'[a].basis = Basis(evidence[r.opp]) /\ actions'[a].created <= now
           /\ ActionsStay
           /\ cases' = [cases EXCEPT ![tx[c].case] = d]
           /\ Adds(r, d, "LINKED", now) /\ d.opp = r.opp /\ d.action = a
           /\ HandoffAnswer(c, d, a, actions'[a], flags)
           /\ flags.created => ~flags.reconciled
<1>1. PICK id : id = tx[c].case
  OBVIOUS
<1>2. /\ id \in DOMAIN cases /\ r \in CaseRows /\ now \in Nat /\ r.detected \in 0 .. now
      /\ r.opp \in DOMAIN evidence
  <2>1. id \in DOMAIN cases /\ r \in CaseRows /\ now \in Nat /\ r.detected \in 0 .. now
    BY <1>1, CaseOpKnows, CaseRow, Times DEF IInv
  <2> QED
    BY <2>1 DEF CaseRows
<1>3. PICK a \in Candidates(r.opp) :
        /\ a <= MaxActions /\ actions' = Materialized(r.opp, a)
        /\ cases' = [cases EXCEPT ![id] = [Audited(r, "LINKED", now) EXCEPT !.action = a]]
        /\ HandoffAnswer(c, [Audited(r, "LINKED", now) EXCEPT !.action = a], a, actions'[a],
               [created |-> a \notin DOMAIN actions, linked |-> TRUE,
                reconciled |-> ~(a \notin DOMAIN actions)])
  BY <1>1, Zenon DEF LinkCurrent
<1>4. PICK d : d = [Audited(r, "LINKED", now) EXCEPT !.action = a]
  OBVIOUS
<1>5. PICK flags : /\ flags = [created |-> a \notin DOMAIN actions, linked |-> TRUE,
                                reconciled |-> ~(a \notin DOMAIN actions)]
                   /\ HandoffAnswer(c, d, a, actions'[a], flags)
  BY <1>3, <1>4
<1>6. flags.created => ~flags.reconciled
  BY <1>5
<1>7. cases' = [cases EXCEPT ![id] = d]
  BY <1>3, <1>4
<1>8. PICK b : b = Audited(r, "LINKED", now)
  OBVIOUS
<1>9. /\ b \in CaseRows /\ b.detected = r.detected
  <2>1. now \in 0 .. now /\ "LINKED" \in States \cup {"LINKED"}
    BY <1>2
  <2> QED
    BY <1>2, <1>8, <2>1, AuditedRow
<1>10. d.detected = r.detected
  BY <1>4, <1>8, <1>9 DEF CaseRows
<1>11. DOMAIN cases \subseteq DOMAIN cases' /\ \A i \in DOMAIN cases : cases'[i].detected = cases[i].detected
  BY <1>1, <1>2, <1>7, <1>10 DEF IInv, Typed
<1>12. /\ a \in DOMAIN actions' /\ a # 0 /\ actions'[a].opp = r.opp
       /\ actions'[a].basis = Basis(evidence[r.opp])
  BY <1>2, <1>3, <1>11, MaterializedRows DEF IInv
<1>13. Adds(r, d, "LINKED", now) /\ d.opp = r.opp /\ d.action = a
  <2>1. PICK t : t = now
    OBVIOUS
  <2>2. d = LinkedBy(r, t, a) /\ r.action = 0
    BY <1>4, <2>1 DEF LinkedBy
  <2> HIDE DEF LinkedBy
  <2> QED
    BY <1>2, <1>12, <2>1, <2>2, LinkAdds
<1>14. ActionsStay /\ actions'[a].created <= now
  <2>1. /\ ActionsStay
        /\ a \in DOMAIN actions => actions'[a] = actions[a]
        /\ a \notin DOMAIN actions => actions'[a].created = now
    BY <1>2, <1>3, MaterializeKeepsActions
  <2>2. a \in DOMAIN actions => actions[a].created <= now
    BY <1>2 DEF IInv, Typed, ActionRows
  <2> QED
    BY <1>2, <2>1, <2>2
<1> QED
  BY <1>1, <1>5, <1>6, <1>7, <1>12, <1>13, <1>14

LEMMA HandoffKeepsRecords ==
  ASSUME IInv, RecordsInv, NEW c \in Clients, Handoff(c)
  PROVE  RecordsInv'
<1>1. PICK id, r : id = tx[c].case /\ r = cases[id]
  OBVIOUS
<1>2. tx[c].op \in CaseOps /\ id \in DOMAIN cases /\ now \in Nat /\ r.detected \in 0 .. now
  BY <1>1, CaseOpKnows, CaseRow, Times DEF Handoff, CaseOps, IInv
<1>3. CASE \E code : Refuse(c, code)
  BY <1>3, RefuseKeepsRecords
<1>4. \/ \E code : Refuse(c, code)
      \/ ReplayHandoff(c, r) /\ UNCHANGED <<now, evidence, setting>>
      \/ /\ r.state \in ActiveCases /\ r.action = 0
         /\ LinkCurrent(c, r) /\ UNCHANGED <<now, evidence, setting>>
  BY <1>1, Zenon DEF Handoff
<1>5. CASE ReplayHandoff(c, r) /\ UNCHANGED <<now, evidence, setting>> /\ ~(\E code : Refuse(c, code))
  <2>1. UNCHANGED <<now, evidence, cases, actions>> /\ tx' = [tx EXCEPT ![c] = Idle]
    BY <1>5 DEF ReplayHandoff, HandoffAnswer, Answer
  <2>2. now' \in Nat /\ now <= now' /\ IsFiniteSet(DOMAIN evidence') /\ ActionsStay
    BY <1>2, <2>1 DEF RecordsInv, ActionsStay
  <2>3. \E q : tx' = [tx EXCEPT ![c] = q] /\ Read(q)'
    BY <2>1, IdleReads
  <2>4. \A i \in DOMAIN cases' : \/ i \in DOMAIN cases /\ cases'[i] = cases[i]
                                 \/ (Recorded(cases[i]) /\ Linked(cases[i]))'
    BY <2>1
  <2> QED
    BY <2>2, <2>3, <2>4, RecordsStay
<1>6. CASE /\ r.state \in ActiveCases /\ r.action = 0
           /\ LinkCurrent(c, r) /\ UNCHANGED <<now, evidence, setting>>
  <2>1. PICK a, d, flags :
           /\ a \in DOMAIN actions' /\ a # 0 /\ actions'[a].opp = r.opp
           /\ actions'[a].basis = Basis(evidence[r.opp]) /\ actions'[a].created <= now
           /\ ActionsStay
           /\ cases' = [cases EXCEPT ![tx[c].case] = d]
           /\ Adds(r, d, "LINKED", now) /\ d.opp = r.opp /\ d.action = a
           /\ HandoffAnswer(c, d, a, actions'[a], flags)
           /\ flags.created => ~flags.reconciled
    BY <1>1, <1>2, <1>6, LinkCurrentWrites
  <2>2. LegalEntry(r.state, "LINKED") /\ "LINKED" \in States \cup {"LINKED"}
    BY <1>6 DEF LegalEntry
  <2>3. PICK at : at = now /\ at \in cases[id].detected .. now
    BY <1>1, <1>2
  <2>4. /\ Adds(cases[id], d, "LINKED", at) /\ d.opp = cases[id].opp
        /\ LegalEntry(cases[id].state, "LINKED") /\ cases' = [cases EXCEPT ![id] = d]
        /\ d.action \in DOMAIN actions' /\ actions'[d.action].opp = d.opp
        /\ actions'[d.action].created <= at
    BY <1>1, <2>1, <2>2, <2>3
  <2>5. tx' = [tx EXCEPT ![c] = Idle] /\ UNCHANGED <<now, evidence>>
    BY <1>6, <2>1 DEF HandoffAnswer, Answer
  <2> QED
    BY <1>2, <2>1, <2>2, <2>3, <2>4, <2>5, CaseGrows
<1> QED
  BY <1>3, <1>4, <1>5, <1>6

\* What happens outside of the requests writes no case.
LEMMA OutsideKeepsRecords ==
  ASSUME IInv, RecordsInv, ActionsStay, now' \in Nat, now <= now',
         IsFiniteSet(DOMAIN evidence'), UNCHANGED <<cases, tx>>
  PROVE  RecordsInv'
<1>1. \A id \in DOMAIN cases' :
            \/ id \in DOMAIN cases /\ cases'[id] = cases[id]
            \/ (Recorded(cases[id]) /\ Linked(cases[id]))'
  OBVIOUS
<1> QED
  BY <1>1, RecordsStay

LEMMA EventsKeepRecords ==
  ASSUME IInv, RecordsInv,
         \/ \E o \in DOMAIN evidence : EditCrm(o) \/ Materialize(o)
         \/ \E a \in DOMAIN actions : FinishAction(a)
         \/ Create \/ Tick \/ UNCHANGED vars
  PROVE  RecordsInv'
<1>1. now \in Nat /\ IsFiniteSet(DOMAIN evidence)
  BY Times DEF IInv, RecordsInv
<1>2. ASSUME NEW o \in DOMAIN evidence, EditCrm(o) PROVE RecordsInv'
  <2>1. UNCHANGED <<now, actions, cases, tx>> /\ DOMAIN evidence' = DOMAIN evidence
    BY <1>2 DEF EditCrm
  <2>2. ActionsStay
    BY <2>1 DEF ActionsStay
  <2> QED
    BY <1>1, <2>1, <2>2, OutsideKeepsRecords
<1>3. ASSUME NEW o \in DOMAIN evidence, Materialize(o) PROVE RecordsInv'
  <2>1. PICK a : actions' = Materialized(o, a)
    BY <1>3 DEF Materialize
  <2>2. UNCHANGED <<now, evidence, cases, tx>>
    BY <1>3 DEF Materialize
  <2>3. ActionsStay
    BY <1>1, <2>1, MaterializeKeepsActions
  <2> QED
    BY <1>1, <2>2, <2>3, OutsideKeepsRecords
<1>4. ASSUME NEW a \in DOMAIN actions, FinishAction(a) PROVE RecordsInv'
  <2>1. UNCHANGED <<now, cases, tx>> /\ DOMAIN evidence' = DOMAIN evidence
    BY <1>4 DEF FinishAction
  <2>2. actions' = [actions EXCEPT ![a].status = "DONE"]
    BY <1>4 DEF FinishAction
  <2>3. ActionsStay
    <3>1. \A b \in DOMAIN actions : actions[b] \in ActionRows
      BY DEF IInv, Typed
    <3> QED
      BY <2>2, <3>1 DEF ActionsStay, ActionRows
  <2> QED
    BY <1>1, <2>1, <2>3, OutsideKeepsRecords
<1>5. CASE Create
  <2>1. PICK o : DOMAIN evidence' = DOMAIN evidence \cup {o}
    BY <1>5 DEF Create
  <2>2. IsFiniteSet(DOMAIN evidence')
    BY <1>1, <2>1, FS_AddElement
  <2>3. UNCHANGED <<now, actions, cases, tx>>
    BY <1>5 DEF Create
  <2>4. ActionsStay
    BY <2>3 DEF ActionsStay
  <2> QED
    BY <1>1, <2>2, <2>3, <2>4, OutsideKeepsRecords
<1>6. CASE Tick
  <2>1. UNCHANGED <<evidence, actions, cases, tx>> /\ now' = now + 1
    BY <1>6 DEF Tick
  <2>2. ActionsStay
    BY <2>1 DEF ActionsStay
  <2> QED
    BY <1>1, <2>1, <2>2, OutsideKeepsRecords
<1>7. CASE UNCHANGED vars
  <2>1. UNCHANGED <<now, evidence, actions, cases, tx>>
    BY <1>7 DEF vars
  <2>2. ActionsStay
    BY <2>1 DEF ActionsStay
  <2> QED
    BY <1>1, <2>1, <2>2, OutsideKeepsRecords
<1> QED
  BY <1>2, <1>3, <1>4, <1>5, <1>6, <1>7

LEMMA StepsKeepRecords ==
  ASSUME IInv, RecordsInv, [Next]_vars
  PROVE  RecordsInv'
<1>1. ASSUME NEW c \in Clients, Abort(c) PROVE RecordsInv'
  BY <1>1, EndKeepsRecords DEF Abort
<1>2. ASSUME NEW c \in Clients, AnswerEligibility(c) \/ AnswerList(c) PROVE RecordsInv'
  BY <1>2, EndKeepsRecords DEF AnswerEligibility, AnswerList, Answer
<1>3. ASSUME NEW c \in Clients, AnswerQueue(c) PROVE RecordsInv'
  <2>1. (\E code : Refuse(c, code)) \/ (tx' = [tx EXCEPT ![c] = Idle] /\ UNCHANGED Store)
    BY <1>3 DEF AnswerQueue, Answer
  <2> QED
    BY <2>1, RefuseKeepsRecords, EndKeepsRecords
<1>4. ASSUME NEW c \in Clients,
             \/ Begin(c) \/ Abort(c)
             \/ Detect(c) \/ Enumerate(c) \/ Scan(c)
             \/ ReadActivities(c) \/ ReadTasks(c) \/ AnswerEligibility(c) \/ AnswerQueue(c) \/ AnswerList(c)
             \/ Transition(c) \/ Link(c) \/ Handoff(c)
      PROVE  RecordsInv'
  BY <1>1, <1>2, <1>3, <1>4, BeginKeepsRecords, DetectKeepsRecords, EnumerateKeepsRecords,
     ScanKeepsRecords, ChildrenKeepRecords, TransitionKeepsRecords, LinkKeepsRecords,
     HandoffKeepsRecords
<1> QED
  BY <1>4, EventsKeepRecords DEF Next

LEMMA RecordsInitially ==
  ASSUME Init
  PROVE  RecordsInv
<1>1. cases = <<>> /\ tx = [c \in Clients |-> Idle] /\ setting \in Settings /\ evidence = setting.evidence
  BY DEF Init
<1>2. IsFiniteSet(DOMAIN evidence)
  BY <1>1, SettingAssumption
<1>3. \A c \in Clients : Read(tx[c])
  <2> SUFFICES ASSUME NEW c \in Clients PROVE Read(tx[c])
    OBVIOUS
  <2>1. tx[c] = Idle
    BY <1>1
  <2> QED
    BY <2>1 DEF Read
<1>4. DOMAIN cases = {}
  BY <1>1
<1> QED
  BY <1>2, <1>3, <1>4 DEF RecordsInv

\* What every case says of itself, in every state of PostgresLeakCases.
THEOREM Records == Spec => []RecordsInv
<1>1. Init => IInv /\ RecordsInv
  BY Initially, RecordsInitially
<1>2. (IInv /\ RecordsInv) /\ [Next]_vars => (IInv /\ RecordsInv)'
  BY Inductive, StepsKeepRecords
<1> QED
  BY <1>1, <1>2, PTL DEF Spec

-----------------------------------------------------------------------------
(* Answers about cases                                                     *)

\* What AnswersAreReadable says of an answer.
Excused == \E id \in DOMAIN cases' : ~Chronological(cases'[id].audit)

ReplyReads ==
    \/ Readable(reply', now)
    \/ reply'.op = "detect" /\ Reason(evidence[reply'.opp], now) # reply'.reason
    \/ Excused

\* The browser reads every case there is.
LEMMA CaseReads ==
  ASSUME IInv, IInv', RecordsInv', now' = now, NEW r, NEW id \in DOMAIN cases', r = cases'[id], ~Excused
  PROVE  CaseReadable(r, r.opp, now)
<1>1. /\ now \in Nat /\ now <= now
      /\ r.detected \in Nat /\ r.detected <= now
  <2>1. Typed' /\ id \in DOMAIN cases'
    BY DEF IInv
  <2>2. now \in Nat
    BY Times DEF IInv
  <2>3. (cases[id].detected \in 0 .. now)'
    <3>1. cases'[id] \in CaseRows'
      BY <2>1 DEF Typed
    <3> QED
      BY <3>1 DEF CaseRows
  <2> QED
    BY <2>2, <2>3
<1>2. Recorded(r)'
  BY DEF RecordsInv, Recorded
<1>3. Recorded(r)
  BY <1>2 DEF Recorded
<1>4. Chronological(r.audit)
  BY DEF Excused
<1> QED
  BY <1>1, <1>3, <1>4, CaseStands

\* The case that a reconciliation gives a leak.
LEMMA CaseOfLeak ==
  ASSUME IInv, NEW found, NEW fresh \in Numberings(found), NEW at, cases' = Reconciled(found, fresh, at),
         NEW o \in DOMAIN found, NEW id,
         o \in DOMAIN fresh => id = fresh[o],
         o \notin DOMAIN fresh => id = The(ReplayedCase(o, found[o]))
  PROVE  id \in DOMAIN cases' /\ id # 0 /\ cases'[id].opp = o /\ cases'[id].facts = found[o]
<1>1. Written(cases', found, fresh, at)
  BY ReconciledRows
<1>2. CASE o \in DOMAIN fresh
  <2>1. cases'[fresh[o]].opp = o /\ cases'[fresh[o]].facts = found[o]
    BY <1>1, <1>2, WrittenFields DEF IInv
  <2>2. fresh[o] \in 1 .. MaxCases /\ fresh[o] \in DOMAIN cases'
    BY <1>1, <1>2 DEF Written, Opened
  <2> QED
    BY <1>2, <2>1, <2>2
<1>3. CASE o \notin DOMAIN fresh
  <2>1. ReplayedCase(o, found[o]) # {}
    BY <1>3 DEF Numberings
  <2>2. id \in ReplayedCase(o, found[o])
    BY <1>3, <2>1 DEF The
  <2>3. id \in DOMAIN cases /\ cases[id].opp = o /\ cases[id].facts = found[o]
    BY <2>2 DEF ReplayedCase, Predecessor, Active, Newest, Series
  <2>4. cases'[id].opp = o /\ cases'[id].facts = found[o] /\ id \in DOMAIN cases'
    BY <1>1, <2>3, WrittenFields DEF IInv, Written
  <2>5. id # 0
    BY <2>3, CaseRow DEF IInv
  <2> QED
    BY <2>4, <2>5
<1> QED
  BY <1>2, <1>3

\* The answer of a detection.
LEMMA DetectionReads ==
  ASSUME IInv, NEW o \in DOMAIN evidence, NEW at, NEW case, NEW created, NEW a,
         a = DetectionAnswer(o, at, case, created), Reason(evidence[o], now) = Reason(evidence[o], at),
         IsLeak(evidence[o], at) => case # {},
         ~IsLeak(evidence[o], at) => case = {},
         \A r \in case : CaseReadable(r, o, now) /\ r.facts = Facts(evidence[o])
  PROVE  DetectionReadable(a, now)
<1>1. PICK e, r, outcome, facts : e = evidence[o] /\ r = Reason(e, at) /\ outcome = OutcomeOf(r)
                           /\ facts = Facts(e)
  OBVIOUS
<1>2. /\ a.opp = o /\ a.outcome = outcome /\ a.reason = r /\ a.case = case
      /\ outcome \in {"LEAK", "NO_LEAK"} => a.facts = {facts}
      /\ outcome \notin {"LEAK", "NO_LEAK"} => a.facts = {}
  BY <1>1 DEF DetectionAnswer, Evaluation
<1>3. IsLeak(e, at) <=> outcome = "LEAK"
  <2>1. OutcomeOf(r) = "LEAK" <=> r = "STALE_WITHOUT_NEXT_ACTION"
    BY DEF OutcomeOf
  <2> QED
    BY <1>1, <2>1 DEF IsLeak
<1>4. \A f \in a.facts : EvidenceReadable(f, r, now)
  <2> SUFFICES ASSUME outcome \in {"LEAK", "NO_LEAK"} PROVE EvidenceReadable(facts, r, now)
    BY <1>2
  <2>1. e \in Evidence(Nat) /\ now \in Nat
    BY <1>1, Times DEF IInv, Typed
  <2>2. OutcomeOf(Reason(e, now)) \in {"LEAK", "NO_LEAK"} /\ Reason(e, now) = r
    BY <1>1
  <2>3. EvidenceReadable(Facts(e), Reason(e, now), now)
    BY <2>1, <2>2, EvidenceStands
  <2> QED
    BY <1>1, <2>2, <2>3
<1> QED
  BY <1>1, <1>2, <1>3, <1>4 DEF DetectionReadable

DetectedAs(o, at, rows, flag) ==
    /\ reply' = DetectionAnswer(o, at, rows, flag)
    /\ IsLeak(evidence[o], at) => rows # {}
    /\ ~IsLeak(evidence[o], at) => rows = {}
    /\ \/ Excused
       \/ \A r \in rows : CaseReadable(r, o, now) /\ r.facts = Facts(evidence[o])

LEMMA DetectReads ==
  ASSUME IInv, IInv', RecordsInv', NEW c \in Clients, Detect(c), reply'.op = "detect"
  PROVE  ReplyReads
<1>1. PICK o, at : o = tx[c].opp /\ at = tx[c].at
  OBVIOUS
<1> DEFINE found == [p \in {o} |-> Facts(evidence[p])]
<1>2. o \in DOMAIN evidence
  <2>1. tx[c].op = "detect" /\ tx[c] # Idle
    BY DEF Detect, Idle
  <2> QED
    BY <1>1, <2>1 DEF IInv, Knows
<1>3. \A code : ~Refuse(c, code)
  BY DEF Refuse, Answer
<1>4. \/ /\ ~IsLeak(evidence[o], at)
         /\ reply' = DetectionAnswer(o, at, {}, FALSE)
      \/ /\ IsLeak(evidence[o], at) /\ now' = now
         /\ \E fresh \in Numberings(found) : \E id :
              /\ o \in DOMAIN fresh => id = fresh[o]
              /\ o \notin DOMAIN fresh => id = The(ReplayedCase(o, found[o]))
              /\ cases' = Reconciled(found, fresh, at)
              /\ reply' = DetectionAnswer(o, at, {cases'[id]}, o \in DOMAIN fresh)
  <2>1. \/ /\ ~IsLeak(evidence[o], at)
           /\ reply' = DetectionAnswer(o, at, {}, FALSE)
        \/ /\ IsLeak(evidence[o], at)
           /\ \E fresh \in Numberings(found) :
                /\ cases' = Reconciled(found, fresh, at) /\ now' = now
                /\ reply' = DetectionAnswer(o, at,
                      {Reconciled(found, fresh, at)[IF o \in DOMAIN fresh THEN fresh[o]
                             ELSE The(ReplayedCase(o, found[o]))]}, o \in DOMAIN fresh)
    BY <1>1, <1>3, Zenon DEF Detect, Answer
  <2> HIDE DEF found
  <2>2. ASSUME NEW fresh \in Numberings(found),
               cases' = Reconciled(found, fresh, at),
               reply' = DetectionAnswer(o, at,
                      {Reconciled(found, fresh, at)[IF o \in DOMAIN fresh THEN fresh[o]
                             ELSE The(ReplayedCase(o, found[o]))]}, o \in DOMAIN fresh)
        PROVE  \E id :
              /\ o \in DOMAIN fresh => id = fresh[o]
              /\ o \notin DOMAIN fresh => id = The(ReplayedCase(o, found[o]))
              /\ reply' = DetectionAnswer(o, at, {cases'[id]}, o \in DOMAIN fresh)
    <3>1. PICK id : id = IF o \in DOMAIN fresh THEN fresh[o] ELSE The(ReplayedCase(o, found[o]))
      OBVIOUS
    <3>2. reply' = DetectionAnswer(o, at, {cases'[id]}, o \in DOMAIN fresh)
      BY <2>2, <3>1, Zenon
    <3> QED
      BY <3>1, <3>2
  <2> QED
    BY <2>1, <2>2
<1>5. PICK flag, rows : DetectedAs(o, at, rows, flag)
  <2>1. CASE /\ ~IsLeak(evidence[o], at)
             /\ reply' = DetectionAnswer(o, at, {}, FALSE)
    <3>1. DetectedAs(o, at, {}, FALSE)
      BY <2>1, Zenon DEF DetectedAs
    <3> QED
      BY <3>1, Zenon
  <2>2. ASSUME IsLeak(evidence[o], at), now' = now, NEW fresh \in Numberings(found), NEW id,
               o \in DOMAIN fresh => id = fresh[o],
               o \notin DOMAIN fresh => id = The(ReplayedCase(o, found[o])),
               cases' = Reconciled(found, fresh, at)
        PROVE  Excused \/ (CaseReadable(cases'[id], o, now) /\ cases'[id].facts = Facts(evidence[o]))
    <3>1. o \in DOMAIN found /\ found[o] = Facts(evidence[o])
      OBVIOUS
    <3>2. PICK f : f = found
      OBVIOUS
    <3> HIDE DEF found
    <3>3. id \in DOMAIN cases' /\ cases'[id].opp = o /\ cases'[id].facts = found[o]
      BY <2>2, <3>1, <3>2, CaseOfLeak
    <3>4. PICK r : r = cases'[id]
      OBVIOUS
    <3>5. Excused \/ CaseReadable(r, r.opp, now)
      BY <2>2, <3>3, <3>4, CaseReads
    <3> QED
      BY <3>1, <3>3, <3>4, <3>5
  <2> HIDE DEF found
  <2> QED
    <3>1. CASE IsLeak(evidence[o], at)
      <4>1. PICK fresh, id :
              /\ fresh \in Numberings(found)
              /\ o \in DOMAIN fresh => id = fresh[o]
              /\ o \notin DOMAIN fresh => id = The(ReplayedCase(o, found[o]))
              /\ cases' = Reconciled(found, fresh, at) /\ now' = now
              /\ reply' = DetectionAnswer(o, at, {cases'[id]}, o \in DOMAIN fresh)
        BY <1>4, <3>1
      <4>2. Excused \/ (CaseReadable(cases'[id], o, now) /\ cases'[id].facts = Facts(evidence[o]))
        BY <2>2, <3>1, <4>1
      <4>3. DetectedAs(o, at, {cases'[id]}, o \in DOMAIN fresh)
        BY <3>1, <4>1, <4>2, Zenon DEF DetectedAs
      <4> QED
        BY <4>3, Zenon
    <3>2. CASE ~IsLeak(evidence[o], at)
      BY <1>4, <2>1, <3>2
    <3> QED
      BY <3>1, <3>2
<1>6. reply'.op = "detect" /\ reply'.opp = o /\ reply'.reason = Reason(evidence[o], at)
  <2>1. PICK outcome, reason, facts : /\ reason = Reason(evidence[o], at)
                                      /\ outcome = Evaluation(evidence[o], at).outcome
                                      /\ facts = Evaluation(evidence[o], at).facts
    OBVIOUS
  <2>2. Evaluation(evidence[o], at).reason = reason
    BY <2>1 DEF Evaluation
  <2>3. reply' = [op |-> "detect", opp |-> o, at |-> at, outcome |-> outcome,
                  reason |-> reason, facts |-> facts, case |-> rows, created |-> flag]
    <3>1. reply' = DetectionAnswer(o, at, rows, flag)
      BY <1>5 DEF DetectedAs
    <3> HIDE DEF found
    <3> QED
      BY <2>1, <2>2, <3>1, Zenon DEF DetectionAnswer
  <2> QED
    BY <2>1, <2>3
<1>7. CASE ~Excused /\ Reason(evidence[o], now) = Reason(evidence[o], at)
  <2>1. PICK a : a = reply'
    OBVIOUS
  <2>2. a = DetectionAnswer(o, at, rows, flag)
    BY <1>5, <2>1 DEF DetectedAs
  <2> HIDE DEF found
  <2>3. DetectionReadable(a, now)
    BY <1>2, <1>5, <1>7, <2>2, DetectionReads DEF DetectedAs
  <2> QED
    BY <1>6, <2>1, <2>3 DEF ReplyReads, Readable
<1> QED
  BY <1>6, <1>7 DEF ReplyReads

LEMMA ListReads ==
  ASSUME IInv, IInv', RecordsInv', NEW c \in Clients, AnswerList(c)
  PROVE  ReplyReads
<1>1. PICK o : o = tx[c].opp
  OBVIOUS
<1>2. /\ reply' = [op |-> "list", opp |-> o, at |-> tx[c].at,
                   cases |-> [id \in Series(o) |-> cases[id]]]
      /\ UNCHANGED <<now, cases>>
  BY <1>1 DEF AnswerList, Answer, Store
<1>3. PICK rows : rows = [id \in Series(o) |-> cases[id]]
  OBVIOUS
<1>4. reply'.op = "list" /\ reply'.cases = rows /\ reply'.opp = o
  BY <1>2, <1>3
<1>5. ASSUME ~Excused, NEW id \in DOMAIN rows PROVE CaseReadable(rows[id], o, now)
  <2>1. id \in DOMAIN cases' /\ rows[id] = cases'[id] /\ cases'[id].opp = o
    BY <1>2, <1>3 DEF Series
  <2> QED
    BY <1>2, <1>5, <2>1, CaseReads
<1> QED
  BY <1>4, <1>5 DEF ReplyReads, Readable, ListReadable

LEMMA MutationReads ==
  ASSUME IInv, IInv', RecordsInv', NEW c \in Clients, Transition(c) \/ Link(c), reply'.op = "mutation"
  PROVE  ReplyReads
<1>1. \A code : ~Refuse(c, code)
  BY DEF Refuse, Answer
<1>2. PICK r : Write(c, r)
  BY <1>1, Zenon DEF Transition, Link
<1>3. tx[c].case \in DOMAIN cases
  <2>1. tx[c].op \in CaseOps
    BY DEF Transition, Link, CaseOps
  <2> QED
    BY <2>1, CaseOpKnows
<1>4. PICK id : id = tx[c].case
  OBVIOUS
<1>5. /\ reply' = [op |-> "mutation", at |-> tx[c].at, case |-> r] /\ now' = now
      /\ cases' = [cases EXCEPT ![id] = r]
  BY <1>2, <1>4 DEF Write, Answer
<1>6. id \in DOMAIN cases' /\ r = cases'[id]
  BY <1>3, <1>4, <1>5
<1>7. Excused \/ CaseReadable(r, r.opp, now)
  BY <1>5, <1>6, CaseReads
<1>8. reply'.op = "mutation" /\ reply'.case = r
  BY <1>5
<1> QED
  BY <1>7, <1>8 DEF ReplyReads, Readable, MutationReadable

\* The answer of a handoff.
LEMMA HandedReads ==
  ASSUME NEW c, NEW r, NEW a, NEW made, NEW flags, HandoffAnswer(c, r, a, made, flags),
         flags.created => ~flags.reconciled, made.basis.type = "CREATE_TASK", made.opp = r.opp,
         now \in Nat, made.created <= now, CaseReadable(r, r.opp, now), r.action = a,
         \E i \in Links(r.audit) : r.audit[i].at >= made.created
  PROVE  ReplyReads
<1>1. reply' = [op |-> "handoff", at |-> tx[c].at, case |-> r, action |-> a,
               made |-> [type |-> made.basis.type, opp |-> made.opp,
                         created |-> made.created],
               created |-> flags.created, linked |-> flags.linked,
               reconciled |-> flags.reconciled]
  BY DEF HandoffAnswer, Answer
<1>2. PICK t, o, at : t = made.basis.type /\ o = made.opp /\ at = made.created
  OBVIOUS
<1>3. /\ reply'.op = "handoff" /\ reply'.case = r /\ reply'.action = a
      /\ reply'.made = [type |-> t, opp |-> o, created |-> at]
      /\ reply'.created = flags.created /\ reply'.reconciled = flags.reconciled
  BY <1>1, <1>2
<1>4. reply'.made.type = "CREATE_TASK" /\ reply'.made.opp = r.opp /\ reply'.made.created = at
  BY <1>2, <1>3
<1>5. \E i \in DOMAIN r.audit : r.audit[i].to = "LINKED" /\ r.audit[i].at >= at
  BY <1>2 DEF Links
<1>6. HandoffReadable(reply', now)
  BY <1>2, <1>3, <1>4, <1>5 DEF HandoffReadable
<1> QED
  BY <1>3, <1>6 DEF ReplyReads, Readable

LEMMA HandoffReads ==
  ASSUME IInv, RecordsInv, IInv', RecordsInv', NEW c \in Clients, Handoff(c), reply'.op = "handoff"
  PROVE  ReplyReads
<1>1. PICK id, r : id = tx[c].case /\ r = cases[id]
  OBVIOUS
<1>2. /\ tx[c].op \in CaseOps /\ id \in DOMAIN cases /\ r \in CaseRows /\ now \in Nat
      /\ r.action \in {0} \cup DOMAIN actions
  <2>1. tx[c].op \in CaseOps
    BY DEF Handoff, CaseOps
  <2>2. id \in DOMAIN cases /\ r \in CaseRows /\ now \in Nat
    BY <1>1, <2>1, CaseOpKnows, CaseRow, Times DEF IInv
  <2> QED
    BY <2>1, <2>2 DEF CaseRows
<1>3. \A code : ~Refuse(c, code)
  BY DEF Refuse, Answer
<1>4. \/ r.action # 0 /\ ReplayHandoff(c, r) /\ UNCHANGED <<now, evidence>>
      \/ /\ r.action = 0 /\ Basis(evidence[r.opp]).type = "CREATE_TASK"
         /\ LinkCurrent(c, r) /\ UNCHANGED <<now, evidence>>
  BY <1>1, <1>3, Zenon DEF Handoff
<1>5. CASE r.action # 0 /\ ReplayHandoff(c, r) /\ UNCHANGED <<now, evidence>>
  <2>1. PICK a, made, flags :
           /\ a = r.action /\ made = actions[a]
           /\ flags = [created |-> FALSE, linked |-> FALSE, reconciled |-> TRUE]
    OBVIOUS
  <2>2. /\ made.basis.type = "CREATE_TASK" /\ HandoffAnswer(c, r, a, made, flags)
        /\ UNCHANGED <<cases, actions>>
    BY <1>3, <1>5, <2>1, Zenon DEF ReplayHandoff
  <2>3. flags.created => ~flags.reconciled
    BY <2>1
  <2>4. made.opp = r.opp /\ \E i \in Links(r.audit) : r.audit[i].at >= made.created
    BY <1>1, <1>2, <1>5, <2>1 DEF RecordsInv, Linked
  <2>5. made.created <= now
    <3>1. made \in ActionRows
      BY <1>2, <1>5, <2>1 DEF IInv, Typed
    <3> QED
      BY <1>2, <3>1 DEF ActionRows
  <2>6. Excused \/ CaseReadable(r, r.opp, now)
    <3>1. id \in DOMAIN cases' /\ r = cases'[id] /\ now' = now
      BY <1>1, <1>2, <1>5, <2>2
    <3> QED
      BY <3>1, CaseReads
  <2>7. CASE Excused
    BY <2>7 DEF ReplyReads
  <2> QED
    BY <1>2, <2>1, <2>2, <2>3, <2>4, <2>5, <2>6, <2>7, HandedReads
<1>6. CASE /\ r.action = 0 /\ Basis(evidence[r.opp]).type = "CREATE_TASK"
           /\ LinkCurrent(c, r) /\ UNCHANGED <<now, evidence>>
  <2>1. PICK a, d, flags :
           /\ a \in DOMAIN actions' /\ a # 0 /\ actions'[a].opp = r.opp
           /\ actions'[a].basis = Basis(evidence[r.opp]) /\ actions'[a].created <= now
           /\ ActionsStay
           /\ cases' = [cases EXCEPT ![tx[c].case] = d]
           /\ Adds(r, d, "LINKED", now) /\ d.opp = r.opp /\ d.action = a
           /\ HandoffAnswer(c, d, a, actions'[a], flags)
           /\ flags.created => ~flags.reconciled
    BY <1>1, <1>2, <1>6, LinkCurrentWrites
  <2>2. PICK made : made = actions'[a]
    OBVIOUS
  <2>3. /\ HandoffAnswer(c, d, a, made, flags) /\ made.basis.type = "CREATE_TASK"
        /\ made.opp = d.opp /\ made.created <= now
    BY <1>6, <2>1, <2>2
  <2>4. id \in DOMAIN cases' /\ d = cases'[id] /\ now' = now
    BY <1>1, <1>2, <1>6, <2>1
  <2>5. Excused \/ CaseReadable(d, d.opp, now)
    BY <2>4, CaseReads
  <2>6. \E i \in Links(d.audit) : d.audit[i].at >= made.created
    <3>1. Linked(d)'
      BY <2>4 DEF RecordsInv, Linked
    <3> QED
      BY <2>1, <2>2, <3>1 DEF Linked
  <2>7. CASE Excused
    BY <2>7 DEF ReplyReads
  <2> QED
    BY <1>2, <2>1, <2>3, <2>5, <2>6, <2>7, HandedReads
<1> QED
  BY <1>4, <1>5, <1>6

-----------------------------------------------------------------------------
(* The answer of a scan                                                    *)

\* An item of a scan that gave these numbers to new cases.
ScanItem(item, o, fresh, at) ==
    LET r == Reason(evidence[o], at)
    IN  /\ item.reason = r /\ item.outcome = OutcomeOf(r)
        /\ OutcomeOf(r) # "LEAK" => item.disposition = "READ_ONLY" /\ item.case = 0
        /\ OutcomeOf(r) = "LEAK" /\ o \notin DOMAIN fresh =>
             /\ item.disposition = "REPLAYED"
             /\ item.case = The(ReplayedCase(o, Facts(evidence[o])))
        /\ OutcomeOf(r) = "LEAK" /\ o \in DOMAIN fresh =>
             /\ item.case = fresh[o]
             /\ The(Active(o)) # 0 => item.disposition = "SUPERSEDED"
             /\ The(Active(o)) = 0 => item.disposition = "CREATED"
        /\ o \in DOMAIN fresh => item.old = The(Active(o))
        /\ o \notin DOMAIN fresh => item.old = 0

Disposed(results, d) == {o \in DOMAIN results : results[o].disposition = d}

\* The answer of a scan, field by field.
ScanFields(a, scanned, fresh, at) ==
    /\ a.op = "scan" /\ a.at = at /\ a.total = Cardinality(scanned) /\ DOMAIN a.results = scanned
    /\ \A o \in scanned : ScanItem(a.results[o], o, fresh, at)
    /\ a.outcomes = CountBy(a.results, Outcomes, LAMBDA x : x.outcome)
    /\ a.detected = a.outcomes["LEAK"]
    /\ a.created = Cardinality(Disposed(a.results, "CREATED"))
    /\ a.replayed = Cardinality(Disposed(a.results, "REPLAYED"))
    /\ a.superseded = Cardinality(Disposed(a.results, "SUPERSEDED"))

LEMMA ScanAnswered ==
  ASSUME NEW scanned, NEW fresh, NEW at, NEW a, a = ScanAnswer(scanned, fresh, at)
  PROVE  ScanFields(a, scanned, fresh, at)
<1> DEFINE Disposition(o) ==
              IF Evaluation(evidence[o], at).outcome # "LEAK" THEN "READ_ONLY"
              ELSE IF o \notin DOMAIN fresh THEN "REPLAYED"
              ELSE IF The(Active(o)) # 0 THEN "SUPERSEDED" ELSE "CREATED"
           Case(o) == IF Evaluation(evidence[o], at).outcome # "LEAK" THEN 0
                      ELSE IF o \in DOMAIN fresh THEN fresh[o]
                      ELSE The(ReplayedCase(o, Facts(evidence[o])))
           Old(o) == IF o \in DOMAIN fresh THEN The(Active(o)) ELSE 0
<1>1. PICK results, outcomes, dispositions :
        /\ results = [o \in scanned |->
             [outcome |-> Evaluation(evidence[o], at).outcome,
              reason |-> Evaluation(evidence[o], at).reason,
              disposition |-> Disposition(o), case |-> Case(o), old |-> Old(o)]]
        /\ outcomes = CountBy(results, Outcomes, LAMBDA x : x.outcome)
        /\ dispositions = CountBy(results, {"CREATED", "REPLAYED", "SUPERSEDED"},
                                  LAMBDA x : x.disposition)
        /\ a = [op |-> "scan", at |-> at, total |-> Cardinality(scanned),
              results |-> results, outcomes |-> outcomes,
              detected |-> outcomes["LEAK"], created |-> dispositions["CREATED"],
              replayed |-> dispositions["REPLAYED"],
              superseded |-> dispositions["SUPERSEDED"]]
  BY Zenon DEF ScanAnswer
<1>2. \A d \in {"CREATED", "REPLAYED", "SUPERSEDED"} :
          dispositions[d] = Cardinality(Disposed(results, d))
  <2> HIDE DEF Disposition, Case, Old
  <2> QED
    BY <1>1, Zenon DEF CountBy, Disposed
<1>3. PICK leaks, created, replayed, superseded :
        /\ leaks = outcomes["LEAK"] /\ created = dispositions["CREATED"]
        /\ replayed = dispositions["REPLAYED"] /\ superseded = dispositions["SUPERSEDED"]
  OBVIOUS
<1>4. a = [op |-> "scan", at |-> at, total |-> Cardinality(scanned),
              results |-> results, outcomes |-> outcomes, detected |-> leaks,
              created |-> created, replayed |-> replayed, superseded |-> superseded]
  BY <1>1, <1>3, Zenon
<1>5. /\ a.op = "scan" /\ a.at = at /\ a.total = Cardinality(scanned) /\ a.results = results
      /\ a.outcomes = outcomes /\ a.detected = leaks /\ a.created = created
      /\ a.replayed = replayed /\ a.superseded = superseded
  BY <1>4
<1>6. DOMAIN results = scanned
  BY <1>1, Zenon
<1>7. ASSUME NEW o \in scanned PROVE ScanItem(results[o], o, fresh, at)
  <2>1. PICK r, disposition, case, old :
           /\ r = Reason(evidence[o], at) /\ disposition = Disposition(o)
           /\ case = Case(o) /\ old = Old(o)
    OBVIOUS
  <2>2. Evaluation(evidence[o], at).outcome = OutcomeOf(r) /\ Evaluation(evidence[o], at).reason = r
    BY <2>1 DEF Evaluation
  <2>3. results[o] = [outcome |-> OutcomeOf(r), reason |-> r, disposition |-> disposition,
                      case |-> case, old |-> old]
    <3> HIDE DEF Disposition, Case, Old
    <3> QED
      BY <1>1, <2>1, <2>2, Zenon
  <2>4. PICK item : item = results[o]
    OBVIOUS
  <2>5. /\ item.outcome = OutcomeOf(r) /\ item.reason = r /\ item.disposition = disposition
        /\ item.case = case /\ item.old = old
    BY <2>3, <2>4
  <2>6. ScanItem(item, o, fresh, at)
    BY <2>1, <2>2, <2>5 DEF ScanItem
  <2> QED
    BY <2>4, <2>6
<1>8. a.outcomes = CountBy(a.results, Outcomes, LAMBDA x : x.outcome)
  <2> HIDE DEF Disposition, Case, Old
  <2>1. outcomes = CountBy(results, Outcomes, LAMBDA x : x.outcome)
    BY <1>1, Zenon
  <2>2. a.outcomes = outcomes /\ results = a.results
    BY <1>5
  <2> QED
    BY <2>1, <2>2, Zenon
<1>9. /\ a.created = Cardinality(Disposed(a.results, "CREATED"))
      /\ a.replayed = Cardinality(Disposed(a.results, "REPLAYED"))
      /\ a.superseded = Cardinality(Disposed(a.results, "SUPERSEDED"))
  BY <1>2, <1>3, <1>5
<1> QED
  BY <1>3, <1>5, <1>6, <1>7, <1>8, <1>9, Zenon DEF ScanFields

\* What the browser makes sure of in an item.
ItemReads(item) ==
    /\ OutcomeOf(item.reason) = item.outcome
    /\ item.outcome = "LEAK" <=> item.disposition # "READ_ONLY"
    /\ item.case # 0 <=> item.disposition # "READ_ONLY"
    /\ item.old # 0 <=> item.disposition = "SUPERSEDED"
    /\ item.old # 0 => item.old # item.case
    /\ item.disposition \in {"READ_ONLY", "CREATED", "REPLAYED", "SUPERSEDED"}

LEMMA ScannedItem ==
  ASSUME IInv, NEW found, NEW fresh \in Numberings(found), NEW at, cases' = Reconciled(found, fresh, at),
         \A p \in DOMAIN found : found[p] = Facts(evidence[p]),
         NEW o, o \in DOMAIN found <=> IsLeak(evidence[o], at),
         NEW item, ScanItem(item, o, fresh, at)
  PROVE  ItemReads(item)
<1>1. PICK r : r = Reason(evidence[o], at)
  OBVIOUS
<1>2. OutcomeOf(r) = "LEAK" <=> o \in DOMAIN found
  <2>1. OutcomeOf(r) = "LEAK" <=> r = "STALE_WITHOUT_NEXT_ACTION"
    BY DEF OutcomeOf
  <2> QED
    BY <1>1, <2>1 DEF IsLeak
<1>3. DOMAIN fresh \subseteq DOMAIN found
  BY DEF Numberings
<1>4. CASE OutcomeOf(r) # "LEAK"
  BY <1>1, <1>2, <1>3, <1>4 DEF ScanItem, ItemReads
<1>5. CASE OutcomeOf(r) = "LEAK"
  <2>1. PICK id : id = item.case
    OBVIOUS
  <2>2. /\ o \in DOMAIN found
        /\ o \in DOMAIN fresh => id = fresh[o]
        /\ o \notin DOMAIN fresh => id = The(ReplayedCase(o, found[o]))
    <3>1. o \in DOMAIN found /\ found[o] = Facts(evidence[o])
      BY <1>2, <1>5
    <3> QED
      BY <1>1, <1>5, <2>1, <3>1 DEF ScanItem
  <2>3. id # 0
    BY <2>2, CaseOfLeak
  <2>4. CASE o \notin DOMAIN fresh
    BY <1>1, <1>5, <2>1, <2>3, <2>4 DEF ScanItem, ItemReads
  <2>5. CASE o \in DOMAIN fresh
    <3>1. PICK old : old = The(Active(o))
      OBVIOUS
    <3>2. /\ item.reason = r /\ item.outcome = OutcomeOf(r) /\ item.case = fresh[o] /\ item.old = old
          /\ old # 0 => item.disposition = "SUPERSEDED"
          /\ old = 0 => item.disposition = "CREATED"
      BY <1>1, <1>5, <2>5, <3>1 DEF ScanItem
    <3>3. fresh[o] \notin DOMAIN cases
      <4>1. PICK after : after = cases'
        OBVIOUS
      <4>2. Written(after, found, fresh, at)
        BY <4>1, ReconciledRows
      <4> QED
        BY <2>5, <4>2 DEF Written, Opened
    <3>4. old # 0 => old \in DOMAIN cases
      <4> SUFFICES ASSUME old # 0 PROVE old \in DOMAIN cases
        OBVIOUS
      <4>1. Active(o) # {} /\ old \in Active(o)
        BY <3>1 DEF The
      <4> QED
        BY <4>1 DEF Active, Series
    <3>5. old # 0 => old # item.case
      BY <3>2, <3>3, <3>4
    <3> QED
      BY <1>5, <2>1, <2>3, <3>2, <3>5 DEF ItemReads
  <2> QED
    BY <2>4, <2>5
<1> QED
  BY <1>4, <1>5

\* Every leak is in one of three sets.
LEMMA Tallied ==
  ASSUME NEW results, IsFiniteSet(DOMAIN results), \A o \in DOMAIN results : ItemReads(results[o])
  PROVE  Cardinality({o \in DOMAIN results : results[o].outcome = "LEAK"}) =
            Cardinality(Disposed(results, "CREATED")) + Cardinality(Disposed(results, "REPLAYED"))
            + Cardinality(Disposed(results, "SUPERSEDED"))
<1>1. PICK L, C, R, S : /\ L = {o \in DOMAIN results : results[o].outcome = "LEAK"}
                        /\ C = Disposed(results, "CREATED") /\ R = Disposed(results, "REPLAYED")
                        /\ S = Disposed(results, "SUPERSEDED")
  OBVIOUS
<1>2. L = (C \cup R) \cup S /\ C \cap R = {} /\ (C \cup R) \cap S = {}
  <2>1. \A o : o \in L <=> o \in C \/ o \in R \/ o \in S
    BY <1>1 DEF ItemReads, Disposed
  <2>2. \A o : ~(o \in C /\ o \in R) /\ ~(o \in C /\ o \in S) /\ ~(o \in R /\ o \in S)
    BY <1>1 DEF Disposed
  <2> QED
    BY <2>1, <2>2
<1>3. IsFiniteSet(C) /\ IsFiniteSet(R) /\ IsFiniteSet(S)
  <2>1. C \subseteq DOMAIN results /\ R \subseteq DOMAIN results /\ S \subseteq DOMAIN results
    BY <1>1 DEF Disposed
  <2> QED
    BY <2>1, FS_Subset
<1>4. /\ IsFiniteSet(C \cup R)
      /\ Cardinality(C \cup R) = Cardinality(C) + Cardinality(R) - Cardinality(C \cap R)
  BY <1>3, FS_Union
<1>5. Cardinality((C \cup R) \cup S) =
         Cardinality(C \cup R) + Cardinality(S) - Cardinality((C \cup R) \cap S)
  BY <1>3, <1>4, FS_Union
<1>6. /\ Cardinality(C) \in Nat /\ Cardinality(R) \in Nat /\ Cardinality(S) \in Nat
      /\ Cardinality(C \cap R) = 0 /\ Cardinality((C \cup R) \cap S) = 0
  BY <1>2, <1>3, FS_CardinalityType, FS_EmptySet
<1>7. Cardinality(L) = Cardinality(C) + Cardinality(R) + Cardinality(S)
  BY <1>2, <1>4, <1>5, <1>6
<1> QED
  BY <1>1, <1>7, Zenon

LEMMA ScanReads ==
  ASSUME IInv, RecordsInv, NEW c \in Clients, Scan(c), reply'.op = "scan"
  PROVE  ReplyReads
<1>1. PICK at, scanned : at = tx[c].at /\ scanned = Scanned(c)
  OBVIOUS
<1>2. PICK found : \E fresh \in Numberings(found) :
           /\ found = [o \in {p \in scanned : IsLeak(evidence[p], at)} |-> Facts(evidence[o])]
           /\ cases' = Reconciled(found, fresh, at)
           /\ reply' = ScanAnswer(scanned, fresh, at)
  BY <1>1, ScanWrites
<1>3. PICK fresh \in Numberings(found) :
           /\ found = [o \in {p \in scanned : IsLeak(evidence[p], at)} |-> Facts(evidence[o])]
           /\ cases' = Reconciled(found, fresh, at)
           /\ reply' = ScanAnswer(scanned, fresh, at)
  BY <1>2
<1>4. at \in 0 .. now /\ now \in Nat /\ IsFiniteSet(scanned)
  <2>1. tx[c] # Idle /\ tx[c].op = "scan" /\ tx[c].step = "enumerated"
    BY DEF Scan, Idle
  <2> QED
    BY <1>1, <2>1, Times DEF IInv, Knows, RecordsInv, Read, Scanned
<1>5. PICK a : a = reply'
  OBVIOUS
<1>6. ScanFields(a, scanned, fresh, at)
  BY <1>3, <1>5, ScanAnswered
<1>7. PICK items : items = a.results
  OBVIOUS
<1>8. DOMAIN items = scanned
  BY <1>6, <1>7 DEF ScanFields
<1>9. \A o \in scanned : ItemReads(items[o])
  <2> SUFFICES ASSUME NEW o \in scanned PROVE ItemReads(items[o])
    OBVIOUS
  <2>1. o \in DOMAIN found <=> IsLeak(evidence[o], at)
    BY <1>3
  <2>2. \A p \in DOMAIN found : found[p] = Facts(evidence[p])
    BY <1>3
  <2>3. PICK item : item = items[o]
    OBVIOUS
  <2>4. ScanItem(item, o, fresh, at)
    BY <1>6, <1>7, <2>3 DEF ScanFields
  <2>5. cases' = Reconciled(found, fresh, at)
    BY <1>3
  <2>6. ItemReads(item)
    BY <2>1, <2>2, <2>4, <2>5, ScannedItem
  <2> QED
    BY <2>3, <2>6
<1>10. a.outcomes["LEAK"] = Cardinality({o \in DOMAIN items : items[o].outcome = "LEAK"})
  <2>1. "LEAK" \in Outcomes
    BY DEF Outcomes
  <2>2. a.outcomes = CountBy(items, Outcomes, LAMBDA x : x.outcome)
    BY <1>6, <1>7, Zenon DEF ScanFields, CountBy
  <2> QED
    BY <2>1, <2>2, Zenon DEF CountBy
<1>11. a.detected = a.created + a.replayed + a.superseded
  <2>1. Cardinality({o \in DOMAIN items : items[o].outcome = "LEAK"}) =
            Cardinality(Disposed(items, "CREATED")) + Cardinality(Disposed(items, "REPLAYED"))
            + Cardinality(Disposed(items, "SUPERSEDED"))
    BY <1>4, <1>8, <1>9, Tallied
  <2> QED
    BY <1>6, <1>7, <1>10, <2>1, Zenon DEF ScanFields
<1>12. ScanReadable(a, now)
  <2>1. a.at <= now
    BY <1>4, <1>6 DEF ScanFields
  <2>2. /\ a.created = Cardinality({o \in DOMAIN items : items[o].disposition = "CREATED"})
        /\ a.replayed = Cardinality({o \in DOMAIN items : items[o].disposition = "REPLAYED"})
        /\ a.superseded = Cardinality({o \in DOMAIN items : items[o].disposition = "SUPERSEDED"})
    BY <1>6, <1>7, Zenon DEF ScanFields, Disposed
  <2>3. a.outcomes = CountBy(items, Outcomes, LAMBDA x : x.outcome)
    BY <1>6, <1>7, Zenon DEF ScanFields, CountBy
  <2>4. a.total = Cardinality(DOMAIN items) /\ a.detected = a.outcomes["LEAK"]
    BY <1>6, <1>8, Zenon DEF ScanFields
  <2>5. \A o \in DOMAIN items :
             /\ OutcomeOf(items[o].reason) = items[o].outcome
             /\ items[o].outcome = "LEAK" <=> items[o].disposition # "READ_ONLY"
             /\ items[o].case # 0 <=> items[o].disposition # "READ_ONLY"
             /\ items[o].old # 0 <=> items[o].disposition = "SUPERSEDED"
             /\ items[o].old # 0 => items[o].old # items[o].case
    BY <1>8, <1>9 DEF ItemReads
  <2> QED
    BY <1>7, <1>11, <2>1, <2>2, <2>3, <2>4, <2>5, Zenon DEF ScanReadable, CountBy
<1> QED
  BY <1>5, <1>12 DEF ReplyReads, Readable

-----------------------------------------------------------------------------
(* The answer of an eligibility request                                    *)

\* A record of the report.
AssessedAs(record, e, at) ==
    /\ record.reason = Reason(e, at) /\ record.outcome = OutcomeOf(record.reason)
    /\ record.class = ClassOf(record.outcome) /\ record.class # "BLOCKED"

\* The report, field by field.
EligibilityFields(a, seen, at) ==
    /\ a.op = "eligibility" /\ a.at = at /\ a.complete = TRUE
    /\ a.total = Cardinality(DOMAIN seen) /\ a.evaluated = a.total
    /\ a.readiness = Readiness(a.total, a.classes["ELIGIBLE"])
    /\ DOMAIN a.records = DOMAIN seen
    /\ \A o \in DOMAIN seen : AssessedAs(a.records[o], seen[o], at)
    /\ \A k \in Classes :
         a.classes[k] = Cardinality({o \in DOMAIN a.records : a.records[o].class = k})
    /\ \A k \in Coverages :
         a.values[k] = Cardinality({o \in DOMAIN a.records : a.records[o].value = k})
    /\ \A r \in Reasons : a.reasons[r] =
         Cardinality({o \in DOMAIN a.records :
                         a.records[o].class # "ELIGIBLE" /\ a.records[o].reason = r})

LEMMA Assessed ==
  ASSUME NEW seen, NEW at, NEW a, a = Eligibility(seen, at)
  PROVE  EligibilityFields(a, seen, at)
<1>1. PICK record : record = [o \in DOMAIN seen |->
                     [outcome |-> OutcomeOf(Reason(seen[o], at)),
                      reason |-> Reason(seen[o], at),
                      class |-> ClassOf(OutcomeOf(Reason(seen[o], at))),
                      value |-> ValueKind(seen[o].value)]]
  OBVIOUS
<1>2. PICK missed : missed = [o \in {u \in DOMAIN record : record[u].class # "ELIGIBLE"}
                                 |-> record[o]]
  OBVIOUS
<1>3. PICK classes, reasons, values, total :
        /\ classes = CountBy(record, Classes, LAMBDA x : x.class)
        /\ reasons = CountBy(missed, Reasons, LAMBDA x : x.reason)
        /\ values = CountBy(record, Coverages, LAMBDA x : x.value)
        /\ total = Cardinality(DOMAIN seen)
  OBVIOUS
<1>4. PICK readiness : readiness = Readiness(total, classes["ELIGIBLE"])
  OBVIOUS
<1>5. a = [op |-> "eligibility", at |-> at, complete |-> TRUE, total |-> total,
           readiness |-> readiness, evaluated |-> total, records |-> record,
           classes |-> classes, reasons |-> reasons, values |-> values]
  BY <1>1, <1>2, <1>3, <1>4, Zenon DEF Eligibility, CountBy
<1>6. /\ a.op = "eligibility" /\ a.at = at /\ a.complete = TRUE /\ a.total = total
      /\ a.readiness = readiness /\ a.evaluated = total /\ a.records = record
      /\ a.classes = classes /\ a.reasons = reasons /\ a.values = values
  BY <1>5
<1>7. DOMAIN record = DOMAIN seen
  BY <1>1, Zenon
<1>8. ASSUME NEW o \in DOMAIN seen PROVE AssessedAs(record[o], seen[o], at)
  <2>1. PICK r, value, e, item : r = Reason(seen[o], at) /\ value = ValueKind(seen[o].value)
                                 /\ e = seen[o] /\ item = record[o]
    OBVIOUS
  <2>2. item = [outcome |-> OutcomeOf(r), reason |-> r, class |-> ClassOf(OutcomeOf(r)), value |-> value]
    BY <1>1, <2>1, Zenon
  <2>3. item.outcome = OutcomeOf(r) /\ item.reason = r /\ item.class = ClassOf(OutcomeOf(r))
    BY <2>2
  <2>4. ClassOf(OutcomeOf(r)) # "BLOCKED"
    <3>1. OutcomeOf(r) \in {"LEAK", "NO_LEAK", "INSUFFICIENT", "STALE_SOURCE", "DATA_HEALTH"}
      BY OutcomeIn DEF Outcomes
    <3> QED
      BY <3>1 DEF ClassOf
  <2> QED
    BY <2>1, <2>3, <2>4 DEF AssessedAs
<1>9. \A k \in Classes : classes[k] = Cardinality({o \in DOMAIN record : record[o].class = k})
  BY <1>3, Zenon DEF CountBy
<1>10. \A k \in Coverages : values[k] = Cardinality({o \in DOMAIN record : record[o].value = k})
  BY <1>3, Zenon DEF CountBy
<1>11. ASSUME NEW r \in Reasons
       PROVE  reasons[r] = Cardinality({o \in DOMAIN record :
                                   record[o].class # "ELIGIBLE" /\ record[o].reason = r})
  <2>1. reasons[r] = Cardinality({o \in DOMAIN missed : missed[o].reason = r})
    BY <1>3, Zenon DEF CountBy
  <2>2. {o \in DOMAIN missed : missed[o].reason = r} =
            {o \in DOMAIN record : record[o].class # "ELIGIBLE" /\ record[o].reason = r}
    BY <1>2
  <2> QED
    BY <2>1, <2>2, Zenon
<1> QED
  BY <1>3, <1>4, <1>6, <1>7, <1>8, <1>9, <1>10, <1>11, Zenon DEF EligibilityFields

LEMMA BlockedReads ==
  ASSUME NEW total, total > Limit, NEW at, at <= now, NEW a, a = BlockedEligibility(total, at)
  PROVE  a.op = "eligibility" /\ EligibilityReadable(a, now)
<1>1. PICK classes, reasons, values :
        /\ classes = [k \in Classes |-> IF k = "BLOCKED" THEN total ELSE 0]
        /\ reasons = [r \in Reasons |-> 0]
        /\ values = [k \in Coverages |-> IF k = "NOT_ASSESSED" THEN total ELSE 0]
  OBVIOUS
<1>2. a = [op |-> "eligibility", at |-> at, complete |-> FALSE, total |-> total,
     readiness |-> "BLOCKED", evaluated |-> 0, records |-> <<>>,
     classes |-> classes, reasons |-> reasons, values |-> values]
  BY <1>1 DEF BlockedEligibility
<1>3. /\ a.op = "eligibility" /\ a.at = at /\ a.complete = FALSE /\ a.total = total
      /\ a.readiness = "BLOCKED" /\ a.evaluated = 0 /\ a.records = <<>>
      /\ a.classes = classes /\ a.values = values
  BY <1>2
<1>4. classes["BLOCKED"] = total /\ values["NOT_ASSESSED"] = total
  BY <1>1 DEF Classes, Coverages
<1>5. DOMAIN a.records = {}
  BY <1>3
<1> QED
  BY <1>3, <1>4, <1>5, Zenon DEF EligibilityReadable

LEMMA AssessedReads ==
  ASSUME NEW seen, IsFiniteSet(DOMAIN seen), NEW at, at <= now, Cardinality(DOMAIN seen) <= Limit,
         NEW a, EligibilityFields(a, seen, at)
  PROVE  EligibilityReadable(a, now)
<1>1. PICK record, total, assessable : record = a.records /\ total = a.total
                                       /\ assessable = a.classes["ELIGIBLE"]
  OBVIOUS
<1>2. /\ a.complete = TRUE /\ a.evaluated = total /\ DOMAIN record = DOMAIN seen
      /\ total = Cardinality(DOMAIN record) /\ total <= Limit /\ a.at <= now
      /\ a.readiness = Readiness(total, assessable)
      /\ \A o \in DOMAIN record : AssessedAs(record[o], seen[o], at)
  BY <1>1 DEF EligibilityFields
<1>3. /\ \A k \in Classes : a.classes[k] = Cardinality({o \in DOMAIN record : record[o]["class"] = k})
      /\ \A k \in Coverages : a.values[k] = Cardinality({o \in DOMAIN record : record[o]["value"] = k})
      /\ \A r \in Reasons : a.reasons[r] =
            Cardinality({o \in DOMAIN record : record[o].class # "ELIGIBLE" /\ record[o].reason = r})
  BY <1>1, Zenon DEF EligibilityFields
<1>4. a.classes["BLOCKED"] = 0
  <2>1. {o \in DOMAIN record : record[o]["class"] = "BLOCKED"} = {}
    BY <1>2 DEF AssessedAs
  <2>2. "BLOCKED" \in Classes
    BY DEF Classes
  <2> QED
    BY <1>3, <2>1, <2>2, FS_EmptySet
<1>5. total \in Nat
  BY <1>2, FS_CardinalityType
<1>6. a.readiness = IF total = 0 THEN "EMPTY" ELSE IF assessable = total THEN "READY"
                    ELSE IF assessable = 0 THEN "NOT_READY" ELSE "PARTIAL"
  BY <1>2, <1>5 DEF Readiness
<1>7. \A o \in DOMAIN record : /\ OutcomeOf(record[o].reason) = record[o].outcome
                               /\ ClassOf(record[o].outcome) = record[o].class
  BY <1>2 DEF AssessedAs
<1> QED
  BY <1>1, <1>2, <1>3, <1>4, <1>6, <1>7, Zenon DEF EligibilityReadable

LEMMA EligibilityReads ==
  ASSUME IInv, RecordsInv, NEW c \in Clients, AnswerEligibility(c)
  PROVE  ReplyReads
<1>1. PICK seen, at, total : seen = tx[c].seen /\ at = tx[c].at /\ total = Cardinality(DOMAIN seen)
  OBVIOUS
<1>2. \/ total > Limit /\ reply' = BlockedEligibility(total, at)
      \/ total <= Limit /\ reply' = Eligibility(seen, at)
  BY <1>1, Zenon DEF AnswerEligibility, Answer
<1>3. at <= now /\ IsFiniteSet(DOMAIN seen)
  <2>1. tx[c] # Idle /\ tx[c].op = "eligibility" /\ tx[c].step = "enumerated"
    BY DEF AnswerEligibility, Idle
  <2> QED
    BY <1>1, <2>1, Times DEF IInv, Knows, RecordsInv, Read
<1>4. PICK a : a = reply'
  OBVIOUS
<1>5. CASE total > Limit /\ a = BlockedEligibility(total, at)
  <2>1. a.op = "eligibility" /\ EligibilityReadable(a, now)
    BY <1>3, <1>5, BlockedReads
  <2> QED
    BY <1>4, <2>1 DEF ReplyReads, Readable
<1>6. CASE total <= Limit /\ a = Eligibility(seen, at)
  <2>1. EligibilityFields(a, seen, at)
    BY <1>6, Assessed
  <2>2. EligibilityReadable(a, now)
    BY <1>1, <1>3, <1>6, <2>1, AssessedReads
  <2>3. a.op = "eligibility"
    BY <2>1 DEF EligibilityFields
  <2> QED
    BY <1>4, <2>2, <2>3 DEF ReplyReads, Readable
<1> QED
  BY <1>2, <1>4, <1>5, <1>6

-----------------------------------------------------------------------------
(* Finite sums                                                             *)

\* A nonempty set of finite sets has one that is in it without any element less.
LEMMA Smallest ==
  ASSUME NEW S, IsFiniteSet(S), NEW B \in SUBSET (SUBSET S), B # {}
  PROVE  \E s \in B : IsFiniteSet(s) /\ \A x \in s : s \ {x} \notin B
<1> DEFINE N == {Cardinality(s) : s \in B}
<1>1. \A s \in SUBSET S : IsFiniteSet(s) /\ Cardinality(s) \in Nat
  BY FS_Subset, FS_CardinalityType
<1>2. N \in SUBSET Nat /\ N # {}
  BY <1>1
<1>3. \E n \in N : \A m \in N : n <= m
  <2> HIDE DEF N
  <2> QED
    BY <1>2, LeastIn
<1>4. PICK s \in B : \A t \in B : Cardinality(s) <= Cardinality(t)
  BY <1>3
<1>5. ASSUME NEW x \in s PROVE s \ {x} \notin B
  <2>1. Cardinality(s \ {x}) = Cardinality(s) - 1
    BY <1>1, <1>4, FS_RemoveElement
  <2> QED
    BY <1>1, <1>4, <2>1
<1> QED
  BY <1>1, <1>4, <1>5

LEMMA UpTo == ASSUME NEW k \in Nat PROVE IsFiniteSet(1 .. k) /\ Cardinality(1 .. k) = k
<1>1. IsFiniteSet(1 .. k)
  BY FS_Interval
<1>2. Cardinality(1 .. k) = IF 1 > k THEN 0 ELSE k - 1 + 1
  BY FS_Interval
<1> QED
  BY <1>1, <1>2

\* As many units as the weights of a set add up to.
Units(w, s) == {p \in s \X (Nat \ {0}) : p[2] <= w[p[1]]}

OneApart(w, s, x, rest, one) ==
    /\ Units(w, s) = rest \cup one /\ rest \cap one = {} /\ rest = Units(w, s \ {x})
    /\ IsFiniteSet(one) /\ Cardinality(one) = w[x]

LEMMA UnitsOfOne ==
  ASSUME NEW S, NEW w, w \in [S -> Nat], NEW s, s \subseteq S, NEW x, x \in s
  PROVE  \E rest, one : OneApart(w, s, x, rest, one)
<1>1. PICK k : k = w[x] /\ k \in Nat
  OBVIOUS
<1>2. ASSUME NEW p PROVE p \in {x} \X (1 .. k) <=> p \in Units(w, s) /\ p[1] = x
  BY <1>1 DEF Units
<1>3. ASSUME NEW p PROVE p \in Units(w, s \ {x}) <=> p \in Units(w, s) /\ p[1] # x
  BY DEF Units
<1>4. IsFiniteSet(1 .. k) /\ Cardinality(1 .. k) = k
  BY <1>1, UpTo
<1>5. IsFiniteSet({x}) /\ Cardinality({x}) = 1
  BY FS_Singleton, Zenon
<1>6. /\ IsFiniteSet({x} \X (1 .. k))
      /\ Cardinality({x} \X (1 .. k)) = Cardinality({x}) * Cardinality(1 .. k)
  BY <1>4, <1>5, FS_Product
<1>7. Cardinality({x} \X (1 .. k)) = k
  BY <1>1, <1>4, <1>5, <1>6
<1>8. /\ Units(w, s) = Units(w, s \ {x}) \cup ({x} \X (1 .. k))
      /\ Units(w, s \ {x}) \cap ({x} \X (1 .. k)) = {}
  <2> HIDE DEF Units
  <2> QED
    BY <1>2, <1>3
<1>9. OneApart(w, s, x, Units(w, s \ {x}), {x} \X (1 .. k))
  BY <1>1, <1>6, <1>7, <1>8 DEF OneApart
<1> QED
  BY <1>9, Zenon

LEMMA UnitsAddUp ==
  ASSUME NEW S, IsFiniteSet(S), NEW w \in [S -> Nat]
  PROVE  /\ \A s \in SUBSET S : IsFiniteSet(Units(w, s)) /\ Cardinality(Units(w, s)) \in Nat
         /\ \A s \in SUBSET S : \A x \in s :
              Cardinality(Units(w, s)) = w[x] + Cardinality(Units(w, s \ {x}))
         /\ Cardinality(Units(w, {})) = 0
<1> DEFINE B == {s \in SUBSET S : ~IsFiniteSet(Units(w, s))}
<1>1. Units(w, {}) = {}
  BY DEF Units
<1>2. B = {}
  <2> SUFFICES ASSUME B # {} PROVE FALSE
    OBVIOUS
  <2>1. B \in SUBSET (SUBSET S)
    OBVIOUS
  <2>2. \E s \in B : IsFiniteSet(s) /\ \A x \in s : s \ {x} \notin B
    <3> HIDE DEF B
    <3> QED
      BY <2>1, Smallest
  <2>3. PICK s \in B : \A x \in s : s \ {x} \notin B
    BY <2>2
  <2>4. s # {}
    BY <1>1, FS_EmptySet
  <2>5. PICK x \in s : TRUE
    BY <2>4
  <2>6. IsFiniteSet(Units(w, s \ {x}))
    BY <2>3, <2>5
  <2>7. IsFiniteSet(Units(w, s))
    <3>1. PICK rest, one : OneApart(w, s, x, rest, one)
      BY <2>5, UnitsOfOne
    <3>2. IsFiniteSet(rest) /\ IsFiniteSet(one) /\ Units(w, s) = rest \cup one
      BY <2>6, <3>1 DEF OneApart
    <3> QED
      BY <3>2, FS_Union
  <2> QED
    BY <2>3, <2>7
<1>3. \A s \in SUBSET S : IsFiniteSet(Units(w, s)) /\ Cardinality(Units(w, s)) \in Nat
  BY <1>2, FS_CardinalityType
<1>4. ASSUME NEW s \in SUBSET S, NEW x \in s
      PROVE  Cardinality(Units(w, s)) = w[x] + Cardinality(Units(w, s \ {x}))
  <2>1. PICK a, b : OneApart(w, s, x, a, b)
    BY UnitsOfOne
  <2>2. /\ Units(w, s) = a \cup b /\ a \cap b = {} /\ IsFiniteSet(b) /\ Cardinality(b) = w[x]
        /\ a = Units(w, s \ {x})
    BY <2>1 DEF OneApart
  <2>3. IsFiniteSet(a) /\ Cardinality(a) \in Nat /\ w[x] \in Nat
    BY <1>3, <2>2
  <2>4. Cardinality(a \cup b) = Cardinality(a) + Cardinality(b) - Cardinality(a \cap b)
    BY <2>2, <2>3, FS_Union
  <2>5. Cardinality(a \cap b) = 0
    BY <2>2, FS_EmptySet
  <2> QED
    BY <2>2, <2>3, <2>4, <2>5
<1> QED
  BY <1>1, <1>3, <1>4, FS_EmptySet

\* A function that adds up the weights of its elements one after the other.
First(s) == CHOOSE x \in s : TRUE

SumsUp(f, S, w) ==
    /\ f[{}] = 0
    /\ \A s \in SUBSET S : s # {} /\ f[s \ {First(s)}] \in Nat =>
         f[s] = w[First(s)] + f[s \ {First(s)}]

LEMMA SumIsUnits ==
  ASSUME NEW S, IsFiniteSet(S), NEW w \in [S -> Nat], NEW f, SumsUp(f, S, w)
  PROVE  \A s \in SUBSET S : f[s] = Cardinality(Units(w, s))
<1> DEFINE B == {s \in SUBSET S : f[s] # Cardinality(Units(w, s))}
<1>1. B = {}
  <2> SUFFICES ASSUME B # {} PROVE FALSE
    OBVIOUS
  <2>1. B \in SUBSET (SUBSET S)
    OBVIOUS
  <2>2. \E s \in B : IsFiniteSet(s) /\ \A x \in s : s \ {x} \notin B
    <3> HIDE DEF B
    <3> QED
      BY <2>1, Smallest
  <2>3. PICK s \in B : \A x \in s : s \ {x} \notin B
    BY <2>2
  <2>4. s # {}
    BY UnitsAddUp DEF SumsUp
  <2>5. PICK x : x = First(s) /\ x \in s
    BY <2>4 DEF First
  <2>6. f[s \ {x}] = Cardinality(Units(w, s \ {x})) /\ Cardinality(Units(w, s \ {x})) \in Nat
    BY <2>3, <2>5, UnitsAddUp
  <2>7. f[s] = w[x] + f[s \ {x}]
    BY <2>4, <2>5, <2>6 DEF SumsUp
  <2>8. Cardinality(Units(w, s)) = w[x] + Cardinality(Units(w, s \ {x}))
    BY <2>5, UnitsAddUp
  <2> QED
    BY <2>3, <2>6, <2>7, <2>8
<1> QED
  BY <1>1

\* The function that counts the units of each subset.
Totals(w, S) == [s \in SUBSET S |-> Cardinality(Units(w, s))]

LEMMA UnitsSum ==
  ASSUME NEW S, IsFiniteSet(S), NEW w \in [S -> Nat]
  PROVE  /\ Totals(w, S)[{}] = 0
         /\ \A s \in SUBSET S : s # {} =>
              Totals(w, S)[s] = w[First(s)] + Totals(w, S)[s \ {First(s)}]
         /\ \A s \in SUBSET S : Totals(w, S)[s] \in Nat
<1>1. \A s \in SUBSET S : Totals(w, S)[s] = Cardinality(Units(w, s))
  BY DEF Totals
<1>2. ASSUME NEW s \in SUBSET S, s # {}
      PROVE  Totals(w, S)[s] = w[First(s)] + Totals(w, S)[s \ {First(s)}]
  <2>1. PICK x : x = First(s) /\ x \in s
    BY <1>2 DEF First
  <2> QED
    BY <1>1, <2>1, UnitsAddUp
<1>3. \A s \in SUBSET S : Totals(w, S)[s] \in Nat
  BY <1>1, UnitsAddUp
<1>4. Totals(w, S)[{}] = 0
  BY <1>1, UnitsAddUp
<1> QED
  BY <1>2, <1>3, <1>4

\* A set in other words has as many units.
Renamed(S, w, T, v, b) ==
    /\ IsFiniteSet(S) /\ w \in [S -> Nat] /\ v \in [T -> Nat] /\ b \in [S -> T]
    /\ \A x, y \in S : b[x] = b[y] => x = y
    /\ \A y \in T : \E x \in S : b[x] = y
    /\ \A x \in S : v[b[x]] = w[x]

LEMMA SameUnits ==
  ASSUME NEW S, NEW w, NEW T, NEW v, NEW b, Renamed(S, w, T, v, b)
  PROVE  Cardinality(Units(w, S)) = Cardinality(Units(v, T))
<1> USE DEF Renamed
<1> DEFINE m == [p \in Units(w, S) |-> <<b[p[1]], p[2]>>]
<1>1. ASSUME NEW p \in Units(w, S)
      PROVE  /\ p[1] \in S /\ p[2] \in Nat \ {0} /\ p = <<p[1], p[2]>> /\ p[2] <= w[p[1]]
             /\ m[p] = <<b[p[1]], p[2]>> /\ m[p] \in Units(v, T)
  BY DEF Units
<1>2. m \in [Units(w, S) -> Units(v, T)]
  BY <1>1
<1>3. \A p, q \in Units(w, S) : m[p] = m[q] => p = q
  <2> SUFFICES ASSUME NEW p \in Units(w, S), NEW q \in Units(w, S), m[p] = m[q] PROVE p = q
    OBVIOUS
  <2>1. b[p[1]] = b[q[1]] /\ p[2] = q[2]
    BY <1>1
  <2> QED
    BY <1>1, <2>1
<1>4. \A q \in Units(v, T) : \E p \in Units(w, S) : m[p] = q
  <2> SUFFICES ASSUME NEW q \in Units(v, T) PROVE \E p \in Units(w, S) : m[p] = q
    OBVIOUS
  <2>1. q[1] \in T /\ q[2] \in Nat \ {0} /\ q = <<q[1], q[2]>> /\ q[2] <= v[q[1]]
    BY DEF Units
  <2>2. PICK x \in S : b[x] = q[1]
    BY <2>1
  <2>3. PICK p : p = <<x, q[2]>>
    OBVIOUS
  <2>4. p \in Units(w, S)
    BY <2>1, <2>2, <2>3 DEF Units
  <2>5. m[p] = q
    BY <1>1, <2>1, <2>2, <2>3, <2>4
  <2> QED
    BY <2>4, <2>5
<1>5. m \in Bijection(Units(w, S), Units(v, T))
  <2> HIDE DEF m
  <2> QED
    BY <1>2, <1>3, <1>4 DEF Bijection, Injection, Surjection, IsInjective
<1>6. IsFiniteSet(Units(w, S))
  BY UnitsAddUp
<1> QED
  BY <1>5, <1>6, FS_Bijection, Zenon DEF ExistsBijection

-----------------------------------------------------------------------------
(* The order of the queue                                                  *)

\* What compareEntries compares, one number after the other.
RankOf(z) == <<UrgencyTier[z.urgency], ValueTier[z.kind],
               IF z.kind = "POSITIVE" THEN 0 - z.amount ELSE 0, 0 - z.age, z.id>>

Ranks == Int \X Int \X Int \X Int \X Int

Before(p, q) == \E i \in 1 .. 5 : p[i] < q[i] /\ \A j \in 1 .. (i - 1) : p[j] = q[j]

LEMMA BeforeIs ==
  ASSUME NEW p \in Ranks, NEW q \in Ranks
  PROVE  /\ p[1] \in Int /\ p[2] \in Int /\ p[3] \in Int /\ p[4] \in Int /\ p[5] \in Int
         /\ Before(p, q) <=>
              \/ p[1] < q[1]
              \/ p[1] = q[1] /\ p[2] < q[2]
              \/ p[1] = q[1] /\ p[2] = q[2] /\ p[3] < q[3]
              \/ p[1] = q[1] /\ p[2] = q[2] /\ p[3] = q[3] /\ p[4] < q[4]
              \/ p[1] = q[1] /\ p[2] = q[2] /\ p[3] = q[3] /\ p[4] = q[4] /\ p[5] < q[5]
<1>1. p[1] \in Int /\ p[2] \in Int /\ p[3] \in Int /\ p[4] \in Int /\ p[5] \in Int
  BY DEF Ranks
<1> DEFINE Up(i) == p[i] < q[i] /\ \A j \in 1 .. (i - 1) : p[j] = q[j]
<1>2. Before(p, q) <=> Up(1) \/ Up(2) \/ Up(3) \/ Up(4) \/ Up(5)
  <2>1. \A i : i \in 1 .. 5 <=> i = 1 \/ i = 2 \/ i = 3 \/ i = 4 \/ i = 5
    OBVIOUS
  <2>2. Before(p, q) <=> \E i \in 1 .. 5 : Up(i)
    BY DEF Before
  <2> HIDE DEF Up
  <2> QED
    BY <2>1, <2>2
<1>3. Up(1) <=> p[1] < q[1]
  OBVIOUS
<1>4. Up(2) <=> p[1] = q[1] /\ p[2] < q[2]
  OBVIOUS
<1>5. Up(3) <=> p[1] = q[1] /\ p[2] = q[2] /\ p[3] < q[3]
  <2>1. \A j : j \in 1 .. (3 - 1) <=> j = 1 \/ j = 2
    OBVIOUS
  <2> QED
    BY <2>1
<1>6. Up(4) <=> p[1] = q[1] /\ p[2] = q[2] /\ p[3] = q[3] /\ p[4] < q[4]
  <2>1. \A j : j \in 1 .. (4 - 1) <=> j = 1 \/ j = 2 \/ j = 3
    OBVIOUS
  <2> QED
    BY <2>1
<1>7. Up(5) <=> p[1] = q[1] /\ p[2] = q[2] /\ p[3] = q[3] /\ p[4] = q[4] /\ p[5] < q[5]
  <2>1. \A j : j \in 1 .. (5 - 1) <=> j = 1 \/ j = 2 \/ j = 3 \/ j = 4
    OBVIOUS
  <2> QED
    BY <2>1
<1> HIDE DEF Up
<1> QED
  BY <1>1, <1>2, <1>3, <1>4, <1>5, <1>6, <1>7

\* One of two entries comes first, and what comes first stays first.
Linear(E) ==
    /\ \A x \in E : ~Precedes(x, x)
    /\ \A x, y \in E : x # y /\ ~Precedes(x, y) => Precedes(y, x)
    /\ \A x, y, z \in E : Precedes(x, y) /\ Precedes(y, z) => Precedes(x, z)

LEMMA RankedIsLinear ==
  ASSUME NEW E, \A x \in E : RankOf(x) \in Ranks,
         \A x, y \in E : RankOf(x)[5] = RankOf(y)[5] => x = y
  PROVE  Linear(E)
<1>1. ASSUME NEW x, NEW y PROVE Precedes(x, y) <=> Before(RankOf(x), RankOf(y))
  BY Zenon DEF Precedes, Before, RankOf
<1>2. ASSUME NEW x \in E PROVE ~Precedes(x, x)
  <2>1. PICK p : p = RankOf(x) /\ p \in Ranks
    OBVIOUS
  <2>2. ~Before(p, p)
    BY <2>1, BeforeIs
  <2> QED
    BY <1>1, <2>1, <2>2
<1>3. ASSUME NEW x \in E, NEW y \in E, x # y, ~Precedes(x, y) PROVE Precedes(y, x)
  <2>1. PICK p, q : p = RankOf(x) /\ q = RankOf(y) /\ p \in Ranks /\ q \in Ranks
    OBVIOUS
  <2>2. p[5] # q[5]
    BY <1>3, <2>1
  <2>3. ~Before(p, q)
    BY <1>1, <1>3, <2>1
  <2>4. Before(q, p)
    BY <2>1, <2>2, <2>3, BeforeIs
  <2> QED
    BY <1>1, <2>1, <2>4
<1>4. ASSUME NEW x \in E, NEW y \in E, NEW z \in E, Precedes(x, y), Precedes(y, z) PROVE Precedes(x, z)
  <2>1. PICK p, q, r : /\ p = RankOf(x) /\ q = RankOf(y) /\ r = RankOf(z)
                       /\ p \in Ranks /\ q \in Ranks /\ r \in Ranks
    OBVIOUS
  <2>2. Before(p, q) /\ Before(q, r)
    BY <1>1, <1>4, <2>1
  <2>3. Before(p, r)
    BY <2>1, <2>2, BeforeIs
  <2> QED
    BY <1>1, <2>1, <2>3
<1> QED
  BY <1>2, <1>3, <1>4 DEF Linear

Ordered(s) == \A i, j \in DOMAIN s : i < j => Precedes(s[i], s[j])

LEMMA Inserted ==
  ASSUME NEW E, Linear(E), NEW T \in SUBSET E, NEW x \in E, x \notin T,
         NEW n \in Nat, NEW s \in [1 .. n -> T], Ordered(s)
  PROVE  \E u \in [1 .. (n + 1) -> T \cup {x}] : Ordered(u)
<1> DEFINE After == {i \in 1 .. (n + 1) : i = n + 1 \/ Precedes(x, s[i])}
<1>1. After \in SUBSET Nat /\ n + 1 \in After
  OBVIOUS
<1>2. \E k \in After : \A i \in After : k <= i
  <2> HIDE DEF After
  <2> QED
    BY <1>1, LeastIn
<1>3. PICK k \in 1 .. (n + 1) : k \in After /\ \A i \in After : k <= i
  BY <1>2
<1> DEFINE u == [i \in 1 .. (n + 1) |-> IF i < k THEN s[i] ELSE IF i = k THEN x ELSE s[i - 1]]
<1>4. ASSUME NEW i \in 1 .. (n + 1)
      PROVE  /\ i < k => i \in 1 .. n /\ u[i] = s[i] /\ u[i] \in T
             /\ i = k => u[i] = x
             /\ i > k => i - 1 \in k .. n /\ i - 1 \in 1 .. n /\ u[i] = s[i - 1] /\ u[i] \in T
  OBVIOUS
<1>5. u \in [1 .. (n + 1) -> T \cup {x}]
  <2>1. \A i \in 1 .. (n + 1) : u[i] \in T \cup {x}
    BY <1>4
  <2>2. DOMAIN u = 1 .. (n + 1) /\ u = [i \in DOMAIN u |-> u[i]]
    OBVIOUS
  <2> HIDE DEF u
  <2> QED
    BY <2>1, <2>2
<1>6. ASSUME NEW i \in 1 .. n, i < k PROVE Precedes(s[i], x)
  <2>1. i \notin After
    BY <1>3, <1>6
  <2>2. ~Precedes(x, s[i]) /\ s[i] \in T
    BY <2>1
  <2> QED
    BY <2>2 DEF Linear
<1>7. ASSUME NEW i \in 1 .. n, i >= k PROVE Precedes(x, s[i])
  <2>1. k \in 1 .. n /\ Precedes(x, s[k]) /\ s[k] \in T /\ s[i] \in T
    BY <1>3, <1>7
  <2>2. CASE i = k
    BY <2>1, <2>2
  <2>3. CASE i > k
    <3>1. Precedes(s[k], s[i])
      BY <2>1, <2>3 DEF Ordered
    <3> QED
      BY <2>1, <3>1 DEF Linear
  <2> QED
    BY <1>7, <2>2, <2>3
<1>8. ASSUME NEW i \in 1 .. (n + 1), NEW j \in 1 .. (n + 1), i < j PROVE Precedes(u[i], u[j])
  <2> HIDE DEF u, After
  <2>1. \A a, b \in 1 .. n : a < b => Precedes(s[a], s[b])
    BY DEF Ordered
  <2>2. CASE j < k
    <3>1. /\ i \in 1 .. n /\ j \in 1 .. n /\ u[i] = s[i] /\ u[j] = s[j]
      BY <1>4, <1>8, <2>2
    <3> QED
      BY <1>8, <2>1, <3>1
  <2>3. CASE j = k
    <3>1. i \in 1 .. n /\ u[i] = s[i] /\ u[j] = x /\ i < k
      BY <1>4, <1>8, <2>3
    <3> QED
      BY <1>6, <3>1
  <2>4. CASE j > k /\ i < k
    <3>1. /\ i \in 1 .. n /\ j - 1 \in 1 .. n /\ i < j - 1 /\ u[i] = s[i] /\ u[j] = s[j - 1]
      BY <1>4, <2>4
    <3> QED
      BY <2>1, <3>1
  <2>5. CASE j > k /\ i = k
    <3>1. j - 1 \in 1 .. n /\ j - 1 >= k /\ u[i] = x /\ u[j] = s[j - 1]
      BY <1>4, <2>5
    <3> QED
      BY <1>7, <3>1
  <2>6. CASE i > k
    <3>1. /\ i - 1 \in 1 .. n /\ j - 1 \in 1 .. n /\ i - 1 < j - 1
          /\ u[i] = s[i - 1] /\ u[j] = s[j - 1]
      BY <1>4, <1>8, <2>6
    <3> QED
      BY <2>1, <3>1
  <2> QED
    BY <1>8, <2>2, <2>3, <2>4, <2>5, <2>6
<1>9. Ordered(u)
  <2>1. DOMAIN u = 1 .. (n + 1)
    OBVIOUS
  <2> HIDE DEF u
  <2> QED
    BY <1>8, <2>1 DEF Ordered
<1> HIDE DEF u
<1> QED
  BY <1>5, <1>9

LEMMA OrderExists ==
  ASSUME NEW E, IsFiniteSet(E), Linear(E)
  PROVE  \E s \in [1 .. Cardinality(E) -> E] : Ordered(s)
<1> DEFINE B == {T \in SUBSET E : ~\E s \in [1 .. Cardinality(T) -> T] : Ordered(s)}
<1>1. B = {}
  <2> SUFFICES ASSUME B # {} PROVE FALSE
    OBVIOUS
  <2>1. B \in SUBSET (SUBSET E)
    OBVIOUS
  <2>2. \E T \in B : IsFiniteSet(T) /\ \A x \in T : T \ {x} \notin B
    <3> HIDE DEF B
    <3> QED
      BY <2>1, Smallest
  <2>3. PICK T \in B : IsFiniteSet(T) /\ \A x \in T : T \ {x} \notin B
    BY <2>2
  <2>4. T # {}
    <3> SUFFICES ASSUME T = {} PROVE FALSE
      OBVIOUS
    <3>1. PICK s : s = [i \in 1 .. 0 |-> 0]
      OBVIOUS
    <3>2. 1 .. Cardinality(T) = {} /\ Cardinality(T) = 0
      BY FS_EmptySet
    <3>3. s \in [1 .. Cardinality(T) -> T] /\ Ordered(s)
      BY <3>1, <3>2 DEF Ordered
    <3> QED
      BY <2>3, <3>3
  <2>5. PICK x \in T : TRUE
    BY <2>4
  <2>6. PICK R : R = T \ {x}
    OBVIOUS
  <2>7. PICK n : n = Cardinality(R) /\ n \in Nat /\ Cardinality(T) = n + 1
    <3>1. Cardinality(R) = Cardinality(T) - 1 /\ IsFiniteSet(R)
      BY <2>3, <2>5, <2>6, FS_RemoveElement
    <3> QED
      BY <2>3, <3>1, FS_CardinalityType
  <2>8. PICK s \in [1 .. n -> R] : Ordered(s)
    BY <2>3, <2>5, <2>6, <2>7
  <2>9. x \in E /\ R \in SUBSET E /\ x \notin R /\ R \cup {x} = T
    BY <2>3, <2>5, <2>6
  <2>10. \E u \in [1 .. (n + 1) -> R \cup {x}] : Ordered(u)
    BY <2>7, <2>8, <2>9, Inserted
  <2> QED
    BY <2>3, <2>7, <2>9, <2>10
<1> QED
  BY <1>1

LEMMA OrderOf ==
  ASSUME NEW E, IsFiniteSet(E), Linear(E), NEW s, s = InOrder(E)
  PROVE  s \in [1 .. Cardinality(E) -> E] /\ Ordered(s)
<1>1. \E u \in [1 .. Cardinality(E) -> E] : \A i, j \in DOMAIN u : i < j => Precedes(u[i], u[j])
  BY OrderExists, Zenon DEF Ordered
<1> QED
  BY <1>1, Zenon DEF InOrder, Ordered

\* The order has every entry once.
LEMMA EveryEntry ==
  ASSUME NEW E, IsFiniteSet(E), Linear(E), NEW s \in [1 .. Cardinality(E) -> E], Ordered(s)
  PROVE  /\ \A i, j \in DOMAIN s : s[i] = s[j] => i = j
         /\ \A e \in E : \E i \in DOMAIN s : s[i] = e
<1>1. PICK n : n = Cardinality(E) /\ n \in Nat
  BY FS_CardinalityType
<1>2. s \in [1 .. n -> E] /\ DOMAIN s = 1 .. n
  BY <1>1
<1>3. ASSUME NEW i \in 1 .. n, NEW j \in 1 .. n, s[i] = s[j] PROVE i = j
  <2>1. ~(i < j) /\ ~(j < i)
    BY <1>2, <1>3 DEF Ordered, Linear
  <2> QED
    BY <2>1
<1>4. s \in Injection(1 .. n, E)
  BY <1>2, <1>3 DEF Injection, IsInjective
<1>5. Cardinality(1 .. n) = Cardinality(E)
  BY <1>1, UpTo
<1>6. s \in Surjection(1 .. n, E)
  BY <1>4, <1>5, FS_Injection
<1> QED
  BY <1>2, <1>3, <1>6 DEF Surjection

-----------------------------------------------------------------------------
(* What the active cases are worth                                         *)

\* One step of the server's sum over the active cases, and of the browser's sum
\* over the entries of the answer.
ServerStep(active, f) ==
    [s \in SUBSET DOMAIN active |-> IF s = {} THEN 0
        ELSE Max({active[CHOOSE x \in s : TRUE].facts.value, 0}) + f[s \ {CHOOSE x \in s : TRUE}]]

BrowserStep(entries, f) ==
    [s \in SUBSET DOMAIN entries |-> IF s = {} THEN 0
        ELSE IF entries[CHOOSE x \in s : TRUE].kind = "POSITIVE"
             THEN entries[CHOOSE x \in s : TRUE].amount + f[s \ {CHOOSE x \in s : TRUE}]
             ELSE f[s \ {CHOOSE x \in s : TRUE}]]

ServerSum(active) == (CHOOSE f : f = ServerStep(active, f))[DOMAIN active]

BrowserSum(entries) == (CHOOSE f : f = BrowserStep(entries, f))[DOMAIN entries]

LEMMA ServerWorth ==
  ASSUME NEW active
  PROVE  MapThenSumSet(LAMBDA id : Max({active[id].facts.value, 0}), DOMAIN active) = ServerSum(active)
BY DEF MapThenSumSet, MapThenFoldSet, ServerSum, ServerStep

LEMMA BrowserWorth ==
  ASSUME NEW entries
  PROVE  FoldFunction(LAMBDA e, sum :
             IF e.kind = "POSITIVE" THEN e.amount + sum ELSE sum, 0, entries) = BrowserSum(entries)
BY DEF FoldFunction, FoldFunctionOnSet, MapThenFoldSet, BrowserSum, BrowserStep

\* A step adds the weight of one element.
LEMMA OneStep ==
  ASSUME NEW S, NEW w \in [S -> Nat], NEW next, NEW f, DOMAIN next = SUBSET S,
         next = [s \in DOMAIN next |-> next[s]], next[{}] = 0,
         \A s \in SUBSET S : s # {} /\ f[s \ {First(s)}] \in Nat =>
              next[s] = w[First(s)] + f[s \ {First(s)}]
  PROVE  /\ f = next => SumsUp(f, S, w)
         /\ IsFiniteSet(S) /\ f = Totals(w, S) => f = next
<1>1. f = next => SumsUp(f, S, w)
  BY DEF SumsUp
<1>2. ASSUME IsFiniteSet(S), f = Totals(w, S) PROVE f = next
  <2>1. /\ f[{}] = 0
        /\ \A s \in SUBSET S : s # {} => f[s] = w[First(s)] + f[s \ {First(s)}]
        /\ \A s \in SUBSET S : f[s] \in Nat
    BY <1>2, UnitsSum
  <2>2. DOMAIN f = SUBSET S /\ f = [s \in DOMAIN f |-> f[s]]
    BY <1>2 DEF Totals
  <2>3. ASSUME NEW s \in SUBSET S PROVE f[s] = next[s]
    BY <2>1
  <2> QED
    BY <2>2, <2>3
<1> QED
  BY <1>1, <1>2

\* What the cases and the entries weigh.
CaseWeights(active, S, w) ==
    /\ S = DOMAIN active /\ IsFiniteSet(S) /\ w \in [S -> Nat]
    /\ \A id \in S : w[id] = Max({active[id].facts.value, 0})

EntryWeights(entries, S, w) ==
    /\ S = DOMAIN entries /\ IsFiniteSet(S) /\ w \in [S -> Nat]
    /\ \A i \in S : /\ entries[i].kind = "POSITIVE" => w[i] = entries[i].amount
                    /\ entries[i].kind # "POSITIVE" => w[i] = 0

LEMMA ServerAdds ==
  ASSUME NEW active, NEW S, NEW w, CaseWeights(active, S, w)
  PROVE  ServerSum(active) = Cardinality(Units(w, S))
<1> USE DEF CaseWeights
<1>1. ASSUME NEW f, NEW next, next = ServerStep(active, f)
      PROVE  /\ f = next => SumsUp(f, S, w)
             /\ f = Totals(w, S) => f = next
  <2>1. DOMAIN next = SUBSET S /\ next = [s \in DOMAIN next |-> next[s]] /\ next[{}] = 0
    BY <1>1 DEF ServerStep
  <2>2. ASSUME NEW s \in SUBSET S, s # {}
        PROVE  next[s] = w[First(s)] + f[s \ {First(s)}]
    <3>1. PICK x : x = First(s) /\ x = (CHOOSE y \in s : TRUE) /\ x \in S
      BY <2>2, Zenon DEF First
    <3>2. next[s] = Max({active[x].facts.value, 0}) + f[s \ {x}]
      BY <1>1, <2>2, <3>1, Zenon DEF ServerStep
    <3> QED
      BY <3>1, <3>2, Zenon
  <2> QED
    BY <2>1, <2>2, OneStep
<1>2. PICK units : units = Totals(w, S)
  OBVIOUS
<1>3. units = ServerStep(active, units)
  BY <1>1, <1>2
<1>4. PICK f : f = ServerStep(active, f) /\ ServerSum(active) = f[S]
  BY <1>3, Zenon DEF ServerSum
<1>5. SumsUp(f, S, w)
  BY <1>1, <1>4
<1>6. \A s \in SUBSET S : f[s] = Cardinality(Units(w, s))
  BY <1>5, SumIsUnits
<1> QED
  BY <1>4, <1>6

LEMMA BrowserAdds ==
  ASSUME NEW entries, NEW S, NEW w, EntryWeights(entries, S, w)
  PROVE  BrowserSum(entries) = Cardinality(Units(w, S))
<1> USE DEF EntryWeights
<1>1. ASSUME NEW f, NEW next, next = BrowserStep(entries, f)
      PROVE  /\ f = next => SumsUp(f, S, w)
             /\ f = Totals(w, S) => f = next
  <2>1. DOMAIN next = SUBSET S /\ next = [s \in DOMAIN next |-> next[s]] /\ next[{}] = 0
    BY <1>1 DEF BrowserStep
  <2>2. ASSUME NEW s \in SUBSET S, s # {}, f[s \ {First(s)}] \in Nat
        PROVE  next[s] = w[First(s)] + f[s \ {First(s)}]
    <3>1. PICK x, n : /\ x = First(s) /\ x = (CHOOSE y \in s : TRUE) /\ x \in S
                      /\ n = f[s \ {x}] /\ n \in Nat
      BY <2>2, Zenon DEF First
    <3>2. /\ entries[x].kind = "POSITIVE" => next[s] = entries[x].amount + f[s \ {x}]
          /\ entries[x].kind # "POSITIVE" => next[s] = f[s \ {x}]
      BY <1>1, <2>2, <3>1, Zenon DEF BrowserStep
    <3>3. next[s] = w[x] + n
      BY <3>1, <3>2
    <3> QED
      BY <3>1, <3>3, Zenon
  <2> QED
    BY <2>1, <2>2, OneStep
<1>2. PICK units : units = Totals(w, S)
  OBVIOUS
<1>3. units = BrowserStep(entries, units)
  BY <1>1, <1>2
<1>4. PICK f : f = BrowserStep(entries, f) /\ BrowserSum(entries) = f[S]
  BY <1>3, Zenon DEF BrowserSum
<1>5. SumsUp(f, S, w)
  BY <1>1, <1>4
<1>6. \A s \in SUBSET S : f[s] = Cardinality(Units(w, s))
  BY <1>5, SumIsUnits
<1> QED
  BY <1>4, <1>6

-----------------------------------------------------------------------------
(* The answer of a queue request                                           *)

\* An entry, field by field.
EntryIs(e, id, r, at) ==
    /\ e.id = id /\ e.state = r.state /\ e.detected = r.detected /\ e.facts = r.facts
    /\ e.kind = ValueKind(r.facts.value) /\ e.amount = r.facts.value
    /\ e.age = at - r.detected /\ e.urgency = Urgency(r, at) /\ e.wake = r.wake

LEMMA EntryFields ==
  ASSUME NEW id, NEW r, NEW at, NEW e, e = Entry(id, r, at)
  PROVE  EntryIs(e, id, r, at)
<1>1. PICK kind, urgency, age : kind = ValueKind(r.facts.value) /\ urgency = Urgency(r, at)
                                /\ age = at - r.detected
  OBVIOUS
<1>2. e = [id |-> id, opp |-> r.opp, state |-> r.state, detected |-> r.detected,
           facts |-> r.facts, kind |-> kind, amount |-> r.facts.value, age |-> age,
           urgency |-> urgency, wake |-> r.wake, action |-> r.action]
  BY <1>1, Zenon DEF Entry
<1>3. /\ e.id = id /\ e.state = r.state /\ e.detected = r.detected /\ e.facts = r.facts
      /\ e.kind = kind /\ e.amount = r.facts.value /\ e.age = age
      /\ e.urgency = urgency /\ e.wake = r.wake
  BY <1>2
<1> QED
  BY <1>1, <1>3 DEF EntryIs

Urgencies == {"SNOOZE_WAKE_DUE", "OPEN_NO_OVERDUE_DEADLINE", "SNOOZED_UNTIL_FUTURE"}

ValueKinds == {"POSITIVE", "ZERO", "UNKNOWN"}

\* What a queue is made of.
Ranked(e, id, value) ==
    /\ RankOf(e) \in Ranks /\ RankOf(e)[5] = id
    /\ e.urgency \in Urgencies /\ e.kind \in ValueKinds
    /\ e.kind = "POSITIVE" <=> value > 0
    /\ e.amount = value /\ e.id = id /\ value \in Int /\ id \in Int /\ e.age \in Int

LEMMA EntryRank ==
  ASSUME NEW id \in Int, NEW r, NEW at \in Int, NEW e, EntryIs(e, id, r, at),
         r.detected \in Int, r.facts.value \in {Unknown} \cup Nat
  PROVE  Ranked(e, id, r.facts.value)
<1>1. PICK value, kind, urgency, age :
        /\ value = r.facts.value /\ kind = e.kind /\ urgency = e.urgency /\ age = e.age
  OBVIOUS
<1>2. value \in Int /\ value \in {-1} \cup Nat
  BY <1>1 DEF Unknown
<1>3. kind \in ValueKinds /\ (kind = "POSITIVE" <=> value > 0)
  <2>1. kind = ValueKind(value)
    BY <1>1 DEF EntryIs
  <2> QED
    BY <1>2, <2>1 DEF ValueKind, ValueKinds, Unknown
<1>4. urgency \in Urgencies
  <2>1. urgency = Urgency(r, at)
    BY <1>1 DEF EntryIs
  <2> QED
    BY <2>1, Zenon DEF Urgency, Urgencies
<1>5. UrgencyTier[urgency] \in Int
  BY <1>4 DEF UrgencyTier, Urgencies
<1>6. ValueTier[kind] \in Int
  BY <1>3 DEF ValueTier, ValueKinds
<1>7. age \in Int /\ 0 - age \in Int
  BY <1>1 DEF EntryIs
<1>8. PICK most : /\ kind = "POSITIVE" => most = 0 - value
                  /\ kind # "POSITIVE" => most = 0
                  /\ most = IF kind = "POSITIVE" THEN 0 - value ELSE 0
  OBVIOUS
<1>9. most \in Int
  BY <1>2, <1>8
<1>10. RankOf(e) = <<UrgencyTier[urgency], ValueTier[kind], most, 0 - age, id>>
  <2>1. e.amount = value /\ e.id = id
    BY <1>1 DEF EntryIs
  <2> QED
    BY <1>1, <1>8, <2>1, Zenon DEF RankOf
<1>11. RankOf(e) \in Ranks /\ RankOf(e)[5] = id
  BY <1>5, <1>6, <1>7, <1>9, <1>10 DEF Ranks
<1>12. e.amount = value /\ e.id = id
  BY <1>1 DEF EntryIs
<1> QED
  BY <1>1, <1>2, <1>3, <1>4, <1>7, <1>11, <1>12 DEF Ranked

LEMMA EntryReads ==
  ASSUME NEW id, NEW r, NEW at, NEW e, EntryIs(e, id, r, at), r.state \in ActiveCases, Recorded(r),
         r.detected <= at
  PROVE  EntryReadable(e, at)
<1>1. /\ StalledSince(r.facts) <= r.detected
      /\ EvidenceReadable(r.facts, "STALE_WITHOUT_NEXT_ACTION", r.detected)
  BY DEF Recorded
<1>2. UrgencyReadable(e, at)
  <2>1. e.urgency = Urgency(r, at) /\ e.state = r.state /\ e.wake = r.wake
    BY DEF EntryIs
  <2> QED
    BY <2>1, Zenon DEF UrgencyReadable, Urgency
<1>3. e.kind = IF e.amount = Unknown THEN "UNKNOWN" ELSE IF e.amount = 0 THEN "ZERO" ELSE "POSITIVE"
  <2>1. e.kind = ValueKind(r.facts.value) /\ e.amount = r.facts.value
    BY DEF EntryIs
  <2> QED
    BY <2>1, Zenon DEF ValueKind
<1>4. /\ e.state = r.state /\ e.detected = r.detected /\ e.facts = r.facts
      /\ e.age = at - r.detected
  BY DEF EntryIs
<1>5. StalledSince(e.facts) <= e.detected
  BY <1>1, <1>4, Zenon
<1>6. EvidenceReadable(e.facts, "STALE_WITHOUT_NEXT_ACTION", e.detected)
  BY <1>1, <1>4, Zenon
<1>7. e.state \in ActiveCases /\ e.detected <= at /\ e.age = at - e.detected
  BY <1>4, Zenon
<1> QED
  BY <1>2, <1>3, <1>5, <1>6, <1>7, Zenon DEF EntryReadable

\* The browser finds the entries in its own order.
LEMMA InBrowserOrder ==
  ASSUME NEW x, NEW y, NEW i, NEW j, NEW m, NEW n, Ranked(x, i, m), Ranked(y, j, n), Precedes(x, y)
  PROVE  NotAfter(x, y)
<1>1. PICK p, q : p = RankOf(x) /\ q = RankOf(y) /\ p \in Ranks /\ q \in Ranks
  BY DEF Ranked
<1>2. Before(p, q)
  BY <1>1, Zenon DEF Precedes, Before, RankOf
<1>3. /\ p[1] \in Int /\ p[2] \in Int /\ p[3] \in Int /\ p[4] \in Int /\ p[5] \in Int
      /\ q[1] \in Int /\ q[2] \in Int /\ q[3] \in Int /\ q[4] \in Int /\ q[5] \in Int
  BY <1>1, BeforeIs
<1>4. \/ p[1] < q[1]
      \/ p[1] = q[1] /\ p[2] < q[2]
      \/ p[1] = q[1] /\ p[2] = q[2] /\ p[3] < q[3]
      \/ p[1] = q[1] /\ p[2] = q[2] /\ p[3] = q[3] /\ p[4] < q[4]
      \/ p[1] = q[1] /\ p[2] = q[2] /\ p[3] = q[3] /\ p[4] = q[4] /\ p[5] < q[5]
  BY <1>1, <1>2, BeforeIs
<1>5. ASSUME NEW z, NEW r, r = RankOf(z)
      PROVE  /\ r[1] = UrgencyTier[z.urgency] /\ r[2] = ValueTier[z.kind]
             /\ z.kind = "POSITIVE" => r[3] = 0 - z.amount
             /\ z.kind # "POSITIVE" => r[3] = 0
             /\ r[4] = 0 - z.age /\ r[5] = z.id
  BY <1>5 DEF RankOf
<1>6. /\ p[1] = UrgencyTier[x.urgency] /\ p[2] = ValueTier[x.kind]
      /\ x.kind = "POSITIVE" => p[3] = 0 - x.amount
      /\ x.kind # "POSITIVE" => p[3] = 0
      /\ p[4] = 0 - x.age /\ p[5] = x.id
  BY <1>1, <1>5
<1>7. /\ q[1] = UrgencyTier[y.urgency] /\ q[2] = ValueTier[y.kind]
      /\ y.kind = "POSITIVE" => q[3] = 0 - y.amount
      /\ y.kind # "POSITIVE" => q[3] = 0
      /\ q[4] = 0 - y.age /\ q[5] = y.id
  BY <1>1, <1>5
<1>8. p[2] = q[2] => x.kind = y.kind
  <2>1. x.kind \in ValueKinds /\ y.kind \in ValueKinds
    BY DEF Ranked
  <2> QED
    BY <1>6, <1>7, <2>1 DEF ValueTier, ValueKinds
<1>9. /\ x.amount \in Int /\ y.amount \in Int /\ x.age \in Int /\ y.age \in Int
      /\ x.id \in Int /\ y.id \in Int
  BY DEF Ranked
<1>10. x.kind = y.kind /\ x.kind = "POSITIVE" =>
          /\ p[3] < q[3] => x.amount > y.amount
          /\ p[3] = q[3] => x.amount = y.amount
  BY <1>6, <1>7, <1>9
<1>11. x.kind = y.kind /\ x.kind # "POSITIVE" => p[3] = q[3]
  BY <1>6, <1>7
<1>12. /\ p[4] < q[4] => x.age > y.age
       /\ p[4] = q[4] => x.age = y.age
       /\ p[5] < q[5] => x.id <= y.id
  BY <1>6, <1>7, <1>9
<1>13. CASE p[1] < q[1]
  BY <1>6, <1>7, <1>13 DEF NotAfter
<1>14. CASE p[1] = q[1] /\ p[2] < q[2]
  BY <1>6, <1>7, <1>14 DEF NotAfter
<1>15. CASE p[1] = q[1] /\ p[2] = q[2] /\ p[3] < q[3]
  <2>1. x.kind = "POSITIVE" /\ x.kind = y.kind
    BY <1>3, <1>8, <1>11, <1>15
  <2>2. x.amount > y.amount
    BY <1>10, <1>15, <2>1
  <2> QED
    BY <1>6, <1>7, <1>15, <2>1, <2>2 DEF NotAfter
<1>16. CASE /\ p[1] = q[1] /\ p[2] = q[2] /\ p[3] = q[3]
            /\ p[4] < q[4] \/ (p[4] = q[4] /\ p[5] < q[5])
  <2>1. /\ x.kind = y.kind /\ (x.kind = "POSITIVE" => x.amount = y.amount)
        /\ x.age > y.age \/ (x.age = y.age /\ x.id <= y.id)
    BY <1>8, <1>10, <1>12, <1>16
  <2> QED
    BY <1>6, <1>7, <1>16, <2>1 DEF NotAfter
<1> QED
  BY <1>4, <1>13, <1>14, <1>15, <1>16

\* The entries that a queue is made of, for cases that are all active.
QueueOf(active, at, E) ==
    /\ IsFiniteSet(E) /\ Linear(E) /\ Cardinality(E) = Cardinality(DOMAIN active)
    /\ \A id \in DOMAIN active : \E e \in E : e.id = id
    /\ \A x, y \in E : x.id = y.id => x = y
    /\ \A e \in E : /\ e.id \in DOMAIN active /\ EntryIs(e, e.id, active[e.id], at)
                    /\ Ranked(e, e.id, active[e.id].facts.value)

LEMMA EntriesOfQueue ==
  ASSUME NEW active, IsFiniteSet(DOMAIN active), DOMAIN active \subseteq Nat, NEW at \in Int,
         \A id \in DOMAIN active : /\ active[id].detected \in Int
                                   /\ active[id].facts.value \in {Unknown} \cup Nat,
         NEW E, E = {Entry(id, active[id], at) : id \in DOMAIN active}
  PROVE  QueueOf(active, at, E)
<1>1. ASSUME NEW id \in DOMAIN active, NEW e, e = Entry(id, active[id], at)
      PROVE  /\ EntryIs(e, id, active[id], at) /\ Ranked(e, id, active[id].facts.value)
             /\ e.id = id
  <2>1. EntryIs(e, id, active[id], at)
    BY <1>1, EntryFields
  <2>2. id \in Int /\ active[id].detected \in Int /\ active[id].facts.value \in {Unknown} \cup Nat
    OBVIOUS
  <2>3. PICK r : r = active[id]
    OBVIOUS
  <2>4. Ranked(e, id, r.facts.value)
    BY <2>1, <2>2, <2>3, EntryRank
  <2>5. e.id = id
    BY <2>1 DEF EntryIs
  <2> QED
    BY <2>1, <2>3, <2>4, <2>5
<1>2. ASSUME NEW e \in E
      PROVE  /\ e.id \in DOMAIN active /\ EntryIs(e, e.id, active[e.id], at)
             /\ Ranked(e, e.id, active[e.id].facts.value) /\ e = Entry(e.id, active[e.id], at)
  <2>1. PICK id \in DOMAIN active : e = Entry(id, active[id], at)
    OBVIOUS
  <2>2. /\ EntryIs(e, id, active[id], at) /\ Ranked(e, id, active[id].facts.value)
        /\ e.id = id
    BY <1>1, <2>1
  <2> QED
    BY <2>1, <2>2, Zenon
<1>3. \A x, y \in E : x.id = y.id => x = y
  BY <1>2, Zenon
<1>4. \A id \in DOMAIN active : \E e \in E : e.id = id
  BY <1>1
<1>5. Linear(E)
  <2>1. \A x \in E : RankOf(x) \in Ranks /\ RankOf(x)[5] = x.id
    BY <1>2 DEF Ranked
  <2>2. \A x, y \in E : RankOf(x)[5] = RankOf(y)[5] => x = y
    BY <1>3, <2>1
  <2> QED
    BY <2>1, <2>2, RankedIsLinear
<1>6. IsFiniteSet(E) /\ Cardinality(E) = Cardinality(DOMAIN active)
  <2>1. PICK m : m = [id \in DOMAIN active |-> Entry(id, active[id], at)]
    OBVIOUS
  <2>2. \A id \in DOMAIN active : m[id] \in E /\ m[id].id = id
    BY <1>1, <2>1
  <2>3. DOMAIN m = DOMAIN active /\ m = [id \in DOMAIN m |-> m[id]]
    BY <2>1
  <2>4. m \in [DOMAIN active -> E]
    BY <2>2, <2>3
  <2>5. \A i, j \in DOMAIN active : m[i] = m[j] => i = j
    BY <2>2
  <2>6. \A e \in E : \E id \in DOMAIN active : m[id] = e
    BY <1>2, <1>3, <2>2
  <2>7. m \in Bijection(DOMAIN active, E)
    BY <2>4, <2>5, <2>6 DEF Bijection, Injection, Surjection, IsInjective
  <2> QED
    BY <2>7, FS_Bijection, Zenon DEF ExistsBijection
<1> QED
  BY <1>2, <1>3, <1>4, <1>5, <1>6, Zenon DEF QueueOf

\* The answer, field by field.
LEMMA QueueFields ==
  ASSUME NEW active, NEW at, NEW a, a = Queue(active, at)
  PROVE  /\ a.op = "queue" /\ a.at = at /\ a.total = Cardinality(DOMAIN active)
         /\ a.entries = InOrder({Entry(id, active[id], at) : id \in DOMAIN active})
         /\ a.worth = ServerSum(active)
<1>1. PICK entries, worth, total :
        /\ entries = InOrder({Entry(id, active[id], at) : id \in DOMAIN active})
        /\ worth = MapThenSumSet(LAMBDA id : Max({active[id].facts.value, 0}), DOMAIN active)
        /\ total = Cardinality(DOMAIN active)
  OBVIOUS
<1>2. a = [op |-> "queue", at |-> at, total |-> total, entries |-> entries, worth |-> worth]
  BY <1>1, Zenon DEF Queue
<1>3. a.op = "queue" /\ a.at = at /\ a.total = total /\ a.entries = entries /\ a.worth = worth
  BY <1>2
<1>4. worth = ServerSum(active)
  BY <1>1, ServerWorth, Zenon
<1> QED
  BY <1>1, <1>3, <1>4

\* An entry is worth as much as its case.
LEMMA SameWorth ==
  ASSUME NEW active, IsFiniteSet(DOMAIN active), NEW at,
         \A id \in DOMAIN active : active[id].facts.value \in {Unknown} \cup Nat,
         NEW E, QueueOf(active, at, E), NEW s, s \in [1 .. Cardinality(E) -> E],
         \A i, j \in DOMAIN s : s[i] = s[j] => i = j,
         \A e \in E : \E i \in DOMAIN s : s[i] = e
  PROVE  ServerSum(active) = BrowserSum(s)
<1>1. PICK S, T : S = DOMAIN s /\ T = DOMAIN active
  OBVIOUS
<1>2. /\ IsFiniteSet(T) /\ IsFiniteSet(S) /\ S = 1 .. Cardinality(E)
  <2>1. Cardinality(E) \in Nat
    BY FS_CardinalityType DEF QueueOf
  <2> QED
    BY <1>1, <2>1, UpTo
<1>3. PICK w : /\ w \in [T -> Nat]
               /\ \A id \in T : w[id] = Max({active[id].facts.value, 0})
               /\ \A id \in T : /\ active[id].facts.value > 0 => w[id] = active[id].facts.value
                                /\ ~(active[id].facts.value > 0) => w[id] = 0
  <2>1. ASSUME NEW x \in {-1} \cup Nat
        PROVE  /\ Max({x, 0}) \in Nat
               /\ x > 0 => Max({x, 0}) = x
               /\ ~(x > 0) => Max({x, 0}) = 0
    BY DEF Max
  <2>2. ASSUME NEW id \in T
        PROVE  /\ Max({active[id].facts.value, 0}) \in Nat
               /\ active[id].facts.value > 0 =>
                    Max({active[id].facts.value, 0}) = active[id].facts.value
               /\ ~(active[id].facts.value > 0) => Max({active[id].facts.value, 0}) = 0
    <3>1. active[id].facts.value \in {-1} \cup Nat
      BY <1>1 DEF Unknown
    <3> QED
      BY <2>1, <3>1
  <2>3. PICK w : w = [id \in T |-> Max({active[id].facts.value, 0})]
    OBVIOUS
  <2>4. \A id \in T : w[id] = Max({active[id].facts.value, 0})
    BY <2>3, Zenon
  <2>5. w \in [T -> Nat]
    BY <2>2, <2>3
  <2>6. \A id \in T : /\ active[id].facts.value > 0 => w[id] = active[id].facts.value
                      /\ ~(active[id].facts.value > 0) => w[id] = 0
    BY <2>2, <2>4
  <2> QED
    BY <2>4, <2>5, <2>6
<1>4. PICK b : b = [i \in S |-> s[i].id]
  OBVIOUS
<1>5. ASSUME NEW i \in S
      PROVE  /\ s[i] \in E /\ b[i] = s[i].id /\ b[i] \in T
             /\ s[i].kind = "POSITIVE" <=> active[b[i]].facts.value > 0
             /\ s[i].amount = active[b[i]].facts.value
  <2>1. s[i] \in E /\ b[i] = s[i].id
    BY <1>1, <1>4
  <2>2. s[i].id \in T /\ Ranked(s[i], s[i].id, active[s[i].id].facts.value)
    BY <1>1, <2>1 DEF QueueOf
  <2> QED
    BY <2>1, <2>2 DEF Ranked
<1>6. b \in [S -> T]
  BY <1>4, <1>5
<1>7. ASSUME NEW i \in S, NEW j \in S, b[i] = b[j] PROVE i = j
  <2>1. s[i] = s[j]
    BY <1>5, <1>7 DEF QueueOf
  <2> QED
    BY <1>1, <2>1
<1>8. \A id \in T : \E i \in S : b[i] = id
  BY <1>1, <1>5 DEF QueueOf
<1>9. PICK v : v = [i \in S |-> w[b[i]]]
  OBVIOUS
<1>10. v \in [S -> Nat] /\ \A i \in S : w[b[i]] = v[i]
  BY <1>3, <1>6, <1>9
<1>11. \A i \in S : /\ s[i].kind = "POSITIVE" => v[i] = s[i].amount
                    /\ s[i].kind # "POSITIVE" => v[i] = 0
  BY <1>3, <1>5, <1>10
<1>12. BrowserSum(s) = Cardinality(Units(v, S))
  <2>1. EntryWeights(s, S, v)
    BY <1>1, <1>2, <1>10, <1>11 DEF EntryWeights
  <2> QED
    BY <2>1, BrowserAdds
<1>13. ServerSum(active) = Cardinality(Units(w, T))
  <2>1. CaseWeights(active, T, w)
    BY <1>1, <1>2, <1>3 DEF CaseWeights
  <2> QED
    BY <2>1, ServerAdds
<1>14. Cardinality(Units(v, S)) = Cardinality(Units(w, T))
  <2>1. Renamed(S, v, T, w, b)
    BY <1>2, <1>3, <1>6, <1>7, <1>8, <1>10 DEF Renamed
  <2> QED
    BY <2>1, SameUnits
<1> QED
  BY <1>12, <1>13, <1>14

\* A queue answer that is made of readable cases is readable.
LEMMA QueueStands ==
  ASSUME NEW active, IsFiniteSet(DOMAIN active), Cardinality(DOMAIN active) <= Limit,
         DOMAIN active \subseteq Nat, NEW at \in Int, at <= now,
         \A id \in DOMAIN active :
            /\ active[id].detected \in Int /\ active[id].facts.value \in {Unknown} \cup Nat
            /\ active[id].state \in ActiveCases /\ Recorded(active[id]) /\ active[id].detected <= at,
         NEW a, a = Queue(active, at)
  PROVE  a.op = "queue" /\ QueueReadable(a, now)
<1>1. PICK E, s : E = {Entry(id, active[id], at) : id \in DOMAIN active} /\ s = InOrder(E)
  OBVIOUS
<1>2. /\ a.op = "queue" /\ a.at = at /\ a.total = Cardinality(DOMAIN active)
      /\ a.entries = s /\ a.worth = ServerSum(active)
  BY <1>1, QueueFields
<1>3. QueueOf(active, at, E)
  BY <1>1, EntriesOfQueue
<1>4. PICK n : n = Cardinality(E) /\ n \in Nat /\ n = Cardinality(DOMAIN active)
  BY <1>3, FS_CardinalityType DEF QueueOf
<1>5. s \in [1 .. Cardinality(E) -> E] /\ Ordered(s)
  BY <1>1, <1>3, OrderOf DEF QueueOf
<1>6. /\ \A i, j \in DOMAIN s : s[i] = s[j] => i = j
      /\ \A e \in E : \E i \in DOMAIN s : s[i] = e
  BY <1>3, <1>5, EveryEntry DEF QueueOf
<1>7. s \in Seq(E) /\ Len(s) = n /\ DOMAIN s = 1 .. n
  BY <1>4, <1>5
<1>8. ASSUME NEW i \in DOMAIN s PROVE EntryReadable(s[i], at)
  <2>1. PICK e, id, r : e = s[i] /\ e \in E /\ id = e.id /\ r = active[id]
    BY <1>7
  <2>2. EntryIs(e, id, r, at) /\ id \in DOMAIN active
    BY <1>3, <2>1 DEF QueueOf
  <2>3. r.state \in ActiveCases /\ Recorded(r) /\ r.detected <= at
    BY <2>1, <2>2
  <2> QED
    BY <2>1, <2>2, <2>3, EntryReads
<1>9. ASSUME NEW i \in DOMAIN s, NEW j \in DOMAIN s, i < j
      PROVE  s[i].id # s[j].id /\ NotAfter(s[i], s[j])
  <2>1. PICK x, y : x = s[i] /\ y = s[j] /\ x \in E /\ y \in E
    BY <1>7
  <2>2. Precedes(x, y) /\ x # y
    BY <1>5, <1>6, <1>7, <1>9, <2>1 DEF Ordered
  <2>3. x.id # y.id
    BY <1>3, <2>1, <2>2 DEF QueueOf
  <2>4. PICK k, l, m, n2 : Ranked(x, k, m) /\ Ranked(y, l, n2)
    BY <1>3, <2>1 DEF QueueOf
  <2> QED
    BY <2>1, <2>2, <2>3, <2>4, InBrowserOrder
<1>10. a.worth = BrowserSum(s)
  <2>1. \A id \in DOMAIN active : active[id].facts.value \in {Unknown} \cup Nat
    OBVIOUS
  <2>2. ServerSum(active) = BrowserSum(s)
    BY <1>3, <1>5, <1>6, <2>1, SameWorth
  <2> QED
    BY <1>2, <2>2
<1>11. a.worth = FoldFunction(LAMBDA e, sum :
             IF e.kind = "POSITIVE" THEN e.amount + sum ELSE sum, 0, s)
  BY <1>10, BrowserWorth, Zenon
<1>12. a.at <= now /\ a.total <= Limit /\ Len(a.entries) = a.total
  BY <1>2, <1>4, <1>7
<1> QED
  BY <1>2, <1>8, <1>9, <1>11, <1>12, Zenon DEF QueueReadable

LEMMA QueueReads ==
  ASSUME IInv, RecordsInv, NEW c \in Clients, AnswerQueue(c), reply'.op = "queue"
  PROVE  ReplyReads
<1>1. PICK active, at : /\ active = [id \in {i \in DOMAIN cases : cases[i].state \in ActiveCases}
                                      |-> cases[id]]
                        /\ at = tx[c].at
  OBVIOUS
<1>2. \A code : ~Refuse(c, code)
  BY DEF Refuse, Answer
<1>3. /\ ~(Cardinality(DOMAIN active) > Limit)
      /\ \A id \in DOMAIN active : ~(active[id].detected > at)
      /\ reply' = Queue(active, at)
  BY <1>1, <1>2, Zenon DEF AnswerQueue, Answer
<1>4. at \in Nat /\ at <= now
  <2>1. tx[c] # Idle
    BY DEF AnswerQueue, Idle
  <2> QED
    BY <1>1, <2>1, Times DEF IInv, Knows
<1>5. ASSUME NEW id \in DOMAIN active
      PROVE  /\ active[id].detected \in Int /\ active[id].facts.value \in {Unknown} \cup Nat
             /\ active[id].state \in ActiveCases /\ Recorded(active[id])
             /\ id \in 1 .. MaxCases /\ active[id].detected <= at
  <2>1. PICK r : r = active[id] /\ r = cases[id] /\ id \in DOMAIN cases /\ r.state \in ActiveCases
    BY <1>1
  <2>2. id \in 1 .. MaxCases /\ r \in CaseRows /\ r.detected \in Nat
    BY <2>1, CaseRow DEF IInv, Typed
  <2>3. r.facts.value \in {Unknown} \cup Nat
    <3>1. r.facts \in FactRows
      BY <2>2 DEF CaseRows
    <3>2. PICK e \in Evidence(Nat) : r.facts = Facts(e)
      BY <3>1 DEF FactRows
    <3>3. r.facts.value = e.value /\ e.value \in {Unknown} \cup Nat
      BY <3>2 DEF Facts, Evidence
    <3> QED
      BY <3>3
  <2>4. Recorded(r)
    BY <2>1 DEF RecordsInv
  <2>5. r.detected <= at
    <3>1. PICK d : d = r.detected /\ d \in Nat
      BY <2>2
    <3>2. ~(d > at)
      BY <1>3, <2>1, <3>1, Zenon
    <3> QED
      BY <1>4, <3>1, <3>2
  <2> QED
    BY <2>1, <2>2, <2>3, <2>4, <2>5
<1>6. IsFiniteSet(DOMAIN active) /\ DOMAIN active \subseteq Nat
  <2>1. DOMAIN active \subseteq 1 .. MaxCases
    BY <1>5
  <2>2. PICK k \in Nat : k = MaxCases
    BY BoundAssumption
  <2>3. IsFiniteSet(1 .. k)
    BY UpTo
  <2>4. IsFiniteSet(DOMAIN active)
    BY <2>1, <2>2, <2>3, FS_Subset
  <2> QED
    BY <2>1, <2>2, <2>4
<1>7. Cardinality(DOMAIN active) <= Limit
  BY <1>3, <1>6, FS_CardinalityType, LimitAssumption
<1>8. PICK a : a = reply'
  OBVIOUS
<1>9. a.op = "queue" /\ QueueReadable(a, now)
  <2>1. at \in Int /\ a = Queue(active, at)
    BY <1>3, <1>4, <1>8
  <2> QED
    BY <1>4, <1>5, <1>6, <1>7, <2>1, QueueStands
<1> QED
  BY <1>8, <1>9 DEF ReplyReads, Readable

-----------------------------------------------------------------------------
(* What the browser makes of the answers                                   *)

LEMMA EveryReplyReads ==
  ASSUME IInv, RecordsInv, IInv', RecordsInv', Next, reply'.op \notin {"none", "refused"}
  PROVE  ReplyReads
<1>1. \E c \in Clients :
        \/ Detect(c) /\ reply'.op = "detect"
        \/ Scan(c) /\ reply'.op = "scan"
        \/ AnswerEligibility(c)
        \/ AnswerQueue(c) /\ reply'.op = "queue"
        \/ AnswerList(c)
        \/ (Transition(c) \/ Link(c)) /\ reply'.op = "mutation"
        \/ Handoff(c) /\ reply'.op = "handoff"
  BY Replies
<1> QED
  BY <1>1, DetectReads, ScanReads, EligibilityReads, QueueReads, ListReads, MutationReads,
     HandoffReads

\* The browser, which has its own copy of the detector's rules, of the order of
\* the queue and of the life of a case, and checks every count and sum, refuses
\* no answer of the server: whatever rows, clocks and requests of others an
\* answer combines.  Excepted are, as AnswersAreReadable says, a detection whose
\* opportunity the detector would by now judge differently, and cases whose
\* audit trail is not chronological.
THEOREM BrowserReadsAnswers == Spec => AnswersAreReadable
<1> DEFINE Reads ==
      LET a == reply'
      IN  a.op \notin {"none", "refused"} =>
            \/ Readable(a, now)
            \/ a.op = "detect" /\ Reason(evidence[a.opp], now) # a.reason
            \/ \E id \in DOMAIN cases' : ~Chronological(cases'[id].audit)
<1>1. ASSUME IInv, RecordsInv, IInv', RecordsInv', Next PROVE Reads
  <2> SUFFICES ASSUME reply'.op \notin {"none", "refused"} PROVE ReplyReads
    BY DEF ReplyReads, Excused
  <2> QED
    BY <1>1, EveryReplyReads
<1>2. IInv /\ RecordsInv /\ IInv' /\ RecordsInv' /\ [Next]_vars => [Reads]_vars
  BY <1>1
<1> QED
  BY <1>2, Invariance, Records, PTL DEF Spec, AnswersAreReadable
=============================================================================
