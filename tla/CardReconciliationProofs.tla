---------------------- MODULE CardReconciliationProofs ----------------------
(***************************************************************************)
(* The greedy matching is stable and one to one, for every statement,      *)
(* every set of expenses and every NEAR_DAYS.                              *)
(*                                                                         *)
(* The argument: a pair that fits and whose sides are both free has its    *)
(* best tier still to come; when one side is taken, it is by a pair that   *)
(* the sort key puts first.                                                *)
(***************************************************************************)
EXTENDS CardReconciliation, TLAPS

LinesReadable == \A l \in lines : statement[l] \in Cells \ {Unreadable}

OneLineEach == \A l, m \in Line : match[l] = match[m] /\ match[l] # NoExpense => l = m

(* Both sides of the pair are free.                                        *)
Free(l, e) == match[l] = NoExpense /\ Unused(e)

MatchesFit ==
  \A l \in Line : match[l] # NoExpense =>
    /\ BestTier(l, match[l]) \in Tiers
    /\ matchStatus[l] = StatusOf[BestTier(l, match[l])]

PairsServed ==
  \A l \in lines, e \in counted : BestTier(l, e) \in Tiers =>
    (Free(l, e) /\ BestTier(l, e) >= tier) \/ Served(l, e)

(* Nothing is matched before the file is read.                             *)
BlankUntilRead ==
  tier = 0 => (\A l \in Line : match[l] = NoExpense) /\ lines = {}

Accounted == tier = 5 => counted \subseteq unmatched \union {match[l] : l \in lines}

CardInv ==
  /\ CardTypeOK /\ LinesReadable /\ OneLineEach /\ MatchesFit
  /\ PairsServed /\ BlankUntilRead /\ Accounted

----------------------------------------------------------------------------
(* The best tier is a tier in which the pair fits, and no earlier one is.  *)
LEMMA BestTierFits ==
  ASSUME NEW l, NEW e
  PROVE  /\ BestTier(l, e) \in 1 .. 4
         /\ BestTier(l, e) \in Tiers => Fits(BestTier(l, e), l, e)
         /\ \A t \in Tiers : Fits(t, l, e) => BestTier(l, e) <= t
BY DEF BestTier, Tiers

(* The three statuses are different from each other and from UNMATCHED.    *)
LEMMA StatusNames ==
  \A t \in Tiers : StatusOf[t] # "UNMATCHED"
<1> SUFFICES ASSUME NEW t \in Tiers PROVE StatusOf[t] # "UNMATCHED"
  OBVIOUS
<1>1. t = 1 \/ t = 2 \/ t = 3
  BY DEF Tiers
<1> QED
  BY <1>1 DEF StatusOf

(* Differences of dates are numbers.                                       *)
LEMMA GapNat ==
  ASSUME CardInv, NEW l \in lines, NEW e \in Expenses
  PROVE  Gap(l, e) \in Nat
<1>1. statement[l].day \in Int
  BY CardAssumption DEF CardInv, LinesReadable
<1>2. expense[e].day \in Int
  BY CardAssumption DEF CardInv, CardTypeOK
<1> QED
  BY <1>1, <1>2 DEF Gap

(* A line and its own expense are as good as themselves.                   *)
LEMMA SelfAsGood ==
  ASSUME CardInv, NEW l \in lines, NEW e \in Expenses
  PROVE  AtLeastAsGood(l, e, l, e)
<1>1. l \in Int
  BY CardAssumption DEF CardInv, CardTypeOK, Line
<1> QED
  BY <1>1, GapNat DEF AtLeastAsGood, NoWorse

(* What a pair is worth does not change as long as the file stays.         *)
LEMMA WorthUnchanged ==
  ASSUME UNCHANGED fileVars
  PROVE  \A l, e, m, f :
           /\ BestTier(l, e)' = BestTier(l, e)
           /\ AtLeastAsGood(l, e, m, f)' = AtLeastAsGood(l, e, m, f)
BY DEF fileVars, BestTier, AtLeastAsGood, NoWorse, Gap, Fits, SameAmount,
       SameNumber, NumberMissing

----------------------------------------------------------------------------
LEMMA CardInitInv == CardInit => CardInv
<1> SUFFICES ASSUME CardInit PROVE CardInv
  OBVIOUS
<1>1. CardTypeOK
  BY DEF CardInit, CardTypeOK
<1> QED
  BY <1>1 DEF CardInit, CardInv, LinesReadable, OneLineEach, MatchesFit,
              PairsServed, BlankUntilRead, Accounted

(* Reading the file.                                                       *)
LEMMA ParseInv == CardInv /\ Parse => CardInv'
<1> SUFFICES ASSUME CardInv, Parse PROVE CardInv'
  OBVIOUS
<1> USE DEF CardInv, Parse, fileVars
<1>1. CardTypeOK'
  BY DEF CardTypeOK, Readable, BlankUntilRead
<1>2. LinesReadable'
  BY DEF LinesReadable, CardTypeOK, Readable
<1>3. OneLineEach' /\ BlankUntilRead' /\ Accounted'
  BY DEF OneLineEach, BlankUntilRead, Accounted
<1>4. MatchesFit'
  BY DEF MatchesFit, BlankUntilRead
<1>5. PairsServed'
  <2> SUFFICES ASSUME NEW l \in Readable, NEW e \in counted,
                      (BestTier(l, e) \in Tiers)'
               PROVE  Free(l, e)' /\ (BestTier(l, e) >= 1)'
    BY DEF PairsServed
  <2>1. (BestTier(l, e) >= 1)'
    BY DEF Tiers
  <2>2. Free(l, e)'
    BY CardAssumption DEF BlankUntilRead, Free, Unused, CardTypeOK, NoExpense, Readable
  <2> QED
    BY <2>1, <2>2
<1> QED
  BY <1>1, <1>2, <1>3, <1>4, <1>5

(* One assignment.                                                         *)
LEMMA AssignInv ==
  ASSUME CardInv, NEW k \in Line, NEW x \in Expenses, Assign(k, x)
  PROVE  CardInv'
<1> USE DEF CardInv
<1>1. /\ k \in lines /\ match[k] = NoExpense /\ x \in counted
      /\ Unused(x) /\ Fits(tier, k, x) /\ tier \in Tiers
      /\ match' = [match EXCEPT ![k] = x]
      /\ matchStatus' = [matchStatus EXCEPT ![k] = StatusOf[tier]]
      /\ UNCHANGED <<fileVars, lines, tier, unmatched>>
  BY DEF Assign, Open, Unused
<1>2. x # NoExpense
  BY CardAssumption DEF NoExpense
<1>3. \A l, e, m, f : /\ BestTier(l, e)' = BestTier(l, e)
                      /\ AtLeastAsGood(l, e, m, f)' = AtLeastAsGood(l, e, m, f)
  BY <1>1, WorthUnchanged
(* The pair is chosen in its best tier.                                    *)
<1>4. BestTier(k, x) = tier
  <2>1. BestTier(k, x) <= tier /\ BestTier(k, x) \in 1 .. 4
    BY <1>1, BestTierFits
  <2>2. BestTier(k, x) \in Tiers
    BY <1>1, <2>1 DEF Tiers
  <2>3. ~Served(k, x)
    BY <1>1 DEF Served, Unused
  <2> QED
    BY <1>1, <2>1, <2>2, <2>3 DEF PairsServed, Tiers
<1>5. CardTypeOK'
  <2>1. match' \in [Line -> Expenses \union {NoExpense}]
    BY <1>1 DEF CardTypeOK
  <2>2. matchStatus' \in [Line -> {"UNMATCHED"} \union {StatusOf[t] : t \in Tiers}]
    BY <1>1 DEF CardTypeOK
  <2>3. \A l \in Line : (matchStatus[l] = "UNMATCHED" <=> match[l] = NoExpense)'
    BY <1>1, <1>2, StatusNames DEF CardTypeOK
  <2>4. \A l \in Line : (match[l] # NoExpense => l \in lines /\ match[l] \in counted)'
    BY <1>1 DEF CardTypeOK, fileVars
  <2> QED
    BY <1>1, <2>1, <2>2, <2>3, <2>4 DEF CardTypeOK, fileVars
<1>6. LinesReadable'
  BY <1>1 DEF LinesReadable, fileVars
<1>7. OneLineEach'
  BY <1>1 DEF OneLineEach, CardTypeOK, Unused
<1>8. MatchesFit'
  BY <1>1, <1>3, <1>4 DEF MatchesFit, CardTypeOK
(* A pair that was served stays so; a pair that loses a side loses it to a *)
(* pair the sort key puts first.                                           *)
<1>9. PairsServed'
  <2> SUFFICES ASSUME NEW l \in lines, NEW e \in counted, BestTier(l, e) \in Tiers
               PROVE  ((Free(l, e) /\ BestTier(l, e) >= tier) \/ Served(l, e))'
    BY <1>1, <1>3 DEF PairsServed, fileVars
  <2>0. l \in Line /\ e \in Expenses
    BY DEF CardTypeOK
  <2>1. CASE Served(l, e)
    <3>1. CASE match[l] # NoExpense /\ AtLeastAsGood(l, match[l], l, e)
      BY <1>1, <1>3, <2>0, <3>1 DEF Served, CardTypeOK
    <3>2. CASE \E m \in Line : match[m] = e /\ AtLeastAsGood(m, e, l, e)
      <4>1. PICK m \in Line : match[m] = e /\ AtLeastAsGood(m, e, l, e)
        BY <3>2
      <4>2. m # k
        BY <1>1, <2>0, <4>1, CardAssumption DEF NoExpense
      <4>3. match'[m] = e /\ AtLeastAsGood(m, e, l, e)'
        BY <1>1, <1>3, <4>1, <4>2 DEF CardTypeOK
      <4> QED
        BY <4>3 DEF Served
    <3> QED
      BY <2>1, <3>1, <3>2 DEF Served
  <2>2. CASE ~Served(l, e)
    <3>1. Free(l, e) /\ BestTier(l, e) >= tier
      BY <2>2 DEF PairsServed
    <3>2. ASSUME l = k \/ e = x PROVE AtLeastAsGood(k, x, l, e)
      <4>1. CASE BestTier(l, e) = tier
        <5>1. Open(tier, l, e)
          BY <2>0, <3>1, <4>1, BestTierFits DEF Open, Free, Unused
        <5>2. NoWorse(k, x, l, e)
          BY <2>0, <5>1 DEF Assign
        <5> QED
          BY <1>4, <4>1, <5>2 DEF AtLeastAsGood
      <4>2. CASE BestTier(l, e) # tier
        BY <1>1, <1>4, <3>1, <4>2, BestTierFits DEF AtLeastAsGood, Tiers
      <4> QED
        BY <4>1, <4>2
    <3>3. CASE l = k
      <4>1. match'[l] = x /\ AtLeastAsGood(l, match'[l], l, e)
        BY <1>1, <3>2, <3>3 DEF CardTypeOK
      <4>2. AtLeastAsGood(l, match[l], l, e)'
        BY <1>3, <4>1
      <4> QED
        BY <1>2, <4>1, <4>2 DEF Served
    <3>4. CASE e = x
      <4>1. match'[k] = e /\ AtLeastAsGood(k, e, l, e)'
        BY <1>1, <1>3, <3>2, <3>4 DEF CardTypeOK
      <4> QED
        BY <4>1 DEF Served
    <3>5. CASE l # k /\ e # x
      <4>1. Free(l, e)'
        BY <1>1, <2>0, <3>1, <3>5 DEF Free, Unused, CardTypeOK, fileVars
      <4> QED
        BY <1>1, <1>3, <3>1, <4>1
    <3> QED
      BY <3>3, <3>4, <3>5
  <2> QED
    BY <2>1, <2>2
<1>10. BlankUntilRead' /\ Accounted'
  BY <1>1 DEF BlankUntilRead, Accounted, Tiers
<1> QED
  BY <1>5, <1>6, <1>7, <1>8, <1>9, <1>10

(* A tier ends when no pair of it is open.                                 *)
LEMMA NextTierInv == CardInv /\ NextTier => CardInv'
<1> SUFFICES ASSUME CardInv, NextTier PROVE CardInv'
  OBVIOUS
<1> USE DEF CardInv, NextTier
<1>1. \A l, e, m, f : /\ BestTier(l, e)' = BestTier(l, e)
                      /\ AtLeastAsGood(l, e, m, f)' = AtLeastAsGood(l, e, m, f)
  BY WorthUnchanged
<1>2. CardTypeOK'
  BY DEF CardTypeOK, fileVars, Tiers
<1>3. LinesReadable' /\ OneLineEach'
  BY DEF LinesReadable, OneLineEach, fileVars
<1>4. BlankUntilRead' /\ Accounted'
  BY DEF BlankUntilRead, Accounted, Tiers
<1>5. MatchesFit'
  BY <1>1 DEF MatchesFit
<1>6. PairsServed'
  <2> SUFFICES ASSUME NEW l \in lines, NEW e \in counted, BestTier(l, e) \in Tiers
               PROVE  ((Free(l, e) /\ BestTier(l, e) >= tier) \/ Served(l, e))'
    BY <1>1 DEF PairsServed, fileVars
  <2>0. l \in Line /\ e \in Expenses
    BY DEF CardTypeOK
  <2>1. CASE Served(l, e)
    BY <1>1, <2>1 DEF Served
  <2>2. CASE ~Served(l, e)
    <3>1. Free(l, e) /\ BestTier(l, e) >= tier
      BY <2>2 DEF PairsServed
    <3>2. BestTier(l, e) # tier
      BY <2>0, <3>1, BestTierFits DEF Open, Free, Unused
    <3>3. BestTier(l, e) >= tier + 1
      BY <3>1, <3>2, BestTierFits DEF Tiers
    <3>4. Free(l, e)'
      BY <3>1 DEF Free, Unused, fileVars
    <3> QED
      BY <1>1, <3>3, <3>4
  <2> QED
    BY <2>1, <2>2
<1> QED
  BY <1>2, <1>3, <1>4, <1>5, <1>6

(* The result is stored.                                                   *)
LEMMA StoreInv == CardInv /\ Store => CardInv'
<1> SUFFICES ASSUME CardInv, Store PROVE CardInv'
  OBVIOUS
<1> USE DEF CardInv, Store
<1>1. \A l, e, m, f : /\ BestTier(l, e)' = BestTier(l, e)
                      /\ AtLeastAsGood(l, e, m, f)' = AtLeastAsGood(l, e, m, f)
  BY WorthUnchanged
<1>2. CardTypeOK'
  BY DEF CardTypeOK, fileVars, Unused
<1>3. LinesReadable' /\ OneLineEach' /\ BlankUntilRead'
  BY DEF LinesReadable, OneLineEach, BlankUntilRead, fileVars
<1>4. MatchesFit'
  BY <1>1 DEF MatchesFit
<1>5. PairsServed'
  <2> SUFFICES ASSUME NEW l \in lines, NEW e \in counted, BestTier(l, e) \in Tiers
               PROVE  Served(l, e)'
    BY <1>1 DEF PairsServed, fileVars
  <2>1. Served(l, e)
    BY BestTierFits DEF PairsServed, Tiers
  <2> QED
    BY <1>1, <2>1 DEF Served
<1>6. Accounted'
  <2> SUFFICES ASSUME NEW e \in counted
               PROVE  e \in unmatched' \/ \E l \in lines : match[l] = e
    BY DEF Accounted, fileVars
  <2>1. e \in Expenses /\ e # NoExpense
    BY CardAssumption DEF CardTypeOK, NoExpense
  <2>2. CASE Unused(e)
    BY <2>1, <2>2
  <2>3. CASE ~Unused(e)
    BY <2>1, <2>3 DEF Unused, CardTypeOK
  <2> QED
    BY <2>2, <2>3
<1> QED
  BY <1>2, <1>3, <1>4, <1>5, <1>6

LEMMA CardNextInv == CardInv /\ [CardNext]_cardVars => CardInv'
<1> SUFFICES ASSUME CardInv, [CardNext]_cardVars PROVE CardInv'
  OBVIOUS
<1>1. CASE UNCHANGED cardVars
  <2>1. \A l, e, m, f : /\ BestTier(l, e)' = BestTier(l, e)
                        /\ AtLeastAsGood(l, e, m, f)' = AtLeastAsGood(l, e, m, f)
    BY <1>1, WorthUnchanged DEF cardVars
  <2>2. /\ CardTypeOK' /\ LinesReadable' /\ OneLineEach'
        /\ BlankUntilRead' /\ Accounted'
    BY <1>1 DEF cardVars, fileVars, CardInv, CardTypeOK, LinesReadable,
                OneLineEach, BlankUntilRead, Accounted
  <2>3. MatchesFit'
    BY <1>1, <2>1 DEF cardVars, CardInv, MatchesFit
  <2>4. PairsServed'
    BY <1>1, <2>1 DEF cardVars, fileVars, CardInv, PairsServed, Served, Free, Unused
  <2> QED
    BY <2>2, <2>3, <2>4 DEF CardInv
<1> QED
  BY <1>1, ParseInv, AssignInv, NextTierInv, StoreInv DEF CardNext

----------------------------------------------------------------------------
LEMMA CardInvAlways == CardSpec => []CardInv
<1>1. CardInit => CardInv
  BY CardInitInv
<1>2. CardInv /\ [CardNext]_cardVars => CardInv'
  BY CardNextInv
<1> QED
  BY <1>1, <1>2, PTL DEF CardSpec

(* The variables keep their types, and only counted expenses are matched.  *)
THEOREM CardTypeCorrect == CardSpec => []CardTypeOK
<1>1. CardInv => CardTypeOK
  BY DEF CardInv
<1> QED
  BY <1>1, CardInvAlways, PTL

(* No expense serves two lines of the statement, and the stored result     *)
(* accounts for every expense (match_lines, run_reconciliation).           *)
THEOREM MatchingOneToOne == CardSpec => []OneToOne
<1>1. CardInv => OneToOne
  BY DEF CardInv, OneLineEach, Accounted, OneToOne
<1> QED
  BY <1>1, CardInvAlways, PTL

(* The status of a line is that of the best tier in which it fits its      *)
(* expense (assign).                                                       *)
THEOREM MatchingHonest == CardSpec => []StatusHonest
<1>1. CardInv => StatusHonest
  BY DEF CardInv, CardTypeOK, MatchesFit, StatusHonest
<1> QED
  BY <1>1, CardInvAlways, PTL

(* The greedy matching is stable: of a line and an expense that fit, one   *)
(* has a partner at least as good (assign, match_lines).                   *)
THEOREM MatchingStable == CardSpec => []NoBetterPairMissed
<1>1. CardInv => NoBetterPairMissed
  <2>0. CardInv => StatusHonest
    BY DEF CardInv, CardTypeOK, MatchesFit, StatusHonest
  <2> SUFFICES ASSUME CardInv, tier \in {4, 5},
                      NEW l \in lines, NEW e \in counted, BestTier(l, e) \in Tiers
               PROVE  Served(l, e)
    BY <2>0 DEF NoBetterPairMissed
  <2>1. BestTier(l, e) < tier
    BY DEF Tiers
  <2> QED
    BY <2>1, BestTierFits DEF CardInv, PairsServed
<1> QED
  BY <1>1, CardInvAlways, PTL

=============================================================================
