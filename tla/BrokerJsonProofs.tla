-------------------------- MODULE BrokerJsonProofs --------------------------
(***************************************************************************)
(* Proofs about BrokerJson, for lines of any bytes and any length.         *)
(*                                                                         *)
(* The scanners are defined by Min, Max and a recursive function.  What    *)
(* they return is shown without an induction rule: a set of naturals that  *)
(* is not empty has a least element, so a claim about positions that fails *)
(* somewhere fails at one where it holds for everything closer to the end. *)
(***************************************************************************)
EXTENDS BrokerJson, SequenceTheorems, WellFoundedInduction, TLAPS

-----------------------------------------------------------------------------
(* Least and greatest elements.                                             *)

LEMMA LeastNatural ==
  ASSUME NEW T \in SUBSET Nat, T # {}
  PROVE  \E m \in T : \A k \in T : m <= k
<1> DEFINE R == {ss \in Nat \X Nat : ss[1] < ss[2]}
<1>1. IsWellFoundedOn(R, Nat)
  BY NatLessThanWellFounded DEF OpToRel
<1>2. PICK x \in T : \A y \in T : ~(<<y, x>> \in R)
  <2> HIDE DEF R
  <2>1. QED
    BY <1>1, WFMin
<1>3. ASSUME NEW y \in T
      PROVE  x <= y
  <2>1. x \in Nat /\ y \in Nat
    OBVIOUS
  <2>2. ~(<<y, x>> \in R)
    BY <1>2
  <2>3. ~(y < x)
    BY <2>1, <2>2
  <2>4. QED
    BY <2>1, <2>3
<1>4. QED
  BY <1>3

LEMMA MinFacts ==
  ASSUME NEW T \in SUBSET Nat, T # {}
  PROVE  Min(T) \in T /\ \A k \in T : Min(T) <= k
  BY LeastNatural DEF Min

LEMMA MaxFacts ==
  ASSUME NEW n \in Nat, NEW T \in SUBSET (0 .. n), T # {}
  PROVE  Max(T) \in T /\ \A k \in T : Max(T) >= k
<1> DEFINE U == {n - k : k \in T}
<1>1. U \in SUBSET Nat /\ U # {}
  <2>1. \A k \in T : n - k \in Nat
    OBVIOUS
  <2>2. QED
    BY <2>1
<1>2. PICK u \in U : \A k \in U : u <= k
  <2> HIDE DEF U
  <2>1. QED
    BY <1>1, LeastNatural
<1>3. PICK m \in T : u = n - m
  OBVIOUS
<1>4. ASSUME NEW k \in T
      PROVE  m >= k
  <2>1. u <= n - k /\ m \in 0 .. n /\ k \in 0 .. n
    BY <1>2
  <2>2. QED
    BY <1>3, <2>1
<1>5. QED
  BY <1>4 DEF Max

\* A set with a position that holds the next one holds all that follow.
LEMMA Upward ==
  ASSUME NEW a \in Nat, NEW b \in Nat, NEW T, a \in T,
         \A k \in a .. b : k \in T /\ k < b => k + 1 \in T
  PROVE  \A k \in a .. b : k \in T
<1> DEFINE Bad == {k \in a .. b : k \notin T}
<1>1. SUFFICES ASSUME Bad # {} PROVE FALSE
  OBVIOUS
<1>2. Bad \in SUBSET Nat
  OBVIOUS
<1>3. PICK k \in Bad : \A l \in Bad : k <= l
  <2> HIDE DEF Bad
  <2>1. QED
    BY <1>1, <1>2, LeastNatural
<1>4. k \in a .. b /\ k \notin T /\ k # a
  OBVIOUS
<1>5. k - 1 \in a .. b /\ k - 1 < b /\ ~(k <= k - 1) /\ (k - 1) + 1 = k
  BY <1>4
<1>6. k - 1 \notin Bad
  BY <1>3, <1>5
<1>7. k - 1 \in T
  BY <1>5, <1>6
<1>8. QED
  BY <1>4, <1>5, <1>7

\* A set that holds each position whose successors it holds holds all.
LEMMA Downward ==
  ASSUME NEW n \in Nat, NEW T,
         \A j \in 1 .. n : (\A l \in j + 1 .. n : l \in T) => j \in T
  PROVE  \A j \in 1 .. n : j \in T
<1> DEFINE Bad == {d \in 0 .. n : n - d \in 1 .. n /\ n - d \notin T}
<1>1. SUFFICES ASSUME NEW j \in 1 .. n, j \notin T PROVE FALSE
  OBVIOUS
<1>2. n - j \in Bad
  <2>1. n - j \in 0 .. n /\ n - (n - j) = j
    OBVIOUS
  <2>2. QED
    BY <1>1, <2>1
<1>3. Bad \in SUBSET Nat
  OBVIOUS
<1>4. PICK d \in Bad : \A e \in Bad : d <= e
  <2> HIDE DEF Bad
  <2>1. QED
    BY <1>2, <1>3, LeastNatural
<1>5. PICK k \in 1 .. n : k = n - d /\ k \notin T
  OBVIOUS
<1>6. d \in 0 .. n
  OBVIOUS
<1>7. PICK l \in k + 1 .. n : l \notin T
  BY <1>5
<1>8. n - l \in 0 .. n /\ n - (n - l) = l /\ l \in 1 .. n /\ ~(d <= n - l)
  BY <1>5, <1>6
<1>9. n - l \in Bad
  BY <1>7, <1>8
<1>10. QED
  BY <1>4, <1>8, <1>9

\* A function on 1 .. n + 2 may look at its own values further up.  nxt[j] is
\* where it looks from j, stop[j] whether it stops there instead.
LEMMA ScanExists ==
  ASSUME NEW n \in Nat, NEW nxt, NEW stop,
         \A j \in 1 .. n : nxt[j] \in j + 1 .. n + 2
  PROVE  \E f : \A j \in 1 .. n + 2 :
                  f[j] = IF j > n THEN 0 ELSE IF stop[j] THEN j ELSE f[nxt[j]]
<1> DEFINE Step(f, j) == IF j > n THEN 0 ELSE IF stop[j] THEN j ELSE f[nxt[j]]
           Has(k) == \E f : f = [j \in (n + 2) - k .. n + 2 |-> Step(f, j)]
           Bad == {k \in 0 .. n + 1 : ~Has(k)}
<1>1. Bad = {}
  <2>1. SUFFICES ASSUME Bad # {} PROVE FALSE
    OBVIOUS
  <2>2. PICK k \in Bad : \A l \in Bad : k <= l
    <3>1. Bad \in SUBSET Nat
      OBVIOUS
    <3> HIDE DEF Bad
    <3>2. QED
      BY <2>1, <3>1, LeastNatural
  <2>3. k \in 0 .. n + 1 /\ ~Has(k)
    OBVIOUS
  <2>4. CASE k = 0
    <3> DEFINE f == [j \in (n + 2) - k .. n + 2 |-> 0]
    <3>1. f = [j \in (n + 2) - k .. n + 2 |-> Step(f, j)]
      BY <2>4
    <3>2. QED
      BY <2>3, <3>1
  <2>5. CASE k # 0
    <3>1. k - 1 \in 0 .. n + 1 /\ ~(k <= k - 1)
      BY <2>3, <2>5
    <3>2. Has(k - 1)
      BY <2>2, <3>1
    <3>3. PICK f : f = [j \in (n + 2) - (k - 1) .. n + 2 |-> Step(f, j)]
      BY <3>2
    <3> DEFINE new == (n + 2) - k
               g == [j \in new .. n + 2 |-> Step(f, j)]
    <3>4. ASSUME NEW j \in new .. n + 2
          PROVE  Step(f, j) = Step(g, j)
      <4>1. CASE j > n \/ stop[j]
        BY <4>1
      <4>2. CASE j <= n /\ ~stop[j]
        <5>1. j \in 1 .. n /\ nxt[j] \in (n + 2) - (k - 1) .. n + 2
          BY <2>3, <4>2
        <5>2. f[nxt[j]] = Step(f, nxt[j])
          BY <3>3, <5>1
        <5>3. g[nxt[j]] = Step(f, nxt[j])
          BY <2>3, <5>1
        <5>4. QED
          BY <4>2, <5>2, <5>3
      <4>3. QED
        BY <2>3, <4>1, <4>2
    <3>5. g = [j \in new .. n + 2 |-> Step(g, j)]
      BY <3>4
    <3>6. QED
      BY <2>3, <3>5
  <2>6. QED
    BY <2>4, <2>5
<1>2. Has(n + 1)
  <2> HIDE DEF Has
  <2>1. n + 1 \in 0 .. n + 1
    OBVIOUS
  <2>2. QED
    BY <1>1, <2>1
<1>3. (n + 2) - (n + 1) = 1
  OBVIOUS
<1>4. PICK f : f = [j \in 1 .. n + 2 |-> Step(f, j)]
  BY <1>2, <1>3
<1>5. \A j \in 1 .. n + 2 : f[j] = Step(f, j)
  <2> HIDE DEF Step
  <2>1. QED
    BY <1>4
<1>6. QED
  BY <1>5

-----------------------------------------------------------------------------
(* The scanners.                                                            *)

LEMMA SkipWsFacts ==
  ASSUME NEW S, NEW str \in Seq(S), NEW k \in 1 .. Len(str) + 1
  PROVE  /\ SkipWs(str, k) \in k .. Len(str) + 1
         /\ SkipWs(str, k) <= Len(str) => str[SkipWs(str, k)] \notin Whitespace
         /\ \A j \in k .. Len(str) :
              str[j] \notin Whitespace => SkipWs(str, k) <= j
<1> DEFINE n == Len(str)
           T == {j \in k .. n + 1 : j = n + 1 \/ str[j] \notin Whitespace}
<1>1. n \in Nat /\ n + 1 \in k .. n + 1
  OBVIOUS
<1>2. T \in SUBSET Nat /\ n + 1 \in T
  <2>1. k .. n + 1 \subseteq Nat
    BY <1>1
  <2>2. QED
    BY <1>1, <2>1
<1>3. Min(T) \in T /\ \A j \in T : Min(T) <= j
  <2> HIDE DEF T
  <2>1. QED
    BY <1>2, MinFacts
<1>4. SkipWs(str, k) = Min(T)
  BY DEF SkipWs
<1>5. \A j \in k .. n : str[j] \notin Whitespace => j \in T
  BY <1>1
<1> HIDE DEF n
<1>6. Min(T) \in k .. n + 1 /\ (Min(T) = n + 1 \/ str[Min(T)] \notin Whitespace)
  BY <1>3
<1> HIDE DEF T
<1>7. Min(T) <= n => str[Min(T)] \notin Whitespace
  BY <1>1, <1>6
<1>8. QED
  BY <1>3, <1>4, <1>5, <1>6, <1>7 DEF n

\* What is left of a line begins and ends with something else than white
\* space.
LEMMA TrimFacts ==
  ASSUME NEW S, NEW str \in Seq(S)
  PROVE  /\ Trim(str) \in Seq(S)
         /\ Trim(str) # <<>> => Trim(str)[Len(Trim(str))] \notin Whitespace
<1> DEFINE n == Len(str)
           T == {0} \cup {j \in DOMAIN str : str[j] \notin Whitespace}
           first == SkipWs(str, 1)
           last == Max(T)
<1>1. n \in Nat /\ T \in SUBSET (0 .. n) /\ T # {}
  OBVIOUS
<1>2. last \in T
  <2> HIDE DEF T, n
  <2>1. QED
    BY <1>1, MaxFacts
<1>3. first \in 1 .. n + 1
  BY <1>1, SkipWsFacts
<1>4. Trim(str) = SubSeq(str, first, last)
  BY DEF Trim
<1>5. last \in 0 .. n
  BY <1>1, <1>2
<1>6. last > 0 => str[last] \notin Whitespace
  BY <1>2
<1> HIDE DEF T, first, last
<1>7. /\ \A j \in first .. last : str[j] \in S
      /\ first \in Int /\ last \in Int
  BY <1>1, <1>3, <1>5
<1> DEFINE t == SubSeq(str, first, last)
<1>8. /\ t \in Seq(S)
      /\ Len(t) = IF first <= last THEN last - first + 1 ELSE 0
      /\ \A j \in 1 .. last - first + 1 : t[j] = str[first + j - 1]
  BY <1>7, SubSeqProperties
<1> HIDE DEF t
<1>9. ASSUME t # <<>>
      PROVE  t[Len(t)] \notin Whitespace
  <2>1. Len(t) # 0
    BY <1>8, <1>9, EmptySeq
  <2>2. first <= last /\ Len(t) = last - first + 1
    BY <1>8, <2>1
  <2>3. /\ Len(t) \in 1 .. last - first + 1
        /\ first + Len(t) - 1 = last /\ last > 0
    BY <1>3, <1>5, <2>2
  <2>4. QED
    BY <1>6, <1>8, <2>3
<1>10. QED
  BY <1>4, <1>8, <1>9 DEF t

\* ClosingQuote does at each position what it says, the recursion being over
\* the positions that follow.
LEMMA ClosingQuoteStep ==
  ASSUME NEW S, NEW str \in Seq(S), NEW k \in 1 .. Len(str) + 2
  PROVE  ClosingQuote(str, k) =
           IF k > Len(str) THEN 0
           ELSE IF str[k] = Backslash THEN ClosingQuote(str, k + 2)
           ELSE IF str[k] = Quote THEN k
           ELSE ClosingQuote(str, k + 1)
<1> DEFINE n == Len(str)
           nxt == [j \in 1 .. n |-> IF str[j] = Backslash THEN j + 2 ELSE j + 1]
           stop == [j \in 1 .. n |-> str[j] # Backslash /\ str[j] = Quote]
           Scan == CHOOSE Scan : Scan = [j \in 1 .. Len(str) + 2 |->
             IF j > Len(str) THEN 0
             ELSE IF str[j] = Backslash THEN Scan[j + 2]
             ELSE IF str[j] = Quote THEN j
             ELSE Scan[j + 1]]
<1>1. \A j : ClosingQuote(str, j) = Scan[j]
  BY DEF ClosingQuote
<1>2. n \in Nat /\ \A j \in 1 .. n : nxt[j] \in j + 1 .. n + 2
  <2>1. n \in Nat
    OBVIOUS
  <2>2. ASSUME NEW j \in 1 .. n
        PROVE  nxt[j] \in j + 1 .. n + 2
    <3>1. nxt[j] = j + 2 \/ nxt[j] = j + 1
      BY Zenon
    <3> HIDE DEF n, nxt
    <3>2. QED
      BY <2>1, <3>1
  <2>3. QED
    BY <2>1, <2>2
<1>3. PICK g : \A j \in 1 .. n + 2 :
                 g[j] = IF j > n THEN 0 ELSE IF stop[j] THEN j ELSE g[nxt[j]]
  <2> HIDE DEF n, nxt, stop, Scan
  <2>1. QED
    BY <1>2, ScanExists, SMTT(40)
<1> DEFINE f == [j \in 1 .. n + 2 |-> g[j]]
<1>4. f = [j \in 1 .. Len(str) + 2 |->
             IF j > Len(str) THEN 0
             ELSE IF str[j] = Backslash THEN f[j + 2]
             ELSE IF str[j] = Quote THEN j
             ELSE f[j + 1]]
  <2>1. ASSUME NEW j \in 1 .. Len(str) + 2
        PROVE  g[j] = IF j > Len(str) THEN 0
                      ELSE IF str[j] = Backslash THEN f[j + 2]
                      ELSE IF str[j] = Quote THEN j
                      ELSE f[j + 1]
    <3>1. CASE j > n
      BY <1>3, <3>1
    <3>2. CASE ~(j > n)
      <4>1. j \in 1 .. n /\ j + 1 \in 1 .. n + 2 /\ j + 2 \in 1 .. n + 2
        BY <1>2, <3>2
      <4>2. /\ nxt[j] = IF str[j] = Backslash THEN j + 2 ELSE j + 1
            /\ stop[j] = (str[j] # Backslash /\ str[j] = Quote)
            /\ f[j + 1] = g[j + 1] /\ f[j + 2] = g[j + 2]
        BY <4>1
      <4> HIDE DEF nxt, stop, f
      <4>3. QED
        BY <1>3, <3>2, <4>2
    <3>3. QED
      BY <3>1, <3>2
  <2>2. QED
    BY <2>1
<1>5. Scan = [j \in 1 .. Len(str) + 2 |->
             IF j > Len(str) THEN 0
             ELSE IF str[j] = Backslash THEN Scan[j + 2]
             ELSE IF str[j] = Quote THEN j
             ELSE Scan[j + 1]]
  BY <1>4
<1>6. \A j \in 1 .. n + 2 :
        Scan[j] = IF j > n THEN 0
                  ELSE IF str[j] = Backslash THEN Scan[j + 2]
                  ELSE IF str[j] = Quote THEN j
                  ELSE Scan[j + 1]
  <2> HIDE DEF Scan
  <2>1. QED
    BY <1>5
<1> HIDE DEF Scan
<1>7. QED
  BY <1>1, <1>6

\* It finds a quote at or behind the position it begins at, or reports that
\* there is none.
LEMMA ClosingQuoteFacts ==
  ASSUME NEW S, NEW str \in Seq(S), NEW k \in 1 .. Len(str) + 2
  PROVE  \/ ClosingQuote(str, k) = 0
         \/ /\ ClosingQuote(str, k) \in k .. Len(str)
            /\ str[ClosingQuote(str, k)] = Quote
<1> DEFINE n == Len(str)
           Fine(j) == \/ ClosingQuote(str, j) = 0
                      \/ /\ ClosingQuote(str, j) \in j .. n
                         /\ str[ClosingQuote(str, j)] = Quote
           T == {j \in 1 .. n + 2 : Fine(j)}
<1>1. n \in Nat
  OBVIOUS
<1>2. ASSUME NEW j \in 1 .. n + 2, \A l \in j + 1 .. n + 2 : l \in T
      PROVE  j \in T
  <2>1. \A l \in j + 1 .. n + 2 : Fine(l)
    BY <1>2
  <2>2. CASE j > n
    BY <2>2, ClosingQuoteStep
  <2>3. CASE j <= n
    <3>1. j + 1 \in j + 1 .. n + 2 /\ j + 2 \in j + 1 .. n + 2
      BY <1>1, <2>3
    <3>2. Fine(j + 1) /\ Fine(j + 2)
      BY <2>1, <3>1
    <3>3. \/ ClosingQuote(str, j) = ClosingQuote(str, j + 2)
          \/ ClosingQuote(str, j) = j /\ str[j] = Quote
          \/ ClosingQuote(str, j) = ClosingQuote(str, j + 1)
      BY <1>1, <2>3, ClosingQuoteStep
    <3>4. Fine(j)
      BY <1>1, <2>3, <3>2, <3>3
    <3>5. QED
      BY <3>4
  <2>4. QED
    BY <1>1, <2>2, <2>3
<1>3. k \in T
  <2> HIDE DEF T
  <2>1. n + 2 \in Nat
    BY <1>1
  <2>2. QED
    BY <1>2, <2>1, Downward
<1>4. QED
  BY <1>3

\* A token that is read ends in the line and moves the position on.
LEMMA TokenFacts ==
  ASSUME NEW S, NEW str \in Seq(S), NEW k \in 1 .. Len(str) + 1,
         ParseJsonQuotedToken(str, k).ok
  PROVE  ParseJsonQuotedToken(str, k).next \in k + 2 .. Len(str) + 1
<1> DEFINE n == Len(str)
           end == ClosingQuote(str, k + 1)
<1>1. n \in Nat
  OBVIOUS
<1>2. end = 0 \/ end \in k + 1 .. n
  <2>1. k + 1 \in 1 .. Len(str) + 2
    BY <1>1
  <2>2. QED
    BY <2>1, ClosingQuoteFacts
<1>3. end # 0 /\ ParseJsonQuotedToken(str, k).next = end + 1
  BY DEF ParseJsonQuotedToken
<1> HIDE DEF end
<1>4. QED
  BY <1>1, <1>2, <1>3

\* So does a member.
LEMMA MemberFacts ==
  ASSUME NEW S, s \in Seq(S), NEW k \in 1 .. Len(s) + 1, ParseMember(k).ok
  PROVE  ParseMember(k).next \in k + 4 .. Len(s) + 1
<1> DEFINE key   == ParseJsonQuotedToken(s, k)
           colon == SkipWs(s, key.next)
           from  == SkipWs(s, colon + 1)
           value == ParseJsonQuotedToken(s, from)
<1>1. /\ key.ok /\ colon <= Len(s) /\ value.ok
      /\ ParseMember(k).next = SkipWs(s, value.next)
  BY DEF ParseMember
<1> HIDE DEF key, colon, from, value
<1>2. Len(s) \in Nat
  OBVIOUS
<1>3. key.next \in k + 2 .. Len(s) + 1
  BY <1>1, TokenFacts DEF key
<1>4. key.next \in 1 .. Len(s) + 1
  BY <1>2, <1>3
<1>5. colon \in key.next .. Len(s) + 1
  BY <1>4, SkipWsFacts DEF colon
<1>6. colon + 1 \in 1 .. Len(s) + 1
  BY <1>1, <1>2, <1>4, <1>5
<1>7. from \in colon + 1 .. Len(s) + 1
  BY <1>6, SkipWsFacts DEF from
<1>8. from \in 1 .. Len(s) + 1
  BY <1>2, <1>6, <1>7
<1>9. value.next \in from + 2 .. Len(s) + 1
  BY <1>1, <1>8, TokenFacts DEF value
<1>10. value.next \in 1 .. Len(s) + 1
  BY <1>2, <1>8, <1>9
<1>11. SkipWs(s, value.next) \in value.next .. Len(s) + 1
  BY <1>10, SkipWsFacts
<1>12. QED
  BY <1>1, <1>2, <1>3, <1>5, <1>7, <1>9, <1>11

-----------------------------------------------------------------------------
(* Strings and what is outside them.                                        *)

LEMMA LexStepFacts ==
  ASSUME NEW byte
  PROVE  /\ LexStep("esc", byte) = "in"
         /\ byte = Backslash => LexStep("in", byte) = "esc"
         /\ byte = Quote => LexStep("in", byte) = "out"
         /\ byte \notin {Quote, Backslash} => LexStep("in", byte) = "in"
         /\ byte = Quote => LexStep("out", byte) = "in"
         /\ byte # Quote => LexStep("out", byte) = "out"
  BY DEF LexStep, Quote, Backslash

LEMMA LexFacts ==
  ASSUME NEW S, NEW str \in Seq(S)
  PROVE  /\ Lex(str)[1] = "out"
         /\ \A k \in 1 .. Len(str) :
              Lex(str)[k + 1] = LexStep(Lex(str)[k], str[k])
<1> DEFINE n == Len(str)
           At(f, k) == IF k = 1 THEN "out" ELSE LexStep(f[k - 1], str[k - 1])
           Has == {m \in 1 .. n + 1 : \E f : f = [k \in 1 .. m |-> At(f, k)]}
           L == CHOOSE L : L = [k \in 1 .. Len(str) + 1 |->
                  IF k = 1 THEN "out" ELSE LexStep(L[k - 1], str[k - 1])]
<1>1. n \in Nat /\ 1 \in Nat /\ n + 1 \in Nat
  OBVIOUS
<1>2. 1 \in Has
  <2> DEFINE f == [k \in 1 .. 1 |-> "out"]
  <2>1. f = [k \in 1 .. 1 |-> At(f, k)]
    OBVIOUS
  <2>2. \E g : g = [k \in 1 .. 1 |-> At(g, k)]
    BY <2>1
  <2>3. QED
    BY <1>1, <2>2
<1>3. ASSUME NEW m \in 1 .. n + 1, m \in Has /\ m < n + 1
      PROVE  m + 1 \in Has
  <2>1. PICK f : f = [k \in 1 .. m |-> At(f, k)]
    BY <1>3
  <2> DEFINE g == [k \in 1 .. m + 1 |-> At(f, k)]
  <2>2. ASSUME NEW k \in 1 .. m + 1
        PROVE  At(f, k) = At(g, k)
    <3>1. CASE k = 1
      BY <3>1
    <3>2. CASE k # 1
      <4>1. k - 1 \in 1 .. m /\ k - 1 \in 1 .. m + 1
        BY <1>1, <3>2
      <4>2. f[k - 1] = At(f, k - 1) /\ g[k - 1] = At(f, k - 1)
        <5> HIDE DEF At
        <5>1. QED
          BY <2>1, <4>1
      <4>3. QED
        BY <3>2, <4>2
    <3>3. QED
      BY <3>1, <3>2
  <2>3. g = [k \in 1 .. m + 1 |-> At(g, k)]
    BY <2>2
  <2>4. \E h : h = [k \in 1 .. m + 1 |-> At(h, k)]
    BY <2>3
  <2>5. QED
    BY <1>1, <1>3, <2>4
<1>4. n + 1 \in Has
  <2> HIDE DEF Has
  <2>1. \A m \in 1 .. n + 1 : m \in Has
    BY <1>1, <1>2, <1>3, Upward
  <2>2. QED
    BY <1>1, <2>1
<1>5. PICK f : f = [k \in 1 .. n + 1 |-> At(f, k)]
  BY <1>4
<1>6. L = [k \in 1 .. Len(str) + 1 |->
             IF k = 1 THEN "out" ELSE LexStep(L[k - 1], str[k - 1])]
  BY <1>5
<1>7. Lex(str) = L
  BY DEF Lex
<1> HIDE DEF L
<1>8. L[1] = "out"
  BY <1>1, <1>6
<1>9. ASSUME NEW k \in 1 .. n
      PROVE  L[k + 1] = LexStep(L[k], str[k])
  <2>1. k + 1 \in 1 .. n + 1 /\ k + 1 # 1 /\ (k + 1) - 1 = k
    BY <1>1
  <2>2. QED
    BY <1>6, <2>1
<1>10. QED
  BY <1>7, <1>8, <1>9

\* White space leaves a place outside the strings outside.
LEMMA SkipLex ==
  ASSUME NEW S, NEW str \in Seq(S), NEW k \in 1 .. Len(str) + 1,
         Lex(str)[k] = "out"
  PROVE  /\ Lex(str)[SkipWs(str, k)] = "out"
         /\ \A j \in k .. SkipWs(str, k) - 1 : str[j] \in Punctuation
<1>1. PICK b \in k .. Len(str) + 1 :
        b = SkipWs(str, k)
        /\ \A j \in k .. Len(str) : str[j] \notin Whitespace => b <= j
  BY SkipWsFacts
<1>2. Len(str) \in Nat /\ b \in Nat /\ k \in Nat
  OBVIOUS
<1>3. \A j \in k .. b - 1 : str[j] \in Whitespace
  BY <1>1, <1>2
<1> DEFINE T == {j \in k .. b : Lex(str)[j] = "out"}
<1>4. k \in T
  BY <1>1
<1>5. ASSUME NEW j \in k .. b, j \in T /\ j < b
      PROVE  j + 1 \in T
  <2>1. j \in k .. b - 1 /\ j \in 1 .. Len(str) /\ j + 1 \in k .. b
    BY <1>1, <1>2, <1>5
  <2>2. str[j] # Quote
    BY <1>3, <2>1 DEF Whitespace, Quote
  <2>3. Lex(str)[j + 1] = "out"
    BY <1>5, <2>1, <2>2, LexFacts, LexStepFacts
  <2>4. QED
    BY <2>1, <2>3
<1>6. b \in T
  <2> HIDE DEF T
  <2>1. \A j \in k .. b : j \in T
    BY <1>2, <1>4, <1>5, Upward
  <2>2. QED
    BY <1>1, <1>2, <2>1
<1>7. QED
  BY <1>1, <1>3, <1>6 DEF Punctuation

\* The quote that ClosingQuote finds is the one that ends the string.
LEMMA ClosingLex ==
  ASSUME NEW S, NEW str \in Seq(S), NEW k \in 1 .. Len(str) + 2,
         Lex(str)[k] = "in", ClosingQuote(str, k) # 0
  PROVE  /\ ClosingQuote(str, k) \in k .. Len(str)
         /\ \A j \in k .. ClosingQuote(str, k) : Lex(str)[j] # "out"
         /\ Lex(str)[ClosingQuote(str, k) + 1] = "out"
<1> DEFINE n == Len(str)
           Inside(j) == /\ \A l \in j .. ClosingQuote(str, j) : Lex(str)[l] # "out"
                        /\ Lex(str)[ClosingQuote(str, j) + 1] = "out"
           Fine(j) == Lex(str)[j] = "in" /\ ClosingQuote(str, j) # 0 => Inside(j)
           T == {j \in 1 .. n + 2 : Fine(j)}
<1>1. n \in Nat
  OBVIOUS
<1>2. \A j \in 1 .. n + 2 : \/ ClosingQuote(str, j) = 0
                            \/ ClosingQuote(str, j) \in j .. n
  BY ClosingQuoteFacts
<1>3. ASSUME NEW j \in 1 .. n + 2, \A l \in j + 1 .. n + 2 : Fine(l),
             Lex(str)[j] = "in", ClosingQuote(str, j) # 0
      PROVE  Inside(j)
  <2>1. j \in 1 .. n
    BY <1>1, <1>2, <1>3
  <2>2. j + 1 \in j + 1 .. n + 2 /\ j + 2 \in j + 1 .. n + 2
    BY <1>1, <2>1
  <2>3. Lex(str)[j + 1] = LexStep("in", str[j])
    BY <1>3, <2>1, LexFacts
  <2>4. CASE str[j] = Backslash
    <3>1. ClosingQuote(str, j) = ClosingQuote(str, j + 2)
      BY <1>1, <2>1, <2>4, ClosingQuoteStep
    <3>2. PICK c \in j + 2 .. n : c = ClosingQuote(str, j + 2)
      BY <1>1, <1>2, <1>3, <2>1, <2>2, <3>1
    <3>3. j + 1 \in 1 .. n
      BY <1>1, <2>1, <3>2
    <3>4. Lex(str)[j + 1] = "esc"
      BY <2>3, <2>4, LexStepFacts
    <3>5. Lex(str)[(j + 1) + 1] = "in"
      BY <3>3, <3>4, LexFacts, LexStepFacts
    <3>6. (j + 1) + 1 = j + 2
      BY <2>1
    <3>7. Inside(j + 2)
      <4>1. Lex(str)[j + 2] = "in"
        BY <3>5, <3>6
      <4>2. QED
        BY <1>3, <2>2, <3>1, <4>1
    <3>8. ASSUME NEW l \in j .. c
          PROVE  Lex(str)[l] # "out"
      <4>1. l = j \/ l = j + 1 \/ l \in j + 2 .. c
        BY <1>1, <2>1, <3>2
      <4>2. QED
        BY <1>3, <3>2, <3>4, <3>7, <4>1
    <3>9. QED
      BY <3>1, <3>2, <3>7, <3>8
  <2>5. CASE str[j] # Backslash /\ str[j] = Quote
    <3>1. ClosingQuote(str, j) = j
      BY <1>1, <2>1, <2>5, ClosingQuoteStep
    <3>2. Lex(str)[j + 1] = "out"
      BY <2>3, <2>5, LexStepFacts
    <3>3. \A l \in j .. j : l = j
      BY <2>1
    <3>4. QED
      BY <1>3, <3>1, <3>2, <3>3
  <2>6. CASE str[j] # Backslash /\ str[j] # Quote
    <3>1. ClosingQuote(str, j) = ClosingQuote(str, j + 1)
      BY <1>1, <2>1, <2>6, ClosingQuoteStep
    <3>2. PICK c \in j + 1 .. n : c = ClosingQuote(str, j + 1)
      BY <1>1, <1>2, <1>3, <2>1, <2>2, <3>1
    <3>3. Lex(str)[j + 1] = "in"
      BY <2>3, <2>6, LexStepFacts
    <3>4. Inside(j + 1)
      BY <1>3, <2>2, <3>1, <3>3
    <3>5. ASSUME NEW l \in j .. c
          PROVE  Lex(str)[l] # "out"
      <4>1. l = j \/ l \in j + 1 .. c
        BY <1>1, <2>1, <3>2
      <4>2. QED
        BY <1>3, <3>2, <3>4, <4>1
    <3>6. QED
      BY <3>1, <3>2, <3>4, <3>5
  <2>7. QED
    BY <2>4, <2>5, <2>6
<1>4. k \in T
  <2>1. ASSUME NEW j \in 1 .. n + 2, \A l \in j + 1 .. n + 2 : l \in T
        PROVE  j \in T
    <3>1. \A l \in j + 1 .. n + 2 : Fine(l)
      BY <2>1
    <3> HIDE DEF Inside
    <3>2. QED
      BY <1>3, <3>1
  <2>2. n + 2 \in Nat
    BY <1>1
  <2> HIDE DEF T
  <2>3. QED
    BY <2>1, <2>2, Downward
<1>5. Inside(k)
  BY <1>4
<1>6. QED
  BY <1>2, <1>5

\* A token begun outside the strings is one string, and ends outside them.
LEMMA TokenLex ==
  ASSUME NEW S, NEW str \in Seq(S), NEW k \in 1 .. Len(str) + 1,
         Lex(str)[k] = "out", ParseJsonQuotedToken(str, k).ok
  PROVE  \E c \in k + 1 .. Len(str) :
           /\ str[k] = Quote
           /\ ParseJsonQuotedToken(str, k).next = c + 1
           /\ ParseJsonQuotedToken(str, k).raw = SubSeq(str, k + 1, c - 1)
           /\ \A j \in k + 1 .. c : Lex(str)[j] # "out"
           /\ Lex(str)[c + 1] = "out"
<1> DEFINE c == ClosingQuote(str, k + 1)
<1>1. /\ k <= Len(str) /\ str[k] = Quote /\ c # 0
      /\ ParseJsonQuotedToken(str, k).next = c + 1
      /\ ParseJsonQuotedToken(str, k).raw = SubSeq(str, k + 1, c - 1)
  <2>1. ~(k > Len(str) \/ str[k] # Quote \/ c = 0)
    BY DEF ParseJsonQuotedToken
  <2>2. ParseJsonQuotedToken(str, k)
          = [ok |-> TRUE, raw |-> SubSeq(str, k + 1, c - 1), next |-> c + 1]
    BY <2>1 DEF ParseJsonQuotedToken
  <2> HIDE DEF c
  <2>3. k <= Len(str) /\ str[k] = Quote /\ c # 0
    BY <2>1
  <2>4. PICK a, b, t : /\ a = SubSeq(str, k + 1, c - 1) /\ b = c + 1
                       /\ t = ParseJsonQuotedToken(str, k)
    OBVIOUS
  <2>5. t = [ok |-> TRUE, raw |-> a, next |-> b]
    BY <2>2, <2>4
  <2>6. t.raw = a /\ t.next = b
    BY <2>5
  <2>7. QED
    BY <2>3, <2>4, <2>6
<1>2. k \in 1 .. Len(str) /\ k + 1 \in 1 .. Len(str) + 2
  BY <1>1
<1>3. Lex(str)[k + 1] = "in"
  BY <1>1, <1>2, LexFacts, LexStepFacts
<1>4. /\ c \in k + 1 .. Len(str)
      /\ \A j \in k + 1 .. c : Lex(str)[j] # "out"
      /\ Lex(str)[c + 1] = "out"
  BY <1>1, <1>2, <1>3, ClosingLex
<1>5. QED
  BY <1>1, <1>4

\* A string in the line that says type.
TypeAt(str, k) ==
  /\ Lex(str)[k] = "out" /\ ParseJsonQuotedToken(str, k).ok
  /\ UnescapeJsonString(ParseJsonQuotedToken(str, k).raw) = Key["type"]

\* From position a to before b only punctuation is outside the strings.
Punctuated(str, a, b) ==
  \A j \in a .. b - 1 : Lex(str)[j] = "out" => str[j] \in Punctuation

LEMMA PunctuatedOn ==
  ASSUME NEW str, NEW a \in Int, NEW b \in Int, NEW c \in Int,
         Punctuated(str, a, b), Punctuated(str, b, c)
  PROVE  Punctuated(str, a, c)
<1>1. \A j \in a .. c - 1 : j \in a .. b - 1 \/ j \in b .. c - 1
  OBVIOUS
<1>2. QED
  BY <1>1 DEF Punctuated

LEMMA SkipPunctuated ==
  ASSUME NEW S, NEW str \in Seq(S), NEW k \in 1 .. Len(str) + 1,
         Lex(str)[k] = "out"
  PROVE  /\ Lex(str)[SkipWs(str, k)] = "out"
         /\ Punctuated(str, k, SkipWs(str, k))
  BY SkipLex DEF Punctuated

LEMMA TokenPunctuated ==
  ASSUME NEW S, NEW str \in Seq(S), NEW k \in 1 .. Len(str) + 1,
         Lex(str)[k] = "out", ParseJsonQuotedToken(str, k).ok
  PROVE  /\ Lex(str)[ParseJsonQuotedToken(str, k).next] = "out"
         /\ Punctuated(str, k, ParseJsonQuotedToken(str, k).next)
<1>1. PICK c \in k + 1 .. Len(str) :
           /\ str[k] = Quote
           /\ ParseJsonQuotedToken(str, k).next = c + 1
           /\ \A j \in k + 1 .. c : Lex(str)[j] # "out"
           /\ Lex(str)[c + 1] = "out"
  BY TokenLex
<1>2. ASSUME NEW j \in k .. (c + 1) - 1, Lex(str)[j] = "out"
      PROVE  str[j] \in Punctuation
  <2>1. j = k \/ j \in k + 1 .. c
    OBVIOUS
  <2>2. j = k
    BY <1>1, <1>2, <2>1
  <2>3. QED
    BY <1>1, <2>2 DEF Punctuation
<1>3. QED
  BY <1>1, <1>2 DEF Punctuated

\* A member begun outside the strings has only punctuation outside its own,
\* and ends outside; its key is the string it begins with.
LEMMA MemberLex ==
  ASSUME NEW S, s \in Seq(S), NEW k \in 1 .. Len(s) + 1, ParseMember(k).ok,
         Lex(s)[k] = "out"
  PROVE  /\ Lex(s)[ParseMember(k).next] = "out"
         /\ Punctuated(s, k, ParseMember(k).next)
         /\ ParseMember(k).key = Key["type"] => TypeAt(s, k)
<1> DEFINE key   == ParseJsonQuotedToken(s, k)
           colon == SkipWs(s, key.next)
           from  == SkipWs(s, colon + 1)
           value == ParseJsonQuotedToken(s, from)
<1>1. /\ key.ok /\ colon <= Len(s) /\ s[colon] = Colon /\ value.ok
      /\ ParseMember(k).next = SkipWs(s, value.next)
      /\ ParseMember(k).key = UnescapeJsonString(key.raw)
  BY DEF ParseMember
<1>2. ParseMember(k).key = Key["type"] => TypeAt(s, k)
  BY <1>1 DEF TypeAt
<1> HIDE DEF key, colon, from, value
<1>3. Len(s) \in Nat
  OBVIOUS
<1>4. key.next \in k + 2 .. Len(s) + 1
  BY <1>1, TokenFacts DEF key
<1>5. Lex(s)[key.next] = "out" /\ Punctuated(s, k, key.next)
  BY <1>1, TokenPunctuated DEF key
<1>6. key.next \in 1 .. Len(s) + 1
  BY <1>3, <1>4
<1>7. colon \in key.next .. Len(s) + 1
  BY <1>6, SkipWsFacts DEF colon
<1>8. Lex(s)[colon] = "out" /\ Punctuated(s, key.next, colon)
  BY <1>5, <1>6, SkipPunctuated DEF colon
<1>9. colon \in 1 .. Len(s) /\ colon + 1 \in 1 .. Len(s) + 1
  BY <1>1, <1>3, <1>6, <1>7
<1>10. Lex(s)[colon + 1] = "out" /\ Punctuated(s, colon, colon + 1)
  <2>1. s[colon] # Quote /\ s[colon] \in Punctuation
    BY <1>1 DEF Punctuation, Colon, Quote
  <2>2. Lex(s)[colon + 1] = "out"
    BY <1>8, <1>9, <2>1, LexFacts, LexStepFacts
  <2>3. \A j \in colon .. (colon + 1) - 1 : j = colon
    BY <1>9
  <2>4. QED
    BY <2>1, <2>2, <2>3 DEF Punctuated
<1>11. from \in colon + 1 .. Len(s) + 1
  BY <1>9, SkipWsFacts DEF from
<1>12. Lex(s)[from] = "out" /\ Punctuated(s, colon + 1, from)
  BY <1>9, <1>10, SkipPunctuated DEF from
<1>13. from \in 1 .. Len(s) + 1
  BY <1>3, <1>9, <1>11
<1>14. value.next \in from + 2 .. Len(s) + 1
  BY <1>1, <1>13, TokenFacts DEF value
<1>15. Lex(s)[value.next] = "out" /\ Punctuated(s, from, value.next)
  BY <1>1, <1>12, <1>13, TokenPunctuated DEF value
<1>16. value.next \in 1 .. Len(s) + 1
  BY <1>3, <1>13, <1>14
<1>17. PICK last \in value.next .. Len(s) + 1 : last = SkipWs(s, value.next)
  BY <1>16, SkipWsFacts
<1>18. Lex(s)[last] = "out" /\ Punctuated(s, value.next, last)
  BY <1>15, <1>16, <1>17, SkipPunctuated
<1>19. /\ k \in Int /\ key.next \in Int /\ colon \in Int /\ colon + 1 \in Int
       /\ from \in Int /\ value.next \in Int /\ last \in Int
  BY <1>4, <1>7, <1>11, <1>14, <1>17
<1>20. Punctuated(s, k, colon)
  BY <1>5, <1>8, <1>19, PunctuatedOn
<1>21. Punctuated(s, k, colon + 1)
  BY <1>10, <1>19, <1>20, PunctuatedOn
<1>22. Punctuated(s, k, from)
  BY <1>12, <1>19, <1>21, PunctuatedOn
<1>23. Punctuated(s, k, value.next)
  BY <1>15, <1>19, <1>22, PunctuatedOn
<1>24. Punctuated(s, k, last)
  BY <1>18, <1>19, <1>23, PunctuatedOn
<1>25. QED
  BY <1>1, <1>2, <1>17, <1>18, <1>24

-----------------------------------------------------------------------------
(* Escapes.                                                                 *)

\* The proofs need of a byte only that it is an integer.
Byte == 0 .. 255

LEMMA HexValueFacts ==
  ASSUME NEW c \in Byte
  PROVE  HexValue(c) \in Int
<1>1. CASE c \in 48 .. 57
  BY <1>1 DEF HexValue
<1>2. CASE c \in 97 .. 102
  BY <1>2 DEF HexValue
<1>3. CASE c \in 65 .. 70
  BY <1>3 DEF HexValue
<1>4. CASE c \notin 48 .. 57 /\ c \notin 97 .. 102 /\ c \notin 65 .. 70
  BY <1>4 DEF HexValue
<1>5. QED
  BY <1>1, <1>2, <1>3, <1>4

LEMMA HexFacts ==
  ASSUME NEW str \in Seq(Byte), NEW k \in 1 .. Len(str) + 1,
         ParseHex4(str, k) # -1
  PROVE  k + 3 <= Len(str) /\ ParseHex4(str, k) \in Int
<1>1. ~(k + 3 > Len(str) \/ \E d \in 0 .. 3 : HexValue(str[k + d]) < 0)
  BY DEF ParseHex4
<1>2. k + 3 <= Len(str)
  BY <1>1
<1>3. ASSUME NEW d \in 0 .. 3
      PROVE  HexValue(str[k + d]) \in Int
  <2>1. k + d \in 1 .. Len(str)
    BY <1>2
  <2>2. QED
    BY <2>1, ElementOfSeq, HexValueFacts
<1>4. /\ 0 \in 0 .. 3 /\ 1 \in 0 .. 3 /\ 2 \in 0 .. 3 /\ 3 \in 0 .. 3
      /\ k + 0 = k
  OBVIOUS
<1>5. PICK a \in Int : a = HexValue(str[k])
  BY <1>3, <1>4
<1>6. PICK b \in Int : b = HexValue(str[k + 1])
  BY <1>3, <1>4
<1>7. PICK c \in Int : c = HexValue(str[k + 2])
  BY <1>3, <1>4
<1>8. PICK d \in Int : d = HexValue(str[k + 3])
  BY <1>3, <1>4
<1>9. ParseHex4(str, k) = 4096 * a + 256 * b + 16 * c + d
  BY <1>1, <1>5, <1>6, <1>7, <1>8 DEF ParseHex4
<1>10. QED
  BY <1>2, <1>9

LEMMA Utf8Facts ==
  ASSUME NEW cp \in Int
  PROVE  AppendUtf8(cp) \in Seq(Int)
<1>1. \A shift \in Nat \ {0}, mark \in Nat :
        Tail6(cp, shift) \in Int /\ Lead(cp, mark, shift) \in Int
  BY SMT DEF Tail6, Lead
<1>2. PICK a, b, c, d, e, g :
        /\ a = Lead(cp, 192, 64) /\ b = Lead(cp, 224, 4096)
        /\ c = Lead(cp, 240, 262144)
        /\ d = Tail6(cp, 1) /\ e = Tail6(cp, 64) /\ g = Tail6(cp, 4096)
  BY SMT
<1>3. AppendUtf8(cp) = IF cp <= 127 THEN <<cp>>
                       ELSE IF cp <= 2047 THEN <<a, d>>
                       ELSE IF cp <= 65535 THEN <<b, e, d>>
                       ELSE <<c, g, e, d>>
  BY <1>2, SMT DEF AppendUtf8
<1>4. /\ a \in Int /\ b \in Int /\ c \in Int
      /\ d \in Int /\ e \in Int /\ g \in Int
  BY <1>1, <1>2, SMT
<1>5. QED
  BY <1>3, <1>4, SMT

LEMMA SurrogateFacts ==
  ASSUME NEW c, High(c) \/ Low(c)
  PROVE  c \in Int /\ c # -1
<1>1. High(c) => c \in Int /\ c # -1
  BY SMT DEF High
<1>2. Low(c) => c \in Int /\ c # -1
  BY SMT DEF Low
<1>3. QED
  BY <1>1, <1>2

LEMMA SimpleFacts ==
  ASSUME NEW c \in DOMAIN Simple
  PROVE  Simple[c] \in Int
  BY DEF Simple

LEMMA UnitFields ==
  ASSUME NEW u, NEW bytes, NEW next, u = [bytes |-> bytes, next |-> next]
  PROVE  u.bytes = bytes /\ u.next = next
  OBVIOUS

LEMMA UnitFacts ==
  ASSUME NEW str \in Seq(Byte), NEW k \in 1 .. Len(str)
  PROVE  /\ \/ Unit(str, k).bytes = Malformed
            \/ /\ Unit(str, k).bytes \in Seq(Int)
               /\ Unit(str, k).next \in k + 1 .. Len(str) + 1
         /\ str[k] # Backslash
              => Unit(str, k).bytes = <<str[k]>> /\ Unit(str, k).next = k + 1
<1>1. Len(str) \in Nat /\ str[k] \in Int
  <2>1. Len(str) \in Nat /\ str[k] \in Byte
    BY ElementOfSeq, LenProperties
  <2>2. \A b \in Byte : b \in Int
    BY DEF Byte
  <2>3. QED
    BY <2>1, <2>2
<1>2. CASE str[k] # Backslash
  <2>1. Unit(str, k) = [bytes |-> <<str[k]>>, next |-> k + 1]
    BY <1>2 DEF Unit
  <2>2. <<str[k]>> \in Seq(Int) /\ k + 1 \in k + 1 .. Len(str) + 1
    BY <1>1
  <2>3. QED
    BY <2>1, <2>2
<1>3. CASE str[k] = Backslash /\ k = Len(str)
  BY <1>3 DEF Unit
<1>4. CASE str[k] = Backslash /\ k # Len(str)
  <2>1. k + 1 \in 1 .. Len(str)
    BY <1>1, <1>4
  <2>2. CASE str[k + 1] \in DOMAIN Simple
    <3>1. PICK x \in Int : x = Simple[str[k + 1]]
      BY <2>2, SimpleFacts
    <3>2. Unit(str, k) = [bytes |-> <<x>>, next |-> k + 2]
      BY <1>4, <2>2, <3>1 DEF Unit
    <3>3. Unit(str, k).bytes = <<x>> /\ Unit(str, k).next = k + 2
      BY <3>2, UnitFields
    <3>4. <<x>> \in Seq(Int) /\ k + 2 \in k + 1 .. Len(str) + 1
      BY <2>1, <3>1
    <3>5. QED
      BY <1>4, <3>3, <3>4
  <2>3. CASE str[k + 1] \notin DOMAIN Simple
    <3> DEFINE cp1 == IF str[k + 1] = 117 THEN ParseHex4(str, k + 2) ELSE -1
               cp2 == ParseHex4(str, k + 8)
               paired == /\ k + 11 <= Len(str)
                         /\ str[k + 6] = Backslash /\ str[k + 7] = 117
               both == 65536 + 1024 * (cp1 - 55296) + cp2 - 56320
    <3>1. \A p \in 1 .. Len(str) + 1 :
            ParseHex4(str, p) # -1
              => p + 3 <= Len(str) /\ ParseHex4(str, p) \in Int
      BY HexFacts
    <3>2. ASSUME cp1 # -1
          PROVE  cp1 \in Int /\ k + 5 <= Len(str)
      <4>1. PICK p \in 1 .. Len(str) + 1 : p = k + 2
        BY <1>1, <2>1
      <4>2. cp1 = ParseHex4(str, p)
        BY <3>2, <4>1
      <4> HIDE DEF cp1
      <4>3. p + 3 <= Len(str) /\ cp1 \in Int
        BY <3>1, <3>2, <4>2
      <4>4. QED
        BY <1>1, <4>1, <4>3
    <3>3. ASSUME cp2 # -1, k + 11 <= Len(str)
          PROVE  cp2 \in Int
      <4>1. PICK p \in 1 .. Len(str) + 1 : p = k + 8
        BY <1>1, <3>3
      <4>2. QED
        BY <3>1, <3>3, <4>1
    <3>4. \/ /\ High(cp1) /\ paired /\ Low(cp2)
             /\ Unit(str, k) = [bytes |-> AppendUtf8(both), next |-> k + 12]
          \/ /\ cp1 >= 0
             /\ Unit(str, k) = [bytes |-> AppendUtf8(cp1), next |-> k + 6]
          \/ Unit(str, k) = [bytes |-> Malformed, next |-> k]
      BY <1>4, <2>3, SMT DEF Unit
    <3> HIDE DEF cp1, cp2
    <3>5. CASE /\ High(cp1) /\ paired /\ Low(cp2)
               /\ Unit(str, k) = [bytes |-> AppendUtf8(both), next |-> k + 12]
      <4>1. PICK a \in Int, b \in Int : a = cp1 /\ b = cp2
        BY <3>2, <3>3, <3>5, SurrogateFacts
      <4>2. PICK e \in Int : e = both
        BY <4>1, SMT
      <4>3. PICK j \in k + 1 .. Len(str) + 1 : j = k + 12
        BY <1>1, <3>5
      <4> HIDE DEF both
      <4>4. Unit(str, k) = [bytes |-> AppendUtf8(e), next |-> j]
        BY <3>5, <4>2, <4>3
      <4>5. Unit(str, k).bytes = AppendUtf8(e) /\ Unit(str, k).next = j
        BY <4>4, UnitFields
      <4>6. AppendUtf8(e) \in Seq(Int)
        BY <4>2, Utf8Facts
      <4>7. QED
        BY <1>4, <4>3, <4>5, <4>6
    <3> HIDE DEF both
    <3>6. CASE /\ cp1 >= 0
               /\ Unit(str, k) = [bytes |-> AppendUtf8(cp1), next |-> k + 6]
      <4>1. cp1 # -1
        BY <3>6
      <4>2. PICK j \in k + 1 .. Len(str) + 1 : j = k + 6
        BY <1>1, <3>2, <4>1
      <4>3. Unit(str, k) = [bytes |-> AppendUtf8(cp1), next |-> j]
        BY <3>6, <4>2
      <4>4. Unit(str, k).bytes = AppendUtf8(cp1) /\ Unit(str, k).next = j
        BY <4>3, UnitFields
      <4>5. AppendUtf8(cp1) \in Seq(Int)
        BY <3>2, <4>1, Utf8Facts
      <4>6. QED
        BY <1>4, <4>2, <4>4, <4>5
    <3>7. CASE Unit(str, k) = [bytes |-> Malformed, next |-> k]
      <4>1. Unit(str, k).bytes = Malformed
        BY <3>7, UnitFields
      <4>2. QED
        BY <1>4, <4>1
    <3>8. QED
      BY <3>4, <3>5, <3>6, <3>7
  <2>4. QED
    BY <2>2, <2>3
<1>5. QED
  BY <1>2, <1>3, <1>4

\* What UnescapeJsonString returns begins with the first byte, if that is not
\* a backslash.
LEMMA UnescapeFacts ==
  ASSUME NEW str \in Seq(Byte)
  PROVE  /\ Len(str) = 0 => UnescapeJsonString(str) = <<>>
         /\ Len(str) # 0 /\ str[1] # Backslash =>
              \/ UnescapeJsonString(str) = Malformed
              \/ \E rest \in Seq(Int) :
                   UnescapeJsonString(str) = <<str[1]>> \o rest
<1> DEFINE n == Len(str)
           At(f, k) == IF k > n THEN <<>>
                       ELSE IF Unit(str, k).bytes = Malformed
                               \/ f[Unit(str, k).next] = Malformed
                       THEN Malformed
                       ELSE Unit(str, k).bytes \o f[Unit(str, k).next]
           Has == {m \in 0 .. n : \E f : f = [k \in (n + 1) - m .. n + 1 |-> At(f, k)]}
           F == CHOOSE F : F = [k \in 1 .. Len(str) + 1 |->
                  IF k > Len(str) THEN <<>>
                  ELSE LET u    == Unit(str, k)
                           rest == F[u.next]
                       IN  IF u.bytes = Malformed \/ rest = Malformed THEN Malformed
                           ELSE u.bytes \o rest]
<1>1. n \in Nat /\ 0 \in Nat
  OBVIOUS
<1>2. 0 \in Has
  <2> DEFINE f == [k \in (n + 1) - 0 .. n + 1 |-> <<>>]
  <2>1. \A k \in (n + 1) - 0 .. n + 1 : At(f, k) = <<>>
    BY <1>1
  <2>2. f = [k \in (n + 1) - 0 .. n + 1 |-> At(f, k)]
    <3> HIDE DEF At
    <3>1. QED
      BY <2>1
  <2> HIDE DEF At, f
  <2>3. 0 \in 0 .. n
    BY <1>1
  <2>4. QED
    BY <2>2, <2>3
<1>3. ASSUME NEW m \in 0 .. n, m \in Has /\ m < n
      PROVE  m + 1 \in Has
  <2>1. PICK f : f = [k \in (n + 1) - m .. n + 1 |-> At(f, k)]
    BY <1>3
  <2>2. PICK new \in 1 .. n :
          /\ new = (n + 1) - (m + 1)
          /\ (n + 1) - m = new + 1
    <3>1. /\ n - m \in 1 .. n
          /\ n - m = (n + 1) - (m + 1) /\ (n + 1) - m = (n - m) + 1
      BY <1>1, <1>3
    <3>2. QED
      BY <3>1
  <2> DEFINE g == [k \in new .. n + 1 |-> At(f, k)]
  <2>3. ASSUME NEW k \in new .. n + 1
        PROVE  At(f, k) = At(g, k)
    <3>1. CASE k > n
      BY <3>1
    <3>2. CASE k <= n /\ Unit(str, k).bytes = Malformed
      <4> HIDE DEF g
      <4>1. At(f, k) = Malformed /\ At(g, k) = Malformed
        BY <1>1, <2>2, <3>2
      <4>2. QED
        BY <4>1
    <3>3. CASE k <= n /\ Unit(str, k).bytes # Malformed
      <4>1. k \in 1 .. n
        BY <1>1, <2>2, <3>3
      <4>2. Unit(str, k).next \in k + 1 .. n + 1
        BY <3>3, <4>1, UnitFacts
      <4>3. PICK j \in new + 1 .. n + 1 : j = Unit(str, k).next
        BY <1>1, <2>2, <4>1, <4>2
      <4>4. j \in new .. n + 1
        BY <1>1, <2>2, <4>3
      <4>5. f[j] = At(f, j) /\ g[j] = At(f, j)
        <5> HIDE DEF At
        <5>1. QED
          BY <2>1, <2>2, <4>3, <4>4
      <4>6. f[Unit(str, k).next] = g[Unit(str, k).next]
        BY <4>3, <4>5
      <4> HIDE DEF g
      <4>7. PICK u, v, bytes : /\ u = f[Unit(str, k).next] /\ v = g[Unit(str, k).next]
                              /\ bytes = Unit(str, k).bytes
        OBVIOUS
      <4>8. At(f, k) = (IF u = Malformed THEN Malformed ELSE bytes \o u)
        BY <1>1, <3>3, <4>1, <4>7
      <4>9. At(g, k) = (IF v = Malformed THEN Malformed ELSE bytes \o v)
        BY <1>1, <3>3, <4>1, <4>7
      <4>10. u = v
        BY <4>6, <4>7
      <4>11. QED
        BY <4>8, <4>9, <4>10
    <3>4. k > n \/ k <= n
      BY <1>1, <2>2
    <3> HIDE DEF At, g
    <3>5. QED
      BY <3>1, <3>2, <3>3, <3>4, Zenon
  <2>4. g = [k \in new .. n + 1 |-> At(g, k)]
    BY <2>3
  <2>5. \E h : h = [k \in (n + 1) - (m + 1) .. n + 1 |-> At(h, k)]
    BY <2>2, <2>4
  <2>6. m + 1 \in 0 .. n
    BY <1>1, <1>3
  <2>7. QED
    BY <2>5, <2>6
<1>4. n \in Has
  <2> HIDE DEF Has
  <2>1. \A m \in 0 .. n : m \in Has
    BY <1>1, <1>2, <1>3, Upward
  <2>2. QED
    BY <1>1, <2>1
<1>5. (n + 1) - n = 1
  BY <1>1
<1>6. PICK f : f = [k \in 1 .. n + 1 |-> At(f, k)]
  BY <1>4, <1>5
<1>7. F = [k \in 1 .. Len(str) + 1 |-> At(F, k)]
  BY <1>6
<1>8. UnescapeJsonString(str) = F[1]
  BY DEF UnescapeJsonString
<1> HIDE DEF F
<1>9. \A k \in 1 .. n + 1 : F[k] = At(F, k)
  <2> HIDE DEF At
  <2>1. QED
    BY <1>7
<1> DEFINE T == {k \in 1 .. n + 1 : F[k] \in Seq(Int)}
<1>10. ASSUME NEW k \in 1 .. n + 1, \A l \in k + 1 .. n + 1 : l \in T
       PROVE  k \in T
  <2>1. CASE k > n
    <3>1. F[k] = <<>>
      BY <1>9, <2>1
    <3>2. <<>> \in Seq(Int)
      OBVIOUS
    <3>3. QED
      BY <3>1, <3>2
  <2>2. CASE k <= n
    <3>1. k \in 1 .. n
      BY <1>1, <2>2
    <3>2. CASE F[k] = Malformed
      <4>1. Malformed \in Seq(Int)
        BY DEF Malformed
      <4>2. QED
        BY <3>2, <4>1
    <3>3. CASE F[k] # Malformed
      <4>1. /\ F[k] = Unit(str, k).bytes \o F[Unit(str, k).next]
            /\ Unit(str, k).bytes # Malformed
        <5>1. F[k] = At(F, k) /\ ~(k > n)
          BY <1>1, <1>9, <3>1
        <5>2. ~(\/ Unit(str, k).bytes = Malformed
                \/ F[Unit(str, k).next] = Malformed)
          BY <3>3, <5>1
        <5>3. QED
          BY <5>1, <5>2
      <4>2. /\ Unit(str, k).bytes \in Seq(Int)
            /\ Unit(str, k).next \in k + 1 .. n + 1
        BY <3>1, <4>1, UnitFacts
      <4>3. F[Unit(str, k).next] \in Seq(Int)
        BY <1>10, <4>2
      <4>4. F[k] \in Seq(Int)
        BY <4>1, <4>2, <4>3, ConcatProperties
      <4>5. QED
        BY <4>4
    <3>4. QED
      BY <3>2, <3>3
  <2>3. QED
    BY <1>1, <2>1, <2>2
<1>11. \A k \in 1 .. n + 1 : F[k] \in Seq(Int)
  <2>1. n + 1 \in Nat
    BY <1>1
  <2> HIDE DEF T
  <2>2. \A k \in 1 .. n + 1 : k \in T
    BY <1>10, <2>1, Downward
  <2>3. QED
    BY <2>2 DEF T
<1>12. n = 0 => F[1] = <<>>
  BY <1>1, <1>9
<1>13. ASSUME n # 0, str[1] # Backslash, F[1] # Malformed
       PROVE  \E rest \in Seq(Int) : F[1] = <<str[1]>> \o rest
  <2>1. 1 \in 1 .. n /\ 1 + 1 \in 1 .. n + 1 /\ 1 \in 1 .. n + 1
    BY <1>1, <1>13
  <2>2. Unit(str, 1).bytes = <<str[1]>> /\ Unit(str, 1).next = 1 + 1
    BY <1>13, <2>1, UnitFacts
  <2>3. F[1] = Unit(str, 1).bytes \o F[Unit(str, 1).next]
    <3>1. F[1] = At(F, 1) /\ ~(1 > n)
      BY <1>1, <1>9, <2>1
    <3>2. ~(\/ Unit(str, 1).bytes = Malformed
            \/ F[Unit(str, 1).next] = Malformed)
      BY <1>13, <3>1
    <3>3. QED
      BY <3>1, <3>2
  <2>4. F[1] = <<str[1]>> \o F[1 + 1]
    BY <2>2, <2>3
  <2>5. QED
    BY <1>11, <2>1, <2>4
<1>14. QED
  BY <1>8, <1>12, <1>13

\* Punctuation does not become the key type.
LEMMA NotType ==
  ASSUME NEW str \in Seq(Byte), Len(str) # 0 => str[1] \in Punctuation
  PROVE  UnescapeJsonString(str) # Key["type"]
<1>1. Key["type"] = <<84>> /\ Len(<<84>>) = 1 /\ <<84>>[1] = 84
  BY DEF Key
<1>2. CASE Len(str) = 0
  <2>1. UnescapeJsonString(str) = <<>> /\ Len(<<>>) = 0
    BY <1>2, UnescapeFacts
  <2>2. QED
    BY <1>1, <2>1
<1>3. CASE Len(str) # 0
  <2>1. str[1] # Backslash /\ str[1] # 84 /\ str[1] \in Int
    BY <1>3 DEF Punctuation, Whitespace, Quote, Colon, Comma, Backslash
  <2>2. CASE UnescapeJsonString(str) = Malformed
    BY <1>1, <2>2 DEF Malformed
  <2>3. CASE \E rest \in Seq(Int) :
               UnescapeJsonString(str) = <<str[1]>> \o rest
    <3>1. PICK rest \in Seq(Int) :
                 UnescapeJsonString(str) = <<str[1]>> \o rest
      BY <2>3
    <3>2. PICK b \in Int : b = str[1]
      BY <2>1
    <3>3. (<<b>> \o rest)[1] = b
      OBVIOUS
    <3>4. b # 84
      BY <2>1, <3>2
    <3>5. <<b>> \o rest # <<84>>
      BY <1>1, <3>3, <3>4
    <3>6. QED
      BY <1>1, <3>1, <3>2, <3>5
  <2>4. QED
    BY <1>3, <2>1, <2>2, <2>3, UnescapeFacts
<1>4. QED
  BY <1>2, <1>3

-----------------------------------------------------------------------------
(* Pieces.                                                                  *)

\* The pieces of a sequence, byte by byte.
LEMMA PieceFacts ==
  ASSUME NEW S, NEW u \in Seq(S), NEW m \in 1 .. Len(u), NEW n \in 1 .. Len(u),
         m <= n + 1
  PROVE  /\ SubSeq(u, m, n) \in Seq(S)
         /\ Len(SubSeq(u, m, n)) = n - m + 1
         /\ \A j \in 1 .. n - m + 1 : SubSeq(u, m, n)[j] = u[m + j - 1]
<1>1. \A j \in m .. n : u[j] \in S
  BY ElementOfSeq
<1>2. m \in Int /\ n \in Int
  OBVIOUS
<1>3. /\ SubSeq(u, m, n) \in Seq(S)
      /\ Len(SubSeq(u, m, n)) = IF m <= n THEN n - m + 1 ELSE 0
      /\ \A j \in 1 .. n - m + 1 : SubSeq(u, m, n)[j] = u[m + j - 1]
  BY <1>1, <1>2, SubSeqProperties
<1>4. m <= n \/ n - m + 1 = 0
  OBVIOUS
<1>5. QED
  BY <1>3, <1>4

LEMMA LexValues ==
  ASSUME NEW S, NEW str \in Seq(S), NEW k \in 1 .. Len(str) + 1
  PROVE  Lex(str)[k] \in {"out", "in", "esc"}
<1> DEFINE T == {j \in 1 .. Len(str) + 1 : Lex(str)[j] \in {"out", "in", "esc"}}
<1>1. Len(str) \in Nat /\ 1 \in Nat /\ Len(str) + 1 \in Nat
  OBVIOUS
<1>2. 1 \in T
  BY <1>1, LexFacts
<1>3. ASSUME NEW j \in 1 .. Len(str) + 1, j \in T /\ j < Len(str) + 1
      PROVE  j + 1 \in T
  <2>1. j \in 1 .. Len(str) /\ j + 1 \in 1 .. Len(str) + 1
    BY <1>1, <1>3
  <2>2. Lex(str)[j + 1] = LexStep(Lex(str)[j], str[j])
    BY <2>1, LexFacts
  <2>3. \/ Lex(str)[j] = "out" \/ Lex(str)[j] = "in" \/ Lex(str)[j] = "esc"
    BY <1>3
  <2>4. Lex(str)[j + 1] \in {"out", "in", "esc"}
    BY <2>2, <2>3, LexStepFacts
  <2>5. QED
    BY <2>1, <2>4
<1>4. k \in T
  <2> HIDE DEF T
  <2>1. QED
    BY <1>1, <1>2, <1>3, Upward
<1>5. QED
  BY <1>4

\* In a message that lost its end the braces are where they were, and the one
\* it ends with did not close the object.
LEMMA BeginningIsNoMessage ==
  ASSUME NEW u \in Seq(Byte), IsMessage(u), NEW v \in Seq(Byte), IsMessage(v),
         NEW n \in 1 .. Len(u), n < Len(u), Len(v) = n,
         \A j \in 1 .. n : v[j] = u[j]
  PROVE  FALSE
<1> DEFINE T == {j \in 1 .. n : Lex(v)[j] = Lex(u)[j]}
<1>1. n \in Nat /\ 1 \in Nat /\ 1 \in 1 .. n
  OBVIOUS
<1>2. 1 \in T
  BY <1>1, LexFacts
<1>3. ASSUME NEW j \in 1 .. n, j \in T /\ j < n
      PROVE  j + 1 \in T
  <2>1. j \in 1 .. Len(u) /\ j \in 1 .. Len(v) /\ j + 1 \in 1 .. n
    BY <1>1, <1>3
  <2>2. /\ Lex(u)[j + 1] = LexStep(Lex(u)[j], u[j])
        /\ Lex(v)[j + 1] = LexStep(Lex(v)[j], v[j])
    BY <2>1, LexFacts
  <2>3. Lex(u)[j] = Lex(v)[j] /\ u[j] = v[j]
    BY <1>3
  <2>4. QED
    BY <2>1, <2>2, <2>3
<1>4. Lex(v)[n] = Lex(u)[n]
  <2>1. n \in 1 .. n
    BY <1>1
  <2>2. n \in T
    <3> HIDE DEF T
    <3>1. QED
      BY <1>1, <1>2, <1>3, <2>1, Upward
  <2>3. QED
    BY <2>2
<1>5. n >= 2 /\ Lex(v)[n] = "out" /\ v[n] = CloseBrace
  BY DEF IsMessage
<1>6. n \in 2 .. Len(u) - 1 /\ u[n] = CloseBrace /\ Lex(u)[n] = "out"
  BY <1>1, <1>4, <1>5
<1>7. u[n] \in Punctuation
  BY <1>6 DEF IsMessage
<1>8. QED
  BY <1>6, <1>7
     DEF Punctuation, Whitespace, Quote, Colon, Comma, CloseBrace

\* Between strings no byte is escaped.
LEMMA NoBackslash == Backslash \notin Punctuation
  BY DEF Punctuation, Whitespace, Quote, Colon, Comma, Backslash

\* A piece that lost the beginning begins in a string, so that it takes for
\* strings what was between them, and finds no key there.
LEMMA InsideIsNoMessage ==
  ASSUME NEW u \in Seq(Byte), IsMessage(u), NEW v \in Seq(Byte), IsMessage(v),
         NEW m \in 2 .. Len(u), NEW n \in m .. Len(u), Len(v) = n - m + 1,
         \A j \in 1 .. n - m + 1 : v[j] = u[m + j - 1]
  PROVE  FALSE
<1>1. PICK len \in Nat : len = Len(v) /\ len >= 2 /\ m + len - 1 = n
  BY DEF IsMessage
<1>2. Len(u) \in Nat /\ m \in Nat /\ n <= Len(u) /\ n \in Nat
  OBVIOUS
<1>3. /\ \A j \in 2 .. Len(u) - 1 : Lex(u)[j] = "out" => u[j] \in Punctuation
      /\ \A j \in 2 .. len - 1 : Lex(v)[j] = "out" => v[j] \in Punctuation
      /\ v[1] = OpenBrace /\ Lex(v)[len] = "out"
  BY <1>1 DEF IsMessage
<1>4. \A j \in 1 .. len : v[j] = u[m + j - 1]
  BY <1>1
<1> DEFINE Opposite(j) == \/ Lex(v)[j] = "out" /\ Lex(u)[m + j - 1] = "in"
                          \/ Lex(v)[j] = "in" /\ Lex(u)[m + j - 1] = "out"
           T == {j \in 2 .. len : Opposite(j)}
<1>5. 2 \in T
  <2>1. /\ 1 \in 1 .. len /\ 2 \in 2 .. len /\ m + 1 - 1 = m /\ m + 2 - 1 = m + 1
        /\ m \in 2 .. Len(u) - 1 /\ m \in 1 .. Len(u) /\ m \in 1 .. Len(u) + 1
    BY <1>1, <1>2
  <2>2. u[m] = OpenBrace
    BY <1>3, <1>4, <2>1
  <2>3. OpenBrace \notin Punctuation /\ OpenBrace \notin {Quote, Backslash}
    BY DEF Punctuation, Whitespace, Quote, Colon, Comma, OpenBrace, Backslash
  <2>4. Lex(u)[m] # "out"
    BY <1>3, <2>1, <2>2, <2>3
  <2>5. Lex(u)[m] = "in" \/ Lex(u)[m] = "esc"
    BY <2>1, <2>4, LexValues
  <2>6. Lex(u)[m + 1] = LexStep(Lex(u)[m], u[m])
    BY <2>1, LexFacts
  <2>7. Lex(u)[m + 1] = "in"
    BY <2>2, <2>3, <2>5, <2>6, LexStepFacts
  <2>8. Lex(v)[1] = "out" /\ Lex(v)[1 + 1] = LexStep(Lex(v)[1], v[1])
    BY <1>1, <2>1, LexFacts
  <2>9. Lex(v)[2] = "out"
    BY <1>3, <2>3, <2>8, LexStepFacts
  <2>10. Opposite(2)
    BY <2>1, <2>7, <2>9
  <2>11. QED
    BY <2>1, <2>10
<1>6. ASSUME NEW j \in 2 .. len, j \in T /\ j < len
      PROVE  j + 1 \in T
  <2>1. PICK k \in 2 .. Len(u) - 1 : k = m + j - 1
    BY <1>1, <1>2, <1>6
  <2>2. /\ j \in 1 .. Len(v) /\ j \in 2 .. len - 1 /\ j + 1 \in 2 .. len
        /\ k \in 1 .. Len(u) /\ k + 1 = m + (j + 1) - 1 /\ j \in 1 .. len
    BY <1>1, <1>2, <1>6, <2>1
  <2>3. /\ Lex(u)[k + 1] = LexStep(Lex(u)[k], u[k])
        /\ Lex(v)[j + 1] = LexStep(Lex(v)[j], v[j])
    BY <2>2, LexFacts
  <2>4. u[k] = v[j]
    BY <1>4, <2>1, <2>2
  <2>5. \/ Lex(v)[j] = "out" /\ Lex(u)[k] = "in"
        \/ Lex(v)[j] = "in" /\ Lex(u)[k] = "out"
    BY <1>6, <2>1
  <2>6. v[j] \in Punctuation
    <3>1. Lex(v)[j] = "out" => v[j] \in Punctuation
      BY <1>3, <2>2
    <3>2. Lex(u)[k] = "out" => v[j] \in Punctuation
      BY <1>3, <2>1, <2>4
    <3>3. QED
      BY <2>5, <3>1, <3>2
  <2>7. v[j] # Backslash
    BY <2>6, NoBackslash
  <2>8. CASE v[j] = Quote
    <3>1. \/ Lex(v)[j + 1] = "in" /\ Lex(u)[k + 1] = "out"
          \/ Lex(v)[j + 1] = "out" /\ Lex(u)[k + 1] = "in"
      BY <2>3, <2>4, <2>5, <2>8, LexStepFacts
    <3>2. QED
      BY <2>2, <3>1
  <2>9. CASE v[j] # Quote
    <3>1. \/ Lex(v)[j + 1] = "out" /\ Lex(u)[k + 1] = "in"
          \/ Lex(v)[j + 1] = "in" /\ Lex(u)[k + 1] = "out"
      BY <2>3, <2>4, <2>5, <2>7, <2>9, LexStepFacts
    <3>2. QED
      BY <2>2, <3>1
  <2>10. QED
    BY <2>8, <2>9
<1>7. \A j \in 2 .. len : Opposite(j)
  <2> HIDE DEF T
  <2>1. \A j \in 2 .. len : j \in T
    BY <1>5, <1>6, Upward
  <2>2. QED
    BY <2>1 DEF T
<1>8. PICK k \in 2 .. len - 1 :
        /\ Lex(v)[k] = "out" /\ ParseJsonQuotedToken(v, k).ok
        /\ UnescapeJsonString(ParseJsonQuotedToken(v, k).raw) = Key["type"]
  BY <1>1 DEF IsMessage
<1>9. PICK c \in k + 1 .. len :
        /\ ParseJsonQuotedToken(v, k).raw = SubSeq(v, k + 1, c - 1)
        /\ \A j \in k + 1 .. c : Lex(v)[j] # "out"
  <2>1. k \in 1 .. Len(v) + 1
    BY <1>1
  <2>2. QED
    BY <1>1, <1>8, <2>1, TokenLex
<1>10. PICK raw : raw = SubSeq(v, k + 1, c - 1)
  OBVIOUS
<1>11. /\ k + 1 \in 1 .. Len(v) /\ c - 1 \in 1 .. Len(v)
       /\ k + 1 <= (c - 1) + 1 /\ (c - 1) - (k + 1) + 1 = c - k - 1
       /\ c - k - 1 \in Nat /\ k \in Nat /\ c \in Nat
  BY <1>1, <1>8, <1>9
<1>12. /\ raw \in Seq(Byte) /\ Len(raw) = c - k - 1
       /\ \A j \in 1 .. c - k - 1 : raw[j] = v[(k + 1) + j - 1]
  BY <1>10, <1>11, PieceFacts
<1>13. ASSUME Len(raw) # 0
       PROVE  raw[1] \in Punctuation
  <2>1. /\ 1 \in 1 .. c - k - 1 /\ (k + 1) + 1 - 1 = k + 1
        /\ k + 1 \in 2 .. len /\ k + 1 \in k + 1 .. c /\ k + 1 \in 1 .. len
    <3>1. PICK d \in Nat : d = c - k - 1 /\ d # 0
      BY <1>11, <1>12, <1>13
    <3>2. k \in 2 .. len - 1 /\ c \in k + 1 .. len /\ len \in Nat
      BY <1>1, <1>8, <1>9
    <3>3. 1 \in 1 .. d
      BY <3>1
    <3>4. QED
      BY <3>1, <3>2, <3>3
  <2>2. raw[1] = v[k + 1] /\ Lex(v)[k + 1] # "out"
    BY <1>9, <1>12, <2>1
  <2>3. Lex(u)[m + (k + 1) - 1] = "out"
    BY <1>7, <2>1, <2>2
  <2>4. m + (k + 1) - 1 \in 2 .. Len(u) - 1
    BY <1>1, <1>2, <1>9, <1>11, <1>12, <1>13
  <2>5. u[m + (k + 1) - 1] = v[k + 1]
    BY <1>4, <2>1
  <2>6. QED
    BY <1>3, <2>2, <2>3, <2>4, <2>5
<1>14. QED
  BY <1>8, <1>9, <1>10, <1>12, <1>13, NotType

(***************************************************************************)
(* No message is a piece of another: what a read that lost the beginning,  *)
(* the end or both of a message hands to ParseJsonLine is no message,      *)
(* whatever braces and quotes its strings hold, and a line that holds more *)
(* than a message is none.                                                 *)
(***************************************************************************)
THEOREM PiecesAreNoMessages ==
  ASSUME NEW u \in Seq(0 .. 255), IsMessage(u), NEW v, ProperPiece(v, u)
  PROVE  ~IsMessage(v)
<1>1. SUFFICES ASSUME IsMessage(v) PROVE FALSE
  OBVIOUS
<1>2. u \in Seq(Byte)
  BY DEF Byte
<1>3. PICK m \in 1 .. Len(u), n \in 1 .. Len(u) : v = SubSeq(u, m, n) /\ v # u
  <2>1. DOMAIN u = 1 .. Len(u)
    OBVIOUS
  <2>2. QED
    BY <2>1 DEF ProperPiece
<1>4. m \in Int /\ n \in Int /\ Len(u) \in Nat
  BY <1>2
<1>5. CASE m > n
  <2>1. \A j \in m .. n : u[j] \in Byte
    BY <1>4, <1>5
  <2>2. Len(v) = 0
    BY <1>3, <1>4, <1>5, <2>1, SubSeqProperties
  <2>3. Len(v) >= 2
    BY <1>1 DEF IsMessage
  <2>4. QED
    BY <2>2, <2>3
<1>6. CASE m <= n
  <2>1. /\ v \in Seq(Byte) /\ Len(v) = n - m + 1
        /\ \A j \in 1 .. n - m + 1 : v[j] = u[m + j - 1]
    BY <1>2, <1>3, <1>4, <1>6, PieceFacts
  <2>2. CASE m = 1
    <3>1. n - m + 1 = n /\ \A j \in 1 .. n : m + j - 1 = j
      BY <1>4, <2>2
    <3>2. Len(v) = n /\ \A j \in 1 .. n : v[j] = u[j]
      BY <2>1, <3>1
    <3>3. n # Len(u)
      <4>1. SUFFICES ASSUME n = Len(u) PROVE v = u
        BY <1>3
      <4>2. QED
        BY <1>2, <2>1, <3>2, <4>1, SeqEqual
    <3>4. n < Len(u)
      BY <1>3, <1>4, <3>3
    <3>5. QED
      BY <1>1, <1>2, <1>3, <2>1, <3>2, <3>4, BeginningIsNoMessage
  <2>3. CASE m # 1
    <3>1. m \in 2 .. Len(u) /\ n \in m .. Len(u)
      BY <1>3, <1>4, <1>6, <2>3
    <3>2. QED
      BY <1>1, <1>2, <2>1, <3>1, InsideIsNoMessage
  <2>4. QED
    BY <2>2, <2>3
<1>7. QED
  BY <1>4, <1>5, <1>6

-----------------------------------------------------------------------------
(* The parser.                                                              *)

\* What the parser has behind it: from the brace that opens the object on,
\* only punctuation is outside the strings, and one of them was the type if
\* hasType says so.
Parsed(to) ==
  /\ Lex(s)[to] = "out" /\ Punctuated(s, 2, to)
  /\ hasType => \E k \in 2 .. to - 1 : TypeAt(s, k)

ParseInv ==
  /\ sample \in Samples
  /\ pc \in {"open", "members", "end", "done"}
  /\ pc = "open" => ~hasType
  /\ pc # "open" => s = Trim(sample.line)
  /\ pc \in {"members", "end"} => Len(s) >= 1 /\ s[1] = OpenBrace
  /\ pc = "members" => Parsed(i)
  /\ pc = "end" => i > 2 /\ s[i - 1] = CloseBrace /\ Parsed(i - 1)

JsonInv ==
  /\ ParseInv
  /\ ParserStaysInLine /\ AcceptedIsMessage /\ RefusedLeavesNothing

LEMMA InitSafe == Init => JsonInv
  BY DEF Init, JsonInv, ParseInv, ParserStaysInLine, AcceptedIsMessage,
         RefusedLeavesNothing

\* The line that is parsed.
LEMMA LineFacts ==
  ASSUME JsonInv
  PROVE  /\ Trim(sample.line) \in Seq(0 .. 255)
         /\ Trim(sample.line) # <<>>
              => Trim(sample.line)[Len(Trim(sample.line))] \notin Whitespace
<1>1. sample.line \in Seq(0 .. 255)
  BY LinesAreBytes DEF JsonInv, ParseInv
<1>2. QED
  BY <1>1, TrimFacts

LEMMA RejectSafe ==
  ASSUME JsonInv, Reject, sample' = sample, s' = Trim(sample.line)
  PROVE  JsonInv'
<1>1. pc' = "done" /\ ok' = FALSE /\ out' = EmptyMsg
  BY DEF Reject
<1>2. ParseInv'
  BY <1>1 DEF JsonInv, ParseInv
<1>3. ParserStaysInLine' /\ AcceptedIsMessage' /\ RefusedLeavesNothing'
  BY <1>1 DEF ParserStaysInLine, AcceptedIsMessage, RefusedLeavesNothing, EmptyMsg
<1>4. QED
  BY <1>2, <1>3 DEF JsonInv

\* A step that goes on at a position in the line.
LEMMA GoesOnSafe ==
  ASSUME JsonInv, pc' \in {"members", "end"}, sample' = sample,
         s' = Trim(sample.line), i' \in 2 .. Len(s') + 1,
         Len(s') >= 1, s'[1] = OpenBrace,
         pc' = "members" => Parsed(i)',
         pc' = "end" => i' > 2 /\ s'[i' - 1] = CloseBrace /\ Parsed(i - 1)'
  PROVE  JsonInv'
<1>1. ParseInv'
  BY DEF JsonInv, ParseInv
<1>2. ParserStaysInLine' /\ AcceptedIsMessage' /\ RefusedLeavesNothing'
  BY DEF ParserStaysInLine, AcceptedIsMessage, RefusedLeavesNothing
<1>3. QED
  BY <1>1, <1>2 DEF JsonInv

LEMMA OpenSafe ==
  ASSUME JsonInv, Open
  PROVE  JsonInv'
<1>1. s' = Trim(sample.line) /\ sample' = sample
  BY DEF Open
<1>2. CASE s' # <<>> /\ s'[1] = OpenBrace
  <2>1. pc' = "members" /\ i' = 2
    BY <1>2 DEF Open
  <2>2. s' \in Seq(0 .. 255)
    BY <1>1, LineFacts
  <2>3. Len(s') \in Nat /\ Len(s') >= 1
    BY <1>2, <2>2, EmptySeq
  <2>4. Parsed(i)'
    <3>1. 1 \in 1 .. Len(s') /\ s'[1] # Quote
      BY <1>2, <2>3 DEF OpenBrace, Quote
    <3>2. Lex(s')[1 + 1] = "out"
      BY <2>2, <3>1, LexFacts, LexStepFacts
    <3>3. Punctuated(s', 2, 2)
      BY DEF Punctuated
    <3>4. ~hasType'
      BY <1>2 DEF Open, JsonInv, ParseInv
    <3>5. QED
      BY <2>1, <3>2, <3>3, <3>4 DEF Parsed
  <2>5. QED
    BY <1>1, <1>2, <2>1, <2>3, <2>4, GoesOnSafe
<1>3. CASE ~(s' # <<>> /\ s'[1] = OpenBrace)
  BY <1>1, <1>3, RejectSafe DEF Open
<1>4. QED
  BY <1>2, <1>3

\* One turn of the loop gives up, or moves on in the line and to the end only
\* behind a closing brace.
LEMMA MembersFacts ==
  ASSUME JsonInv, Members
  PROVE  /\ UNCHANGED <<sample, s>>
         /\ \/ Reject
            \/ /\ pc' \in {"members", "end"}
               /\ i' > i /\ i' \in 2 .. Len(s) + 1
               /\ pc' = "members" => Parsed(i)'
               /\ pc' = "end" => s[i' - 1] = CloseBrace /\ Parsed(i - 1)'
<1>1. UNCHANGED <<sample, s>>
  BY DEF Members
<1>2. s \in Seq(0 .. 255) /\ i \in 2 .. Len(s) + 1
  BY LineFacts DEF Members, JsonInv, ParseInv, ParserStaysInLine
<1>3. Len(s) \in Nat /\ i \in 1 .. Len(s) + 1
  BY <1>2
<1>4. /\ Lex(s)[i] = "out" /\ Punctuated(s, 2, i)
      /\ hasType => \E k \in 2 .. i - 1 : TypeAt(s, k)
  BY DEF Members, JsonInv, ParseInv, Parsed
<1> DEFINE k      == SkipWs(s, i)
           m      == ParseMember(k)
           closes == k <= Len(s) /\ s[k] = CloseBrace
           behind == IF m.ok /\ m.next <= Len(s) THEN s[m.next] ELSE -1
<1>5. k \in i .. Len(s) + 1 /\ k \in 1 .. Len(s) + 1
  <2>1. k \in i .. Len(s) + 1
    BY <1>2, <1>3, SkipWsFacts
  <2> HIDE DEF k
  <2>2. QED
    BY <1>3, <2>1
<1>6. Lex(s)[k] = "out" /\ Punctuated(s, 2, k)
  <2>1. Lex(s)[k] = "out" /\ Punctuated(s, i, k)
    BY <1>2, <1>3, <1>4, SkipPunctuated
  <2> HIDE DEF k
  <2>2. i \in Int /\ k \in Int /\ 2 \in Int
    BY <1>2, <1>5
  <2>3. QED
    BY <1>4, <2>1, <2>2, PunctuatedOn
<1>7. m.ok => /\ m.next \in k + 4 .. Len(s) + 1
              /\ Lex(s)[m.next] = "out" /\ Punctuated(s, k, m.next)
              /\ m.key = Key["type"] => TypeAt(s, k)
  <2> HIDE DEF k
  <2>1. QED
    BY <1>2, <1>5, <1>6, MemberFacts, MemberLex
<1>8. ASSUME closes /\ pc' = "end" /\ i' = k + 1, UNCHANGED hasType
      PROVE  /\ i' > i /\ i' \in 2 .. Len(s) + 1
             /\ s[i' - 1] = CloseBrace /\ Parsed(i - 1)'
  <2> HIDE DEF k, m
  <2>1. i' > i /\ i' \in 2 .. Len(s) + 1 /\ i' - 1 = k
    BY <1>2, <1>3, <1>5, <1>8
  <2>2. \A j \in 2 .. i - 1 : j \in 2 .. k - 1
    BY <1>2, <1>5
  <2>3. hasType' => \E j \in 2 .. k - 1 : TypeAt(s, j)
    BY <1>4, <1>8, <2>2
  <2>4. Parsed(i - 1)'
    BY <1>1, <1>6, <2>1, <2>3 DEF Parsed
  <2>5. QED
    BY <1>1, <1>8, <2>1, <2>4
<1>9. ASSUME behind \in {Comma, CloseBrace},
             pc' = IF behind = Comma THEN "members" ELSE "end",
             i' = m.next + 1,
             hasType' = (hasType \/ m.key = Key["type"])
      PROVE  /\ i' > i /\ i' \in 2 .. Len(s) + 1
             /\ pc' = "members" => Parsed(i)'
             /\ pc' = "end" => s[i' - 1] = CloseBrace /\ Parsed(i - 1)'
  <2> HIDE DEF k, m
  <2>1. m.ok /\ m.next <= Len(s) /\ behind = s[m.next]
    BY <1>9 DEF Comma, CloseBrace
  <2> HIDE DEF behind
  <2>2. PICK j \in k + 4 .. Len(s) : j = m.next
    BY <1>5, <1>7, <2>1
  <2>3. /\ i' > i /\ i' \in 2 .. Len(s) + 1 /\ i' - 1 = j /\ i' = j + 1
        /\ j \in 1 .. Len(s) /\ k \in 2 .. j - 1 /\ k \in 2 .. (j + 1) - 1
    BY <1>2, <1>3, <1>5, <1>9, <2>2
  <2>4. Lex(s)[j] = "out" /\ Punctuated(s, 2, j)
    <3>1. Lex(s)[j] = "out" /\ Punctuated(s, k, j)
      BY <1>7, <2>1, <2>2
    <3>2. j \in Int /\ k \in Int /\ 2 \in Int
      BY <1>5, <2>2
    <3>3. QED
      BY <1>6, <3>1, <3>2, PunctuatedOn
  <2>5. hasType' => \E l \in 2 .. j - 1 : TypeAt(s, l)
    <3>1. \A l \in 2 .. i - 1 : l \in 2 .. j - 1
      BY <1>2, <1>5, <2>2
    <3>2. CASE m.key = Key["type"]
      BY <1>7, <2>1, <2>3, <3>2
    <3>3. CASE m.key # Key["type"]
      BY <1>4, <1>9, <3>1, <3>3
    <3>4. QED
      BY <3>2, <3>3
  <2>6. CASE behind = Comma
    <3>1. pc' = "members" /\ s[j] = Comma
      BY <1>9, <2>1, <2>2, <2>6
    <3>2. s[j] # Quote /\ s[j] \in Punctuation
      BY <3>1 DEF Punctuation, Comma, Quote
    <3>3. Lex(s)[j + 1] = "out"
      BY <1>2, <2>3, <2>4, <3>2, LexFacts, LexStepFacts
    <3>4. \A l \in 2 .. (j + 1) - 1 : l \in 2 .. j - 1 \/ l = j
      BY <2>3
    <3>5. Punctuated(s, 2, j + 1)
      BY <2>4, <3>2, <3>4 DEF Punctuated
    <3>6. \A l \in 2 .. j - 1 : l \in 2 .. (j + 1) - 1
      BY <2>3
    <3>7. Parsed(i)'
      BY <1>1, <2>3, <2>5, <3>3, <3>5, <3>6 DEF Parsed
    <3>8. QED
      BY <2>3, <3>1, <3>7
  <2>7. CASE behind # Comma
    <3>1. pc' = "end" /\ s[j] = CloseBrace
      BY <1>9, <2>1, <2>2, <2>7
    <3>2. Parsed(i - 1)'
      BY <1>1, <2>3, <2>4, <2>5 DEF Parsed
    <3>3. QED
      BY <1>1, <2>3, <3>1, <3>2
  <2>8. QED
    BY <2>6, <2>7
<1>10. \/ closes /\ pc' = "end" /\ i' = k + 1 /\ UNCHANGED hasType
       \/ /\ behind \in {Comma, CloseBrace}
          /\ pc' = IF behind = Comma THEN "members" ELSE "end"
          /\ i' = m.next + 1
          /\ hasType' = (hasType \/ m.key = Key["type"])
       \/ Reject
  BY DEF Members, Store
<1>11. (IF behind = Comma THEN "members" ELSE "end") \in {"members", "end"}
  OBVIOUS
<1> HIDE DEF k, m, closes, behind
<1>12. QED
  BY <1>1, <1>8, <1>9, <1>10, <1>11

LEMMA MembersSafe ==
  ASSUME JsonInv, Members
  PROVE  JsonInv'
<1>1. /\ pc = "members" /\ UNCHANGED <<sample, s>>
      /\ s = Trim(sample.line) /\ Len(s) >= 1 /\ s[1] = OpenBrace
      /\ i \in 2 .. Len(s) + 1
  BY DEF Members, JsonInv, ParseInv, ParserStaysInLine
<1>2. CASE Reject
  BY <1>1, <1>2, RejectSafe
<1>3. CASE /\ pc' \in {"members", "end"}
           /\ i' > i /\ i' \in 2 .. Len(s) + 1
           /\ pc' = "members" => Parsed(i)'
           /\ pc' = "end" => s[i' - 1] = CloseBrace /\ Parsed(i - 1)'
  <2>1. i' > 2
    BY <1>1, <1>3
  <2>2. QED
    BY <1>1, <1>3, <2>1, GoesOnSafe
<1>4. QED
  BY <1>2, <1>3, MembersFacts

\* Whatever has a closing brace for its last byte, and only punctuation and
\* the type before it, is a message.
LEMMA ParsedIsMessage ==
  ASSUME s \in Seq(0 .. 255), s # <<>>, s[1] = OpenBrace,
         s[Len(s)] = CloseBrace, Parsed(Len(s)), hasType, Len(s) >= 2
  PROVE  IsMessage(s)
<1>1. Lex(s)[Len(s)] = "out"
  BY DEF Parsed
<1>2. \A k \in 2 .. Len(s) - 1 : Lex(s)[k] = "out" => s[k] \in Punctuation
  BY DEF Parsed, Punctuated
<1>3. PICK k \in 2 .. Len(s) - 1 : TypeAt(s, k)
  BY DEF Parsed
<1>4. /\ Lex(s)[k] = "out" /\ ParseJsonQuotedToken(s, k).ok
      /\ UnescapeJsonString(ParseJsonQuotedToken(s, k).raw) = Key["type"]
  BY <1>3 DEF TypeAt
<1>5. QED
  BY <1>1, <1>2, <1>3, <1>4 DEF IsMessage

LEMMA EndSafe ==
  ASSUME JsonInv, End
  PROVE  JsonInv'
<1>1. /\ pc = "end" /\ UNCHANGED <<sample, s>>
      /\ s = Trim(sample.line) /\ Len(s) >= 1 /\ s[1] = OpenBrace
      /\ i \in 2 .. Len(s) + 1 /\ i > 2 /\ s[i - 1] = CloseBrace
      /\ Parsed(i - 1)
  BY DEF End, JsonInv, ParseInv, ParserStaysInLine
<1>2. CASE SkipWs(s, i) = Len(s) + 1 /\ hasType /\ out.type # <<>>
  <2>1. pc' = "done" /\ ok' = TRUE /\ UNCHANGED <<i, out>>
    BY <1>2 DEF End
  <2>2. s \in Seq(0 .. 255) /\ (s # <<>> => s[Len(s)] \notin Whitespace)
    BY <1>1, LineFacts
  <2>3. Len(s) \in Nat /\ s # <<>>
    BY <1>1, <2>2, EmptySeq
  <2>4. i - 1 = Len(s)
    <3>1. SUFFICES ASSUME i <= Len(s) PROVE FALSE
      BY <1>1, <2>3
    <3>2. i \in 1 .. Len(s) + 1 /\ Len(s) \in i .. Len(s)
      BY <1>1, <2>3, <3>1
    <3>3. SkipWs(s, i) <= Len(s)
      BY <2>2, <2>3, <3>2, SkipWsFacts
    <3>4. QED
      BY <1>2, <2>3, <3>3
  <2>5. Len(s) >= 2 /\ s[Len(s)] = CloseBrace /\ Parsed(Len(s))
    BY <1>1, <2>3, <2>4
  <2>6. IsMessage(s)
    BY <1>1, <1>2, <2>2, <2>3, <2>5, ParsedIsMessage
  <2>7. ParseInv'
    BY <1>1, <2>1 DEF JsonInv, ParseInv
  <2>8. ParserStaysInLine' /\ AcceptedIsMessage' /\ RefusedLeavesNothing'
    BY <1>1, <2>1, <2>6
       DEF ParserStaysInLine, AcceptedIsMessage, RefusedLeavesNothing
  <2>9. QED
    BY <2>7, <2>8 DEF JsonInv
<1>3. CASE ~(SkipWs(s, i) = Len(s) + 1 /\ hasType /\ out.type # <<>>)
  BY <1>1, <1>3, RejectSafe DEF End
<1>4. QED
  BY <1>2, <1>3

LEMMA StepSafe == JsonInv /\ [Next]_vars => JsonInv'
<1>1. SUFFICES ASSUME JsonInv, [Next]_vars PROVE JsonInv'
  OBVIOUS
<1>2. CASE UNCHANGED vars
  BY <1>1, <1>2 DEF vars, JsonInv, ParseInv, Parsed, ParserStaysInLine,
     AcceptedIsMessage, RefusedLeavesNothing
<1>3. QED
  BY <1>1, <1>2, OpenSafe, MembersSafe, EndSafe DEF Next

LEMMA Invariance == Spec => []JsonInv
  BY InitSafe, StepSafe, PTL DEF Spec

(***************************************************************************)
(* ParseJsonLine looks at no byte behind the line: each scanner returns a  *)
(* position in it, or the one behind it, whatever the line holds.          *)
(***************************************************************************)
THEOREM PositionsAreInLine == Spec => []ParserStaysInLine
<1>1. JsonInv => ParserStaysInLine
  BY DEF JsonInv
<1>2. QED
  BY <1>1, Invariance, PTL

(***************************************************************************)
(* A line that ParseJsonLine accepts is one message: it lost neither the   *)
(* brace it begins with nor the one it ends with, outside its strings is   *)
(* nothing but punctuation, and one of its strings says type.              *)
(***************************************************************************)
THEOREM OnlyMessagesAreAccepted == Spec => []AcceptedIsMessage
<1>1. JsonInv => AcceptedIsMessage
  BY DEF JsonInv
<1>2. QED
  BY <1>1, Invariance, PTL

(***************************************************************************)
(* A piece of a message, wherever it was cut, is refused by ParseJsonLine, *)
(* and so is a message with something more around it.                      *)
(***************************************************************************)
THEOREM PiecesNeverPass == Spec => []PiecesAreRefused
<1>1. ASSUME JsonInv, pc = "done", ~sample.whole, ok
      PROVE  FALSE
  <2>1. s = Trim(sample.line) /\ IsMessage(s) /\ sample \in Samples
    BY <1>1 DEF JsonInv, ParseInv, AcceptedIsMessage
  <2>2. s \in Seq(0 .. 255)
    BY <1>1, <2>1, LineFacts
  <2>3. /\ sample.of \in Seq(0 .. 255) /\ IsMessage(sample.of)
        /\ ProperPiece(s, sample.of) \/ ProperPiece(sample.of, s)
    BY <1>1, <2>1, PiecesAreCut
  <2>4. QED
    BY <2>1, <2>2, <2>3, PiecesAreNoMessages
<1>2. JsonInv => PiecesAreRefused
  BY <1>1 DEF PiecesAreRefused
<1>3. QED
  BY <1>2, Invariance, PTL

(***************************************************************************)
(* Wherever a line is refused, SecureClearMsg has emptied the caller's     *)
(* message before ParseJsonLine returns.                                   *)
(***************************************************************************)
THEOREM RefusalsAreEmpty == Spec => []RefusedLeavesNothing
<1>1. JsonInv => RefusedLeavesNothing
  BY DEF JsonInv
<1>2. QED
  BY <1>1, Invariance, PTL

(***************************************************************************)
(* The loop of ParseFlatBrokerMessage ends: each turn that does not leave  *)
(* it moves the position on, and the line has an end.                      *)
(***************************************************************************)
THEOREM LoopEnds ==
  Spec => [][Members => pc' = "done" \/ (i' > i /\ i' <= Len(s) + 1)]_vars
<1>1. ASSUME JsonInv, Members
      PROVE  pc' = "done" \/ (i' > i /\ i' <= Len(s) + 1)
  <2>1. Reject => pc' = "done"
    BY DEF Reject
  <2>2. QED
    BY <1>1, <2>1, MembersFacts
<1>2. JsonInv /\ [Next]_vars
        => [Members => pc' = "done" \/ (i' > i /\ i' <= Len(s) + 1)]_vars
  BY <1>1
<1>3. QED
  BY <1>2, Invariance, PTL DEF Spec
=============================================================================
