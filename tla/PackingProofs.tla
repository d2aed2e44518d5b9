---------------------------- MODULE PackingProofs ----------------------------
(***************************************************************************)
(* The id the LSA is given is right and the LSA reads what was packed: for *)
(* any number of threads and any LSA, for names and passwords of any       *)
(* length and any sizes of the two headers, on local accounts.             *)
(***************************************************************************)
EXTENDS CredentialPacking, TLAPS

-----------------------------------------------------------------------------
(***************************************************************************)
(* The cache of package ids.                                               *)
(***************************************************************************)

\* An id about to be published was given for its package; a slot that is
\* still empty has answered nobody, and a usable one answers for ever.
PublishInv ==
  \A t \in Threads : pc[t] = "publish" =>
    resolved[t] \in Ids \ {0} /\ resolved[t] \in given[pkg[t]]

SlotInv ==
  \A p \in Packages :
    /\ slot[p] = 0 => answers[p] = {}
    /\ slot[p] > 0 => slot[p] \in given[p] /\ answers[p] \subseteq {slot[p]}

HandleInv ==
  /\ handles \in [Threads -> Int]
  /\ LsaHandlesReturned

CacheInv ==
  /\ slot \in [Packages -> -(MaxLong + 1) .. MaxLong]
  /\ pc \in [Threads -> Steps]
  /\ pkg \in [Threads -> Packages]
  /\ resolved \in [Threads -> Ids \cup {0}]
  /\ given \in [Packages -> SUBSET Ids]
  /\ answers \in [Packages -> SUBSET (0 .. (2 * MaxLong + 1))]
  /\ PublishInv
  /\ SlotInv
  /\ AnswersComeFromLsa

(***************************************************************************)
(* The casts of ResolvePkgCached: an id in the range of a ULONG other than *)
(* 0 never looks like an empty slot, and one that stays positive is not    *)
(* changed by them.                                                        *)
(***************************************************************************)
LEMMA CastFacts ==
  ASSUME NEW u \in 0 .. (2 * MaxLong + 1)
  PROVE  /\ ToLong(u) \in -(MaxLong + 1) .. MaxLong
         /\ ToLong(u) = 0 => u = 0
         /\ ToLong(u) > 0 => ToLong(u) = u
BY LongAssumption, SMT DEF ToLong

LEMMA HitIsTheSlot ==
  ASSUME NEW l \in -(MaxLong + 1) .. MaxLong, l > 0
  PROVE  ToULong(l) = l
BY LongAssumption, SMT DEF ToULong

LEMMA CacheInit == Init => CacheInv /\ HandleInv
BY LongAssumption, SMT
   DEF Init, CacheInv, HandleInv, PublishInv, SlotInv, AnswersComeFromLsa,
       LsaHandlesReturned, Steps

-----------------------------------------------------------------------------

LEMMA ResolveStep ==
  ASSUME NEW t \in Threads, NEW p \in Packages, CacheInv, Resolve(t, p)
  PROVE  CacheInv'
BY DEF Resolve, CacheInv, PublishInv, SlotInv, AnswersComeFromLsa, Goto, Steps

LEMMA ProbeStep ==
  ASSUME NEW t \in Threads, CacheInv, Probe(t)
  PROVE  CacheInv'
<1>1. CASE slot[pkg[t]] > 0 /\ Answer(t, ToULong(slot[pkg[t]])) /\ Goto(t, "idle")
  <2>. DEFINE p == pkg[t]
  <2>1. p \in Packages /\ ToULong(slot[p]) = slot[p]
    BY <1>1, HitIsTheSlot DEF CacheInv
  <2>2. answers' = [answers EXCEPT ![p] = @ \cup {slot[p]}]
    BY <1>1, <2>1 DEF Answer
  <2>3. UNCHANGED <<slot, pkg, resolved, given>> /\ pc' = [pc EXCEPT ![t] = "idle"]
    BY <1>1 DEF Probe, Goto
  <2>4. slot[p] \in given[p] /\ slot[p] \in 0 .. (2 * MaxLong + 1)
    BY <1>1, <2>1, LongAssumption, SMT DEF CacheInv, SlotInv
  <2>5. answers' \in [Packages -> SUBSET (0 .. (2 * MaxLong + 1))]
    BY <2>1, <2>2, <2>4 DEF CacheInv
  <2>6. SlotInv' /\ AnswersComeFromLsa'
    BY <1>1, <2>1, <2>2, <2>3, <2>4, SMT DEF CacheInv, SlotInv, AnswersComeFromLsa
  <2>7. PublishInv' /\ pc' \in [Threads -> Steps]
    BY <2>3 DEF CacheInv, PublishInv, Steps
  <2>. QED BY <2>3, <2>5, <2>6, <2>7 DEF CacheInv
<1>2. CASE Goto(t, "connect") /\ UNCHANGED answers
  BY <1>2 DEF Probe, Goto, CacheInv, PublishInv, SlotInv, AnswersComeFromLsa, Steps
<1>. QED BY <1>1, <1>2 DEF Probe

LEMMA ConnectStep ==
  ASSUME NEW t \in Threads, CacheInv, Connect(t)
  PROVE  CacheInv'
BY DEF Connect, CacheInv, PublishInv, SlotInv, AnswersComeFromLsa, Goto, Steps

LEMMA LookupStep ==
  ASSUME NEW t \in Threads, CacheInv, Lookup(t)
  PROVE  CacheInv'
<1>1. CASE LookupFinds(t)
  <2>1. PICK u \in Ids \ {0} :
             /\ resolved' = [resolved EXCEPT ![t] = u]
             /\ given' = [given EXCEPT ![pkg[t]] = @ \cup {u}]
             /\ pc' = [pc EXCEPT ![t] = "publish"]
    BY <1>1 DEF LookupFinds, Goto
  <2>2. UNCHANGED <<slot, pkg, answers>> /\ pkg[t] \in Packages
    BY DEF Lookup, CacheInv
  <2>3. \A p \in Packages : given[p] \subseteq given'[p]
    BY <2>1, <2>2 DEF CacheInv
  <2>4. given' \in [Packages -> SUBSET Ids] /\ u \in given'[pkg[t]]
    BY <2>1, <2>2 DEF CacheInv
  <2>5. pc' \in [Threads -> Steps] /\ resolved' \in [Threads -> Ids \cup {0}]
    BY <2>1 DEF CacheInv, Steps
  <2>6. SlotInv' /\ AnswersComeFromLsa'
    BY <2>2, <2>3 DEF CacheInv, SlotInv, AnswersComeFromLsa
  <2>7. PublishInv'
    <3>. SUFFICES ASSUME NEW s \in Threads, pc'[s] = "publish"
                  PROVE  resolved'[s] \in Ids \ {0} /\ resolved'[s] \in given'[pkg[s]]
      BY <2>2 DEF PublishInv
    <3>1. CASE s = t
      BY <2>1, <2>4, <3>1 DEF CacheInv
    <3>2. CASE s # t
      <4>1. pc[s] = "publish" /\ resolved'[s] = resolved[s]
        BY <2>1, <3>2 DEF CacheInv
      <4>2. pkg[s] \in Packages
        BY DEF CacheInv
      <4>. QED BY <2>3, <4>1, <4>2 DEF CacheInv, PublishInv
    <3>. QED BY <3>1, <3>2
  <2>. QED BY <2>2, <2>4, <2>5, <2>6, <2>7 DEF CacheInv
<1>2. CASE LookupFails(t) \/ LookupZero(t)
  BY <1>2 DEF Lookup, LookupFails, LookupZero, Goto, CacheInv, PublishInv, SlotInv, AnswersComeFromLsa, Steps
<1>. QED BY <1>1, <1>2 DEF Lookup

LEMMA PublishStep ==
  ASSUME NEW t \in Threads, CacheInv, Publish(t)
  PROVE  CacheInv'
<1>. DEFINE p == pkg[t]
            u == resolved[t]
<1>1. /\ p \in Packages /\ u \in Ids \ {0} /\ u \in given[p]
      /\ u \in 0 .. (2 * MaxLong + 1) /\ u # 0
  BY LongAssumption DEF Publish, CacheInv, PublishInv
<1>2. UNCHANGED <<pkg, resolved, given>> /\ pc' = [pc EXCEPT ![t] = "idle"]
  BY DEF Publish, Goto
<1>3. /\ ToLong(u) \in -(MaxLong + 1) .. MaxLong /\ ToLong(u) # 0
      /\ ToLong(u) > 0 => ToLong(u) = u
  BY <1>1, CastFacts
<1>4. PublishInv' /\ pc' \in [Threads -> Steps]
  BY <1>2 DEF CacheInv, PublishInv, Steps
<1>5. CASE slot[p] = 0
  <2>1. slot' = [slot EXCEPT ![p] = ToLong(u)]
    BY <1>5 DEF Publish
  <2>2. answers' = [answers EXCEPT ![p] = @ \cup {u}]
    BY <1>5 DEF Publish, Answer
  <2>3. /\ slot' \in [Packages -> -(MaxLong + 1) .. MaxLong]
        /\ answers' \in [Packages -> SUBSET (0 .. (2 * MaxLong + 1))]
    BY <1>1, <1>3, <2>1, <2>2 DEF CacheInv
  <2>4. answers[p] = {} /\ answers'[p] = {u} /\ slot'[p] = ToLong(u)
    BY <1>1, <1>5, <2>1, <2>2 DEF CacheInv, SlotInv
  <2>5. \A q \in Packages : q # p => slot'[q] = slot[q] /\ answers'[q] = answers[q]
    BY <2>1, <2>2 DEF CacheInv
  <2>6. SlotInv' /\ AnswersComeFromLsa'
    BY <1>1, <1>2, <1>3, <2>4, <2>5 DEF CacheInv, SlotInv, AnswersComeFromLsa
  <2>. QED BY <1>2, <1>4, <2>3, <2>6 DEF CacheInv
<1>6. CASE slot[p] > 0
  <2>1. slot' = slot
    BY <1>6, LongAssumption, SMT DEF Publish
  <2>2. ToULong(slot[p]) = slot[p]
    BY <1>1, <1>6, HitIsTheSlot DEF CacheInv
  <2>3. answers' = [answers EXCEPT ![p] = @ \cup {slot[p]}]
    BY <1>6, <2>2 DEF Publish, Answer
  <2>4. slot[p] \in given[p] /\ slot[p] \in 0 .. (2 * MaxLong + 1)
    BY <1>1, <1>6, LongAssumption, SMT DEF CacheInv, SlotInv
  <2>5. answers' \in [Packages -> SUBSET (0 .. (2 * MaxLong + 1))]
    BY <1>1, <2>3, <2>4 DEF CacheInv
  <2>6. SlotInv' /\ AnswersComeFromLsa'
    BY <1>1, <1>2, <1>6, <2>1, <2>3, <2>4, SMT DEF CacheInv, SlotInv, AnswersComeFromLsa
  <2>. QED BY <1>2, <1>4, <2>1, <2>5, <2>6 DEF CacheInv
<1>7. CASE slot[p] < 0
  <2>1. slot' = slot /\ ~(slot[p] > 0)
    BY <1>1, <1>7, LongAssumption, SMT DEF Publish, CacheInv
  <2>2. answers' = [answers EXCEPT ![p] = @ \cup {u}]
    BY <2>1 DEF Publish, Answer
  <2>3. answers' \in [Packages -> SUBSET (0 .. (2 * MaxLong + 1))]
    BY <1>1, <2>2 DEF CacheInv
  <2>4. SlotInv' /\ AnswersComeFromLsa'
    BY <1>1, <1>2, <1>7, <2>1, <2>2, SMT DEF CacheInv, SlotInv, AnswersComeFromLsa
  <2>. QED BY <1>2, <1>4, <2>1, <2>3, <2>4 DEF CacheInv
<1>. QED BY <1>1, <1>5, <1>6, <1>7, LongAssumption, SMT DEF CacheInv

LEMMA CacheNext == CacheInv /\ [Next]_vars => CacheInv'
<1>. SUFFICES ASSUME CacheInv, [Next]_vars PROVE CacheInv'
  OBVIOUS
<1>1. CASE UNCHANGED vars
  BY <1>1 DEF vars, CacheInv, PublishInv, SlotInv, AnswersComeFromLsa
<1>. QED BY <1>1, ResolveStep, ProbeStep, ConnectStep, LookupStep, PublishStep
     DEF Next, Resolving

-----------------------------------------------------------------------------
(* The LSA connections, step by step.                                       *)

LEMMA HandleStep ==
  ASSUME CacheInv, HandleInv, [Next]_vars
  PROVE  HandleInv'
<1>. USE DEF HandleInv, LsaHandlesReturned
<1>0. pc \in [Threads -> Steps]
  BY DEF CacheInv
<1>1. ASSUME NEW t \in Threads, NEW p \in Packages, Resolve(t, p) PROVE HandleInv'
  BY <1>0, <1>1 DEF Resolve, Goto, Steps
<1>2. ASSUME NEW t \in Threads, Probe(t) PROVE HandleInv'
  BY <1>0, <1>2 DEF Probe, Goto, Steps
<1>3. ASSUME NEW t \in Threads, Connect(t) PROVE HandleInv'
  BY <1>0, <1>3 DEF Connect, Goto, Steps
<1>4. ASSUME NEW t \in Threads, Lookup(t) PROVE HandleInv'
  BY <1>0, <1>4 DEF Lookup, LookupFails, LookupZero, LookupFinds, closeLsa, Goto, Steps
<1>5. ASSUME NEW t \in Threads, Publish(t) PROVE HandleInv'
  BY <1>0, <1>5 DEF Publish, Goto, Steps
<1>6. CASE UNCHANGED vars
  BY <1>6 DEF vars
<1>. QED BY <1>1, <1>2, <1>3, <1>4, <1>5, <1>6 DEF Next, Resolving

(***************************************************************************)
(* ResolvePkgCached gives every caller the id published first, whichever   *)
(* threads raced for the slot.                                             *)
(***************************************************************************)
THEOREM CallersAgree == Spec => []AnswersAgree
<1>1. CacheInv => AnswersAgree
  BY DEF CacheInv, SlotInv, AnswersAgree
<1>. QED BY <1>1, CacheInit, CacheNext, PTL DEF Spec

(***************************************************************************)
(* ResolvePkgCached returns only ids the LSA gave for the package asked    *)
(* for, through both casts of the signed slot.                             *)
(***************************************************************************)
THEOREM IdsAreGenuine == Spec => []AnswersComeFromLsa
<1>1. CacheInv => AnswersComeFromLsa
  BY DEF CacheInv
<1>. QED BY <1>1, CacheInit, CacheNext, PTL DEF Spec

(***************************************************************************)
(* ResolvePkgA closes each LSA connection once, whichever call fails.      *)
(***************************************************************************)
THEOREM ConnectionsAreClosed == Spec => []LsaHandlesReturned
<1>1. CacheInv /\ HandleInv /\ [Next]_vars => CacheInv' /\ HandleInv'
  BY CacheNext, HandleStep
<1>2. HandleInv => LsaHandlesReturned
  BY DEF HandleInv
<1>. QED BY <1>1, <1>2, CacheInit, PTL DEF Spec

-----------------------------------------------------------------------------
(* The layout.                                                              *)

\* The cast to USHORT of FillUS never lengthens, and keeps what fits.
LEMMA CastToUShort ==
  ASSUME NEW a \in Nat
  PROVE  /\ a % UShort \in Nat /\ a % UShort <= a
         /\ a < UShort => a % UShort = a
BY LayoutAssumption, SMT

LEMMA CharsAreNat ==
  ASSUME NEW in \in Credentials, NEW f \in Fields
  PROVE  Chars(in)[f] \in Nat
<1>1. in.named \in Nat /\ in.user \in Nat /\ in.password \in Nat
  BY DEF Credentials
<1>2. DomainChars(in) \in Nat
  BY <1>1 DEF DomainChars
<1>3. /\ f = "domain" => Chars(in)[f] = DomainChars(in)
      /\ f = "user" => Chars(in)[f] = in.user
      /\ f = "password" => Chars(in)[f] = in.password
  BY DEF Chars
<1>. QED BY <1>1, <1>2, <1>3 DEF Fields

\* Each field begins behind the terminator of the one before.
LEMMA OffsetsFollow ==
  ASSUME NEW in \in Credentials, NEW h \in Nat
  PROVE  LET n == Chars(in) IN
         /\ Offset(h, n, "domain") = h
         /\ Offset(h, n, "user") = h + 2 * (n["domain"] + 1)
         /\ Offset(h, n, "password") = Offset(h, n, "user") + 2 * (n["user"] + 1)
         /\ Size(h, n) = Offset(h, n, "password") + 2 * (n["password"] + 1)
         /\ \A f \in {"domain", "user", "password"} : Offset(h, n, f) \in Nat
<1>1. Chars(in)["domain"] \in Nat /\ Chars(in)["user"] \in Nat /\ Chars(in)["password"] \in Nat
  BY CharsAreNat DEF Fields
<1>. DEFINE d == Chars(in)["domain"]
            u == Chars(in)["user"]
            p == Chars(in)["password"]
<1>2. /\ Offset(h, Chars(in), "domain") = h
      /\ Offset(h, Chars(in), "user") = h + 2 * (d + 1)
      /\ Offset(h, Chars(in), "password") = h + 2 * (d + 1) + 2 * (u + 1)
      /\ Size(h, Chars(in)) = h + 2 * (d + 1) + 2 * (u + 1) + 2 * (p + 1)
  BY DEF Offset, Size, BytesNul
<1>3. d \in Nat /\ u \in Nat /\ p \in Nat
  BY <1>1
<1>. HIDE DEF d, u, p
<1>4. h + 2 * (d + 1) \in Nat /\ h + 2 * (d + 1) + 2 * (u + 1) \in Nat
  BY <1>3
<1>. QED BY <1>2, <1>4 DEF d, u, p

\* No field overlaps another: byte i of field f lies where f begins, plus i.
LEMMA FieldIsWhole ==
  ASSUME NEW in \in Credentials, NEW h \in Nat, NEW f \in Fields,
         NEW i \in Nat, i < 2 * (Chars(in)[f] + 1)
  PROVE  /\ Offset(h, Chars(in), f) + i < Size(h, Chars(in))
         /\ BlobByte(h, Chars(in), Offset(h, Chars(in), f) + i) = FieldByte(Chars(in), f, i)
<1>. DEFINE n == Chars(in)
            d == n["domain"]
            u == n["user"]
            p == n["password"]
            od == Offset(h, n, "domain")
            ou == Offset(h, n, "user")
            op == Offset(h, n, "password")
            k == Offset(h, n, f) + i
<1>1. d \in Nat /\ u \in Nat /\ p \in Nat
  BY CharsAreNat DEF Fields
<1>2. /\ ou = od + 2 * (d + 1) /\ op = ou + 2 * (u + 1)
      /\ Size(h, n) = op + 2 * (p + 1)
      /\ od \in Nat /\ ou \in Nat /\ op \in Nat
  BY OffsetsFollow
<1>3. /\ Within(h, n, "password", k) <=> op <= k /\ k < op + 2 * (p + 1)
      /\ Within(h, n, "user", k) <=> ou <= k /\ k < ou + 2 * (u + 1)
      /\ Within(h, n, "domain", k) <=> od <= k /\ k < od + 2 * (d + 1)
  BY DEF Within, BytesNul
<1>4. CASE f = "password"
  <2>1. k = op + i /\ i < 2 * (p + 1)
    BY <1>4
  <2>. HIDE DEF n, d, u, p, od, ou, op, k
  <2>2. op <= k /\ k < op + 2 * (p + 1) /\ k - op = i /\ k < Size(h, n)
    BY <1>1, <1>2, <2>1
  <2>3. BlobByte(h, n, k) = FieldByte(n, "password", i)
    BY <1>3, <2>2 DEF BlobByte, op
  <2>. QED BY <1>4, <2>2, <2>3 DEF n, k
<1>5. CASE f = "user"
  <2>1. k = ou + i /\ i < 2 * (u + 1)
    BY <1>5
  <2>. HIDE DEF n, d, u, p, od, ou, op, k
  <2>2. /\ ou <= k /\ k < ou + 2 * (u + 1) /\ ~(op <= k)
        /\ k - ou = i /\ k < Size(h, n)
    BY <1>1, <1>2, <2>1
  <2>3. BlobByte(h, n, k) = FieldByte(n, "user", i)
    BY <1>3, <2>2 DEF BlobByte, ou
  <2>. QED BY <1>5, <2>2, <2>3 DEF n, k
<1>6. CASE f = "domain"
  <2>1. k = od + i /\ i < 2 * (d + 1)
    BY <1>6
  <2>. HIDE DEF n, d, u, p, od, ou, op, k
  <2>2. /\ od <= k /\ k < od + 2 * (d + 1) /\ ~(op <= k) /\ ~(ou <= k)
        /\ k - od = i /\ k < Size(h, n)
    BY <1>1, <1>2, <2>1
  <2>3. BlobByte(h, n, k) = FieldByte(n, "domain", i)
    BY <1>3, <2>2 DEF BlobByte, od
  <2>. QED BY <1>6, <2>2, <2>3 DEF n, k
<1>. QED BY <1>4, <1>5, <1>6 DEF Fields

\* Every descriptor PackMsv fills reads as its field.
LEMMA PackedReadsAs ==
  ASSUME NEW in \in Credentials, UsesMsv(in), NEW p, NEW f \in Fields
  PROVE  ReadsAs(in, Pack(in, p), f)
<1>. DEFINE h == Header(in)
            n == Chars(in)
            us == FillUS(in, f)
            at == Offset(h, n, f)
<1>1. h \in Nat /\ n[f] \in Nat /\ at \in Nat
  BY CharsAreNat, OffsetsFollow, LayoutAssumption DEF Header, Fields
<1>2. Pack(in, p).strings[f] = us /\ Pack(in, p).size = Size(h, n)
  BY DEF Pack
<1>3. us.buffer = at
  BY DEF FillUS
<1>4. us.length = Bytes(n[f]) % UShort /\ us.maximumLength = BytesNul(n[f]) % UShort
  BY DEF FillUS
<1>5. Bytes(n[f]) \in Nat /\ BytesNul(n[f]) = Bytes(n[f]) + 2
  BY <1>1 DEF Bytes, BytesNul
<1>. DEFINE l == Bytes(n[f])
<1>6. us.length \in Nat /\ us.length <= l
  BY <1>4, <1>5, CastToUShort
<1>7. Fits(in, f) => us.length = l /\ us.maximumLength = l + 2
  <2>. SUFFICES ASSUME Fits(in, f) PROVE us.length = l /\ us.maximumLength = l + 2
    OBVIOUS
  <2>1. l + 2 \in Nat /\ l \in Nat /\ l + 2 < UShort /\ l < UShort
    BY <1>5, LayoutAssumption DEF Fits
  <2>2. l % UShort = l /\ (l + 2) % UShort = l + 2
    BY <2>1, CastToUShort
  <2>. QED BY <1>4, <1>5, <2>2
<1>8. \A i \in Nat : i < l + 2 =>
        /\ at + i < Size(h, n)
        /\ BlobByte(h, n, at + i) = IF i < l THEN <<f, i>> ELSE <<"nul", 0>>
  BY <1>1, FieldIsWhole DEF FieldByte, Bytes
<1>. HIDE DEF us, at, l, h, n
<1>9. \A i \in 0 .. us.length - 1 : at + i < Size(h, n) /\ BlobByte(h, n, at + i) = <<f, i>>
  <2>. TAKE i \in 0 .. us.length - 1
  <2>1. l \in Nat
    BY <1>5 DEF l
  <2>2. i \in Nat /\ i < l /\ i < l + 2
    BY <1>6, <2>1
  <2>. QED BY <1>8, <2>2
<1>10. Fits(in, f) => \A i \in us.length .. us.maximumLength - 1 :
         at + i < Size(h, n) /\ BlobByte(h, n, at + i) = <<"nul", 0>>
  <2>. SUFFICES ASSUME Fits(in, f), NEW i \in us.length .. us.maximumLength - 1
                PROVE  at + i < Size(h, n) /\ BlobByte(h, n, at + i) = <<"nul", 0>>
    OBVIOUS
  <2>1. l \in Nat
    BY <1>5 DEF l
  <2>2. i \in Nat /\ ~(i < l) /\ i < l + 2
    BY <1>7, <2>1
  <2>. QED BY <1>8, <2>2
<1>. QED BY <1>2, <1>3, <1>7, <1>9, <1>10 DEF ReadsAs, l, n, h

-----------------------------------------------------------------------------
(* Packing around the cache.                                                *)

LEMMA PackStepIsCacheStep == [PackNext]_<<vars, packVars>> => [Next]_vars
BY PackingAssumption DEF PackNext, PackAutoEx, ResolvePackage, PackFails, PackSucceeds, Next,
       PackageOf, Resolve, vars, packVars

(***************************************************************************)
(* PackAutoEx uses the package ids through ResolveNegotiate and ResolveMsv *)
(* only, so that what holds of the cache holds of the DLL's packing.       *)
(***************************************************************************)
THEOREM PackingUsesTheCache == PackSpec => Spec
<1>1. PackInit => Init
  BY DEF PackInit
<1>. QED BY <1>1, PackStepIsCacheStep, PTL DEF PackSpec, Spec

\* A thread inside PackAutoEx has asked for its credential's package, an id
\* it got was given for that package, and a blob is what Pack makes of both.
PackInv ==
  /\ input \in Credentials
  /\ stage \in [Threads -> {"idle", "resolve"}]
  /\ id \in [Threads -> Int]
  /\ \A t \in Threads : stage[t] = "resolve" => pkg[t] = PackageOf(input)
  /\ \A t \in Threads : id[t] # 0 => id[t] \in given[pkg[t]]
  /\ \A t \in Threads : out[t].ok =>
       \E u \in given[PackageOf(input)] : out[t] = Pack(input, u)
  /\ DOMAIN out = Threads

LEMMA PackageIsKnown == PackageOf(input) \in Packages
BY PackingAssumption DEF PackageOf

LEMMA PackInitInv == PackInit => PackInv
<1>. SUFFICES ASSUME PackInit PROVE PackInv
  OBVIOUS
<1>1. \A t \in Threads : out[t] = NothingPacked /\ ~NothingPacked.ok
  BY DEF PackInit, NothingPacked
<1>2. input \in Credentials
  BY PackingAssumption DEF PackInit
<1>3. \A t \in Threads : id[t] = 0 /\ stage[t] = "idle"
  BY DEF PackInit, Init
<1>. QED BY <1>1, <1>2, <1>3 DEF PackInit, Init, PackInv

\* What the LSA gave it has given for good.
LEMMA GivenGrows ==
  ASSUME CacheInv, [Next]_vars, NEW p \in Packages
  PROVE  given[p] \subseteq given'[p]
<1>1. CASE given' = given
  BY <1>1
<1>2. ASSUME NEW t \in Threads, Lookup(t) PROVE given[p] \subseteq given'[p]
  BY <1>2 DEF Lookup, LookupFails, LookupZero, LookupFinds, CacheInv
<1>. QED BY <1>1, <1>2 DEF Next, Resolving, Resolve, Probe, Connect, Publish, vars

\* ResolvePkgCached answers with an id of the package it was asked for.
LEMMA ResolvingGives ==
  ASSUME CacheInv, id \in [Threads -> Int], NEW t \in Threads, Resolving(t),
         id[t] # 0 => id[t] \in given[pkg[t]]
  PROVE  /\ pkg' = pkg /\ id' \in [Threads -> Int]
         /\ \A s \in Threads : s # t => id'[s] = id[s]
         /\ id'[t] # 0 => id'[t] \in given'[pkg[t]]
<1>. pkg[t] \in Packages
  BY DEF CacheInv
<1>1. CASE Connect(t) \/ Lookup(t)
  <2>1. UNCHANGED <<id, pkg>>
    BY <1>1 DEF Connect, Lookup
  <2>2. given[pkg[t]] \subseteq given'[pkg[t]]
    BY <1>1, GivenGrows DEF Next, Resolving
  <2>. QED BY <2>1, <2>2
<1>2. CASE Probe(t)
  <2>. DEFINE l == slot[pkg[t]]
  <2>1. UNCHANGED <<given, pkg>>
    BY <1>2 DEF Probe
  <2>2. CASE l > 0 /\ Answer(t, ToULong(l))
    <3>1. ToULong(l) = l /\ l \in Int /\ l \in given[pkg[t]]
      BY <2>2, HitIsTheSlot DEF CacheInv, SlotInv
    <3>2. id' = [id EXCEPT ![t] = l]
      BY <2>2, <3>1 DEF Answer
    <3>. QED BY <2>1, <3>1, <3>2
  <2>3. CASE UNCHANGED id
    BY <2>1, <2>3
  <2>. QED BY <1>2, <2>2, <2>3 DEF Probe
<1>3. CASE Publish(t)
  <2>. DEFINE l == slot[pkg[t]]
              u == resolved[t]
  <2>1. UNCHANGED <<given, pkg>> /\ u \in given[pkg[t]] /\ u \in Int /\ l \in Int
    <3>1. u \in Ids /\ u \in given[pkg[t]] /\ UNCHANGED <<given, pkg>>
      BY <1>3 DEF Publish, CacheInv, PublishInv
    <3>2. u \in Int
      <4>. HIDE DEF u
      <4>. QED BY <3>1, LongAssumption
    <3>3. l \in Int
      BY LongAssumption DEF CacheInv
    <3>. QED BY <3>1, <3>2, <3>3
  <2>2. id' = [id EXCEPT ![t] = IF l > 0 THEN ToULong(l) ELSE u]
    BY <1>3 DEF Publish, Answer
  <2>3. CASE l > 0
    <3>1. ToULong(l) = l /\ l \in given[pkg[t]]
      BY <2>3, HitIsTheSlot DEF CacheInv, SlotInv
    <3>. QED BY <2>1, <2>2, <2>3, <3>1
  <2>4. CASE ~(l > 0)
    BY <2>1, <2>2, <2>4
  <2>. QED BY <2>3, <2>4
<1>. QED BY <1>1, <1>2, <1>3 DEF Resolving

LEMMA PackNextInv ==
  ASSUME CacheInv, PackInv, [PackNext]_<<vars, packVars>>
  PROVE  PackInv'
<1>. USE DEF PackInv
<1>0. \A p \in Packages : given[p] \subseteq given'[p]
  BY PackStepIsCacheStep, GivenGrows
<1>1. ASSUME NEW t \in Threads, PackAutoEx(t) PROVE PackInv'
  <2>1. /\ input' = input /\ given' = given
        /\ out' = [out EXCEPT ![t] = NothingPacked] /\ ~NothingPacked.ok
    BY <1>1 DEF PackAutoEx, Resolve, vars, NothingPacked
  <2>2. \A s \in Threads : out'[s].ok => s # t /\ out'[s] = out[s]
    BY <2>1
  <2>3. CASE UNCHANGED <<stage, vars>>
    BY <2>1, <2>2, <2>3 DEF vars, PackageOf
  <2>4. CASE Resolve(t, PackageOf(input)) /\ At(t, "resolve")
    <3>1. /\ pkg' = [pkg EXCEPT ![t] = PackageOf(input)] /\ id' = [id EXCEPT ![t] = 0]
          /\ stage' = [stage EXCEPT ![t] = "resolve"] /\ pkg \in [Threads -> Packages]
      BY <2>4 DEF Resolve, At, CacheInv
    <3>2. PackageOf(input') = PackageOf(input)
      BY <2>1
    <3>. QED BY <2>1, <2>2, <3>1, <3>2
  <2>. QED BY <1>1, <2>3, <2>4 DEF PackAutoEx
<1>2. ASSUME NEW t \in Threads, ResolvePackage(t) PROVE PackInv'
  <2>1. UNCHANGED packVars /\ Resolving(t)
    BY <1>2 DEF ResolvePackage
  <2>2. /\ pkg' = pkg /\ id' \in [Threads -> Int]
        /\ \A s \in Threads : s # t => id'[s] = id[s]
        /\ id'[t] # 0 => id'[t] \in given'[pkg[t]]
    BY <2>1, ResolvingGives
  <2>3. \A s \in Threads : pkg[s] \in Packages
    BY DEF CacheInv
  <2>4. \A s \in Threads : id'[s] # 0 => id'[s] \in given'[pkg'[s]]
    BY <1>0, <2>2, <2>3
  <2>5. given[PackageOf(input)] \subseteq given'[PackageOf(input)]
    BY <1>0, PackageIsKnown
  <2>6. UNCHANGED <<input, stage, out>> /\ PackageOf(input') = PackageOf(input)
    BY <2>1 DEF packVars
  <2>. QED BY <2>2, <2>4, <2>5, <2>6
<1>3. ASSUME NEW t \in Threads, PackFails(t) PROVE PackInv'
  BY <1>3 DEF PackFails, At, vars, PackageOf
<1>4. ASSUME NEW t \in Threads, PackSucceeds(t) PROVE PackInv'
  <2>1. /\ UNCHANGED <<input, pkg, id, given>>
        /\ stage' = [stage EXCEPT ![t] = "idle"]
        /\ out' = [out EXCEPT ![t] = Pack(input, id[t])]
    BY <1>4 DEF PackSucceeds, At, vars
  <2>2. id[t] \in given[PackageOf(input)]
    BY <1>4 DEF PackSucceeds
  <2>3. \A s \in Threads : out'[s].ok =>
          \E u \in given[PackageOf(input)] : out'[s] = Pack(input, u)
    BY <2>1, <2>2
  <2>4. PackageOf(input') = PackageOf(input)
    BY <2>1
  <2>. QED BY <2>1, <2>3, <2>4
<1>5. CASE UNCHANGED <<vars, packVars>>
  BY <1>5 DEF vars, packVars, PackageOf
<1>. QED BY <1>1, <1>2, <1>3, <1>4, <1>5 DEF PackNext

(***************************************************************************)
(* What PackMsv leaves in the blob of a local account is what the LSA      *)
(* reads from it, for any header size and any lengths, the ones whose byte *)
(* counts wrap included; the package of any blob is one the LSA named.     *)
(***************************************************************************)
THEOREM BlobsAreRead == PackSpec => []LsaReadsTheFields
<1>1. PackInv => LsaReadsTheFields
  <2>. SUFFICES ASSUME PackInv, NEW t \in Threads, out[t].ok
                PROVE  /\ UsesMsv(input) => \A f \in Fields : ReadsAs(input, out[t], f)
                       /\ out[t].authPkg \in given[PackageOf(input)]
    BY DEF LsaReadsTheFields
  <2>1. PICK u \in given[PackageOf(input)] : out[t] = Pack(input, u)
    BY DEF PackInv
  <2>2. Pack(input, u).authPkg = u
    BY DEF Pack
  <2>. QED BY <2>1, <2>2, PackedReadsAs DEF PackInv
<1>2. CacheInv /\ PackInv /\ [PackNext]_<<vars, packVars>> => CacheInv' /\ PackInv'
  BY CacheNext, PackStepIsCacheStep, PackNextInv
<1>3. PackInit => CacheInv /\ PackInv
  BY CacheInit, PackInitInv DEF PackInit
<1>. QED BY <1>1, <1>2, <1>3, PTL DEF PackSpec
=============================================================================
