-------------------------- MODULE CredentialLayout --------------------------
(***************************************************************************)
(* The credential blob of src/auth/Serialization.cpp: a fixed structure    *)
(* with three UNICODE_STRINGs, then the domain, the user and the password, *)
(* each with its terminator.  Lengths are byte counts cut to a USHORT.     *)
(*                                                                         *)
(* A string is its number of characters.  The byte at position i of field  *)
(* f is written <<f, i>>, so that what the LSA reads through a descriptor  *)
(* can be compared with what was packed.                                   *)
(***************************************************************************)
EXTENDS Integers

CONSTANTS
  UShort,       \* 2^16
  LogonHeader,  \* sizeof(MSV1_0_INTERACTIVE_LOGON), sizeof(KERB_...)
  UnlockHeader, \* the same with a LogonId behind it
  HeapBase      \* where CoTaskMemAlloc put the blob

ASSUME LayoutAssumption ==
  /\ UShort \in Nat \ {0}
  /\ LogonHeader \in Nat /\ UnlockHeader \in Nat
  /\ HeapBase \in Nat \ {0}

Fields == {"domain", "user", "password"}

\* A domain of no characters, ".", or a name; only "." is sent by
\* HandleAuthSuccessMessage, PackAutoEx takes any.
Domains   == {"", ".", "named"}
Scenarios == {"Logon", "Unlock"}

\* A credential: domain, its length when it is a name, user, password, and
\* the scenario it is packed for.
Credentials == [domain: Domains, named: Nat \ {0}, user: Nat,
                password: Nat, scen: Scenarios]

-----------------------------------------------------------------------------

Bytes(n)    == 2 * n         \* without the terminator
BytesNul(n) == 2 * (n + 1)   \* cbd, cbu, cbp

UsesMsv(in) == in.domain \in {"", "."}

\* The domain that is packed: PackMsv turns an empty one into ".".  PackKerb
\* would put the computer name for either, but PackAutoEx sends it neither.
DomainChars(in) == IF UsesMsv(in) THEN 1 ELSE in.named

Chars(in) == [f \in Fields |-> CASE f = "domain"   -> DomainChars(in)
                                 [] f = "user"     -> in.user
                                 [] f = "password" -> in.password]

Header(in) == IF in.scen = "Logon" THEN LogonHeader ELSE UnlockHeader

\* Mutant: the running pointer is not moved past the terminator.
Offset_NoTerminator(h, n, f) ==
  CASE f = "domain"   -> h
    [] f = "user"     -> h + Bytes(n["domain"])
    [] f = "password" -> h + Bytes(n["domain"]) + Bytes(n["user"])

\* p = blob + cbH; then p += cbd and p += cbu.
Offset(h, n, f) ==
  CASE f = "domain"   -> h
    [] f = "user"     -> h + BytesNul(n["domain"])
    [] f = "password" -> h + BytesNul(n["domain"]) + BytesNul(n["user"])

Size(h, n) ==
  h + BytesNul(n["domain"]) + BytesNul(n["user"]) + BytesNul(n["password"])

\* FillUS: MSV gets the distance from the start of the blob, Kerberos the
\* address itself.
FillUS(in, f) ==
  LET n  == Chars(in)
      at == Offset(Header(in), n, f)
  IN  [buffer        |-> IF UsesMsv(in) THEN at ELSE HeapBase + at,
       length        |-> Bytes(n[f]) % UShort,
       maximumLength |-> BytesNul(n[f]) % UShort]

Within(h, n, f, k) ==
  Offset(h, n, f) <= k /\ k < Offset(h, n, f) + BytesNul(n[f])

\* Byte i of a field and of its terminator.
FieldByte(n, f, i) == IF i < Bytes(n[f]) THEN <<f, i>> ELSE <<"nul", 0>>

\* Byte k of the blob after the three memcpys, the last of which wins.
BlobByte(h, n, k) ==
  IF Within(h, n, "password", k)
    THEN FieldByte(n, "password", k - Offset(h, n, "password"))
  ELSE IF Within(h, n, "user", k)
    THEN FieldByte(n, "user", k - Offset(h, n, "user"))
  ELSE IF Within(h, n, "domain", k)
    THEN FieldByte(n, "domain", k - Offset(h, n, "domain"))
  ELSE <<"header", k>>

NothingPacked == [ok |-> FALSE, size |-> 0, authPkg |-> 0, strings |->
  [f \in Fields |-> [buffer |-> 0, length |-> 0, maximumLength |-> 0]]]

\* PackMsv and PackKerb once the package, the logon id an unlock needs and
\* the memory are there.
Pack(in, pkg) ==
  [ok |-> TRUE, size |-> Size(Header(in), Chars(in)), authPkg |-> pkg,
   strings |-> [f \in Fields |-> FillUS(in, f)]]

-----------------------------------------------------------------------------

\* Below this both byte counts of a field fit a USHORT.
Fits(in, f) == BytesNul(Chars(in)[f]) < UShort

\* The LSA takes a descriptor's buffer for an offset in the blob.  It reads as
\* its field: all of it and its terminator when the byte counts fit a USHORT,
\* a prefix when a longer one made them wrap.
ReadsAs(in, packed, f) ==
  LET us == packed.strings[f] IN
  /\ \A i \in 0 .. us.length - 1 :
       /\ us.buffer + i < packed.size
       /\ BlobByte(Header(in), Chars(in), us.buffer + i) = <<f, i>>
  /\ Fits(in, f) =>
       /\ us.length = Bytes(Chars(in)[f])
       /\ us.maximumLength = us.length + 2
       /\ \A i \in us.length .. us.maximumLength - 1 :
            /\ us.buffer + i < packed.size
            /\ BlobByte(Header(in), Chars(in), us.buffer + i) = <<"nul", 0>>
=============================================================================
