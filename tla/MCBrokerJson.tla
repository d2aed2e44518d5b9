---------------------------- MODULE MCBrokerJson ----------------------------
(***************************************************************************)
(* Lines for the parser, each with its meaning.  A string is made of up to *)
(* two units, a unit being a byte or an escape as the JSON grammar has it. *)
(***************************************************************************)
EXTENDS BrokerJson, SequencesExt

U(text, means) == [text |-> text, means |-> means]

u0022    == <<92, 117, 48, 48, 50, 50>>
uD800    == <<92, 117, 68, 56, 48, 48>>
uDC00    == <<92, 117, 68, 67, 48, 48>>

\* A letter; } , { : and a space; the escapes \" \\ \n; the code points 22,
\* 88, 8000 and, as a pair, 10000.
GoodUnits == {U(<<97>>, <<97>>), U(<<125>>, <<125>>), U(<<44>>, <<44>>),
              U(<<123>>, <<123>>), U(<<58>>, <<58>>), U(<<32>>, <<32>>),
              U(<<92, 34>>, <<34>>), U(<<92, 92>>, <<92>>), U(<<92, 110>>, <<10>>),
              U(u0022, <<34>>),
              U(<<92, 117, 48, 48, 56, 56>>, <<194, 136>>),
              U(<<92, 117, 56, 48, 48, 48>>, <<232, 128, 128>>),
              U(uD800 \o uDC00, <<240, 144, 128, 128>>)}

\* An unknown escape, too few digits, no digits, half a surrogate pair.
BadUnits == {U(<<92, 120>>, Malformed), U(<<92, 117, 48, 48, 122>>, Malformed),
             U(<<92, 117>>, Malformed), U(uDC00, Malformed), U(uD800, Malformed)}

Strings == {<<>>} \cup {<<u>> : u \in GoodUnits \cup BadUnits}
           \cup {<<u, v>> : u \in GoodUnits, v \in GoodUnits \cup BadUnits}

Text(str)  == FlattenSeq([k \in DOMAIN str |-> str[k].text])
Means(str) == FlattenSeq([k \in DOMAIN str |-> str[k].means])
Good(str)  == \A k \in DOMAIN str : str[k] \in GoodUnits

Letter == <<U(<<97>>, <<97>>)>>
Type   == [key |-> 84, value |-> Letter]

Keys == {84, 83, 120}   \* type, sam and an unknown one

Member(m) == <<34, m.key, 34, 58, 34>> \o Text(m.value) \o <<34>>

\* Two members in either order, with a space between all tokens or none,
\* with or without a comma behind the last.
Render(m1, m2, space, comma) ==
  LET gap == IF space THEN <<32>> ELSE <<>>
  IN  gap \o <<123>> \o gap \o Member(m1) \o gap \o <<44>> \o gap \o Member(m2)
      \o gap \o (IF comma THEN <<44>> ELSE <<>>) \o gap \o <<125>> \o gap

MsgOf(members) ==
  [f \in Fields |->
     LET at == {k \in DOMAIN members : <<members[k].key>> = Key[f]}
     IN  IF at = {} THEN <<>> ELSE Means(members[Max(at)].value)]

Wellformed(members) == \A k \in DOMAIN members : Good(members[k].value)

Whole(m1, m2, space, comma) ==
  LET good == Wellformed(<<m1, m2>>)
      msg  == IF good THEN MsgOf(<<m1, m2>>) ELSE EmptyMsg
  IN  [line |-> Render(m1, m2, space, comma), whole |-> TRUE,
       ok |-> good /\ msg["type"] # <<>>, msg |-> msg, of |-> <<>>]

\* Every member after and before a type, and a line with no type at all.
WholeSamples ==
  LET Others == [key: Keys, value: Strings] IN
  {Whole(Type, m, sp, co) : m \in Others, sp \in BOOLEAN, co \in BOOLEAN}
    \cup {Whole(m, Type, sp, FALSE) : m \in Others, sp \in BOOLEAN}
    \cup {Whole([m EXCEPT !.key = 83], m, FALSE, FALSE) : m \in Others}

Piece(line, of) ==
  [line |-> line, whole |-> FALSE, ok |-> FALSE, msg |-> EmptyMsg, of |-> of]

\* Well-formed lines without white space around them, cut at every place,
\* and one object behind another.
Pieces ==
  LET Lines == {Render(Type, [key |-> k, value |-> v], FALSE, FALSE) :
                  k \in Keys, v \in {str \in Strings : Good(str) /\ Len(str) <= 1}}
  IN  UNION {   {Piece(SubSeq(l, 1, n), l) : n \in 0 .. Len(l) - 1}
              \cup {Piece(SubSeq(l, n, Len(l)), l) : n \in 2 .. Len(l)}
              \cup {Piece(l \o l, l), Piece(l \o <<97>>, l)} : l \in Lines}

MCSamples == WholeSamples \cup Pieces
=============================================================================
