------------------------------ MODULE MCCodec ------------------------------
(* Messages for TLC.                                                       *)
EXTENDS Delivery

Characters == {"a", "<", "&", "lt;", "/string>", " "}
ShortTexts == {<<>>} \cup {<<c>> : c \in Characters} \cup {<<c, d>> : c, d \in Characters}
BytesOfLength(n) == [1..n -> {0, 27, 255}]
Plain ==
  {Number(n) : n \in {-12, 0, 7, 305}} \cup {Bool(0), Bool(1), None}
    \cup {Double(n) : n \in {-1205, -5, 0, 50, 30599}}
    \cup {Str(t) : t \in ShortTexts}
    \cup {Bytes(b) : b \in UNION {BytesOfLength(n) : n \in 0..3}}
    \cup {Bytes(<<1, 2, 3, 255>>), Date(<<1999, 12, 31, 23, 59, 59>>), Date(<<800, 1, 2, 3, 4, 5>>)}
Few == {Number(-12), Str(<<"<", "a">>), None, Array(<<>>), Struct({})}
Nested ==
  {Array(<<u, v>>) : u, v \in Few}
    \cup {Struct({Member(<<"a">>, u), Member(<<"&">>, v)}) : u, v \in Few}
    \cup {Array(<<Array(<<v>>), Struct({Member(<<"a">>, Array(<<v>>))})>>) : v \in Few}
    \cup {Array(<<>>), Struct({})}

NoInfo == <<>>
Close == <<"connection">> :> <<"close">>
Response(v, info) == Message("response", <<>>, <<v>>, info, Nobody)
Call(params, info, cred) == Message("call", <<"echo">>, params, info, cred)
Fault(code, text, info) == Message("fault", <<>>, <<code, text>>, info, Nobody)

(* A name, and a password with a colon.                                    *)
Name == <<97, 255>>
Pass == <<58, 97>>
Callers == {Nobody, Credentials({Name}, {Pass}), Credentials({Name}, {}), Credentials({}, {Pass})}

SlowMessages ==
  {Response(Str(<<"<", "a">>), NoInfo), Response(Array(<<>>), Close),
   Call(<<Number(-12)>>, NoInfo, Nobody), Call(<<>>, Close, Credentials({Name}, {Pass})),
   Fault(Number(7), Str(<<"<">>), NoInfo)}
SomeMessages ==
  SlowMessages
    \cup {Response(v, NoInfo) : v \in Plain \cup Nested}
    \cup {Response(v, Close) : v \in Few}
    \cup {Call(params, info, cred) :
            params \in {<<>>} \cup {<<v>> : v \in Few} \cup {<<v, v>> : v \in Few},
            info \in {NoInfo, Close, Close @@ <<"X">> :> <<"a", " ", "a">>}, cred \in {Nobody}}
    \cup {Call(<<None>>, info, cred) : info \in {NoInfo, Close}, cred \in Callers}
    \cup {Fault(code, text, info) :
            code \in {Number(7), None}, text \in {Str(<<"<">>), None}, info \in {NoInfo, Close}}
Calls == {m \in SomeMessages : m.type = "call"}
=============================================================================
