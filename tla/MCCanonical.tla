----------------------------- MODULE MCCanonical -----------------------------
(***************************************************************************)
(* Texts of up to three levels over two keys, one of them in two           *)
(* spellings, with members in both orders and keys that repeat, and        *)
(* numbers in several spellings.                                           *)
(***************************************************************************)
EXTENDS CanonicalJson, TLC

Atom(a) == [t |-> "atom", v |-> a]
List(s) == [t |-> "list", v |-> s]
Object(s) == [t |-> "object", v |-> s]

\* 'a' is a string and %61 the escape of its character.
Loaded ==
  ("0" :> "int 0") @@ ("-0" :> "int 0") @@ ("1" :> "int 1") @@ ("1.0" :> "float 1")
    @@ ("1e0" :> "float 1") @@ ("-0.0" :> "float -0") @@ ("NaN" :> "nan") @@ ("1e999" :> "inf")
    @@ ("'a'" :> "str a") @@ ("'%61'" :> "str a") @@ ("'b'" :> "str b")
Dumped ==
  ("int 0" :> "0") @@ ("int 1" :> "1") @@ ("float 1" :> "1.0") @@ ("float -0" :> "-0.0")
    @@ ("str a" :> "'a'") @@ ("str b" :> "'b'")

TwoKeys == <<"str a", "str b">>
NotFinite == {"nan", "inf"}

UpToTwo(S) == UNION {[1 .. n -> S] : n \in 0 .. 2}

TextsOver(keys, children) ==
  {List(s) : s \in UpToTwo(children)} \cup {Object(s) : s \in UpToTwo(keys \X children)}

Flat == {Atom(a) : a \in DOMAIN Loaded}
          \cup TextsOver({"'a'", "'%61'", "'b'"}, {Atom("1.0"), Atom("1e0"), Atom("NaN")})

ab == Object(<<<<"'a'", Atom("1")>>, <<"'b'", Atom("1")>>>>)
ba == Object(<<<<"'b'", Atom("1")>>, <<"'%61'", Atom("1")>>>>)
aa == Object(<<<<"'a'", Atom("1")>>, <<"'%61'", Atom("1.0")>>>>)
ao == Object(<<<<"'a'", Atom("1.0")>>, <<"'b'", Atom("1")>>>>)

Nested == TextsOver({"'a'", "'b'"}, {Atom("1"), Atom("1.0"), ab, ba, aa, ao})

Deep == TextsOver({"'a'", "'b'"}, {List(<<ab>>), List(<<ba>>), List(<<aa>>)})

SmallTexts == Flat \cup Nested \cup Deep
=============================================================================
