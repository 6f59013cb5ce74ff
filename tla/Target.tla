------------------------------- MODULE Target -------------------------------
(***************************************************************************)
(* The argument of -t, as parseSSHTarget takes it apart. A text is a       *)
(* sequence of character codes.                                            *)
(***************************************************************************)
EXTENDS Integers, Sequences, Folds

Text  == Seq(Nat)
Colon == 58
Arroba == 64
Digit == 48 .. 57
Port  == 1 .. 65535

Has(s, c)    == \E i \in DOMAIN s : s[i] = c
First(s, c)  == CHOOSE i \in DOMAIN s : s[i] = c /\ \A j \in 1 .. i - 1 : s[j] # c

\* The two parts of SplitN(s, c, 2); without a separator all of it is the first.
Before(s, c) == IF Has(s, c) THEN SubSeq(s, 1, First(s, c) - 1) ELSE s
After(s, c)  == IF Has(s, c) THEN SubSeq(s, First(s, c) + 1, Len(s)) ELSE <<>>

\* The decimal number of a text of digits.
Number(s) == MapThenFoldSet(+, 0, LAMBDA i : (s[i] - 48) * 10 ^ (Len(s) - i),
                            LAMBDA S : CHOOSE i \in S : TRUE, DOMAIN s)

isPortNumber(s) ==
  /\ s # <<>> /\ \A i \in DOMAIN s : s[i] \in Digit
  /\ Number(s) \in Port

Parts   == [user : Text, host : Text, port : Text, file : Text]
Invalid == [user |-> <<>>, host |-> <<>>, port |-> <<>>, file |-> <<>>]

\* What is behind the user and its "@".
Behind(input) == IF Has(input, Arroba) THEN After(input, Arroba) ELSE input

\* Without a colon behind the "@" the process ends with an error.
NamesNoPlace(input) == Has(input, Colon) /\ ~Has(Behind(input), Colon)

\* parseSSHTarget: a text without a colon is a local path; otherwise [user@]host:[port:]path,
\* where the path ends at the next colon if no port comes before it.
parseSSHTarget(input) ==
  LET place == After(Behind(input), Colon)
      port  == IF Has(place, Colon) /\ isPortNumber(Before(place, Colon))
               THEN Before(place, Colon) ELSE <<>>
  IN IF ~Has(input, Colon) THEN [Invalid EXCEPT !.file = input]
     ELSE IF NamesNoPlace(input) THEN Invalid
     ELSE [user |-> IF Has(input, Arroba) THEN Before(input, Arroba) ELSE <<>>,
           host |-> Before(Behind(input), Colon),
           port |-> port,
           file |-> IF port # <<>> THEN After(place, Colon) ELSE Before(place, Colon)]

---------------------------------------------------------------------------
(* The forms README.md:52 gives for -t.                                    *)

Written(t) ==
  (IF t.user = <<>> THEN <<>> ELSE t.user \o <<Arroba>>)
  \o (IF t.host = <<>> THEN <<>> ELSE t.host \o <<Colon>>)
  \o (IF t.port = <<>> THEN <<>> ELSE t.port \o <<Colon>>)
  \o t.file

\* A target one may mean: a local path, or a path on a host, with or without user and port.
Meaning(t) ==
  /\ t \in Parts
  /\ t.host = <<>> => t.user = <<>> /\ t.port = <<>>
  /\ t.port # <<>> => isPortNumber(t.port)
  /\ \A c \in {Colon, Arroba} : ~Has(t.user, c) /\ ~Has(t.host, c)

\* Which of them can be written so that they are read as meant: a local path must have no colon,
\* a remote one none unless the port is given, and an "@" only behind a user.
Plain(t) ==
  /\ t.port = <<>> => ~Has(t.file, Colon)
  /\ t.host # <<>> /\ t.user = <<>> => ~Has(t.file, Arroba)
=============================================================================
