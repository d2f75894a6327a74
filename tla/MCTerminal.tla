----------------------------- MODULE MCTerminal -----------------------------
(* Instances of Terminal for TLC: three commands in the shape of the        *)
(* registered table - "reset" without parameters, "led" with a string,     *)
(* "sector" with a string and a number - and a number of one digit as U8.  *)
EXTENDS Terminal

String == [kind |-> "string", max |-> 0]
Number(max) == [kind |-> "int", max |-> max]
Character == [kind |-> "char", max |-> 0]

Table == << [name |-> <<"r">>, types |-> <<>>],
            [name |-> <<"s">>, types |-> <<String, Number(9)>>],
            [name |-> <<"1">>, types |-> <<Character>>] >>

OneDigit == "1" :> 1
=============================================================================
