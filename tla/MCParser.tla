------------------------------ MODULE MCParser ------------------------------
(***************************************************************************)
(* A small instance of Parser: one-byte types, payloads of at most one     *)
(* byte, and bytes that make every kind of frame.  With them the accepted  *)
(* frames include @02:C::41\n, @03:C:a:21\n, @03:C:@:00\n and, with a NUL  *)
(* or an end character inside the payload, @03:C:\0:40\n and               *)
(* @03:C:\n:4a\n.                                                          *)
(***************************************************************************)
EXTENDS Parser

MCTypeText == [CMD |-> <<67>>, ACK |-> <<97>>]            \* "C", "a"

MCInput == {START, SEP, END, CR, NUL, 48, 49, 50, 51, 52, 67, 97}
                                      \* '0' '1' '2' '3' '4' 'C' 'a'
=============================================================================
