----------------------------- MODULE MCSession -----------------------------
(***************************************************************************)
(* Blocks of three bytes where an instrument takes two at once, as a Tone  *)
(* has 129 where it takes 128; a parameter of each encoding; a patch whose *)
(* second block came out of range from a file.                             *)
(***************************************************************************)
EXTENDS Session
Char(o)     == [offset |-> o, bytes |-> 1, encoding |-> "ascii",
                min |-> 32, max |-> 127]
Seven(o)    == [offset |-> o, bytes |-> 1, encoding |-> "seven",
                min |-> 1, max |-> 5]
Nibbles(o)  == [offset |-> o, bytes |-> 2, encoding |-> "nibble",
                min |-> 0, max |-> 20]
Common   == [size |-> 3, params |-> <<Char(0), Char(1), Seven(2)>>]
Part   == [size |-> 3, params |-> <<Nibbles(0), Seven(2)>>]
Plain  == [size |-> 2, params |-> <<Nibbles(0)>>]
MCMap ==
  [patch  |-> [common |-> Common, item |-> Part, items |-> 2],
   rhythm |-> [common |-> Common, item |-> Plain, items |-> 1],
   system |-> [common |-> Plain, item |-> Plain, items |-> 1]]
Rich(k) == [init_document(k) EXCEPT !.blocks[2] = [@ EXCEPT ![2] = 3]]
Odd == [Rich("patch") EXCEPT !.blocks[2] = <<1, 15, 9>>]
MCOpened == {Rich(k) : k \in Kinds} \cup {Odd}
MCSecond == [init_document("patch") EXCEPT !.blocks[1] = <<66, 67, 4>>,
                                           !.blocks[3] = <<1, 2, 3>>]
MCNAMES == { <<65>>, <<65, 66>>, <<65, 200>> }
MCForeign ==
  { encode(Rq1(user_patch(0), 3), 16),
    [encode(Dt1(user_patch(0), <<9>>), 16) EXCEPT ![4] = 22] }
\* A file is saved from an unedited document and with live editing off: what
\* becomes of a file does not depend on how its document was made.
FilesApart == file # <<>> => ~live /\ heard = <<>> /\ doc \in Opened
                            /\ history = NoHistory
=============================================================================
