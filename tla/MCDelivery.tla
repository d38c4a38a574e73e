----------------------------- MODULE MCDelivery -----------------------------
(***************************************************************************)
(* Delivery with one variable added: what an agent writes in this run.     *)
(* The topics have chunks and a length of their own, because what the      *)
(* buffer, the extraction and the formatting tell apart is too much for    *)
(* texts of one kind.                                                      *)
(***************************************************************************)
EXTENDS Delivery

VARIABLE topic

LineBreak == <<"nl">>
Space     == <<"sp">>
Word      == <<"lead", "trail", "x">>
Line      == Word \o LineBreak
Program   == Fence \o LineBreak \o LineBreak \o Fence
Wide      == <<"lead", "trail">>
Emphasis  == <<"_", "x">>
Heading   == <<"nl", "#", "sp">>
Address   == <<"(", "x", ")">>
Picture   == <<"!", "[", "]">> \o Address

\* Text in every division into chunks of up to three characters.
Divided ==
    {FlattenSeq(chars) :
        chars \in BoundedSeq({LineBreak, Space, Fence, Word}, 3) \ {<< >>}}

\* Blocks of code with what may be around and in them; and all that the formatting
\* looks for, beside a long block.
Blocks == {LineBreak, Line, Fence}
Markup == {LineBreak, Wide, Program, Emphasis, Heading, Address, Picture}

AllChunks == Divided \cup Blocks \cup Markup

ChunksOf == [divided |-> Divided, blocks |-> Blocks, markup |-> Markup]

\* Bounds: bytes in a reply on a topic.
LongestOf == [divided |-> 11, blocks |-> 16, markup |-> 11]

OnTopic ==
    LET chunk == SubSeq(written', Len(written) + 1, Len(written'))
    IN  chunk # << >> => chunk \in ChunksOf[topic] /\ Len(written') <= LongestOf[topic]

InitTopic == DeliveryInit /\ topic \in DOMAIN ChunksOf

NextTopic == DeliveryNext /\ OnTopic /\ UNCHANGED topic

SpecTopic == InitTopic /\ [][NextTopic]_<<vars, deliveryVars, topic>>
=============================================================================
