------------------------------ MODULE MCInvite ------------------------------
(* A small instance of Invite for TLC.                                     *)
EXTENDS Invite

(* Codes of five bytes.  The second is shown as T10G-..., and so on.       *)
Samples ==
    {<<0, 0, 0, 0, 0>>, <<208, 64, 255, 0, 1>>, <<8, 66, 16, 132, 33>>, <<255, 127, 1, 254, 64>>}

SampleOwns == {<<c, <<171, 205, 239, 1, 35>>>> : c \in Samples}

(* A code as it is read out, run together, respelled, and twice confusing. *)
InStyle(prefix, lower, gap, alike) ==
    [prefix |-> prefix, lower |-> lower, gap |-> gap, alike |-> alike]

SevenStyles ==
    {InStyle(<<"T", "I", "O">>, FALSE, <<>>, TRUE),  InStyle(<<"t", "i", "o">>, TRUE, <<"-">>, FALSE),
     InStyle(<<"T", "I", "O">>, TRUE, <<" ">>, TRUE), InStyle(<<>>, FALSE, <<"-">>, FALSE),
     InStyle(<<>>, TRUE, <<>>, FALSE), InStyle(<<>>, FALSE, <<" ">>, TRUE),
     InStyle(<<"T", "i", "o">>, FALSE, <<"-">>, FALSE)}

TwoTools == <<"wl-copy", "xclip">>

NoCodes == {<<"T", "I", "O">>, [i \in 1 .. Length |-> "U"], [i \in 1 .. Length + 1 |-> "1"]}
=============================================================================
