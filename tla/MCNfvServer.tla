----------------------------- MODULE MCNfvServer -----------------------------
(***************************************************************************)
(* Small packets for NfvServer.  With a header of 2 bytes and parts of 4,  *)
(* the first packet fits in the first part, the second fills it exactly,   *)
(* the third needs a second part and the last one a third.                 *)
(***************************************************************************)
EXTENDS NfvServer

MCPackets ==
    {<<Newline>>, <<Other, Newline>>, <<Newline, Newline, Other>>,
     <<Newline, Other, Newline, Newline, Newline, Newline, Other>>}

(* Packets for several calls per client, with parts of 3 bytes: the first  *)
(* fills its part exactly; the second needs two parts, or three if recv    *)
(* cuts it short.                                                          *)
MCCallPackets == {<<Newline>>, <<Newline, Other>>}

=============================================================================
