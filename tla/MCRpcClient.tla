----------------------------- MODULE MCRpcClient -----------------------------
(***************************************************************************)
(* Four units to the second: one request takes four, two or no units of    *)
(* the limiter.  The server asks for pauses below, between and above the   *)
(* backoffs, and for one that is too long to wait for, each as a number of *)
(* seconds or as a date.                                                   *)
(***************************************************************************)
EXTENDS RpcClient

MCRates == {0, 1, 2}
MCBackoff == <<1, 2, 3>>
MCRetryAfter == {0, 2, 5, 7}
=============================================================================
