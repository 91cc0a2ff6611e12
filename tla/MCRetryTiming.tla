----------------------------- MODULE MCRetryTiming -----------------------------
(* A schedule of three unequal steps, the last one repeated, for RetryTiming. *)
EXTENDS RetryTiming

Schedule == <<1, 3, 2>>
===============================================================================
