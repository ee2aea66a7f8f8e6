--------------------------- MODULE MCPopDeadline ---------------------------
(***************************************************************************)
(* Times around the second and around the half, timeouts around the carry, *)
(* among them the 900 ms of src/cf_test/test_async_queue.c.  A timeout of  *)
(* 100 ms and a time of 900000 us meet on the second.                      *)
(***************************************************************************)
EXTENDS PopDeadline

MCSecs == {0, 7}
MCUsecs == {0, 1, 99999, 100000, 100001, 500000, 899999, 900000, 900001, 999999}
MCTimeouts == {1, 99, 100, 101, 500, 900, 901, 999, 1000, 1001, 1100, 2500, 65900}
=============================================================================
