---------------------------- MODULE MCHookAttention ----------------------------
(* HookAttention on a small instance, its agents and tasks model values. *)
EXTENDS HookAttention
================================================================================
