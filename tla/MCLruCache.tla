------------------------------ MODULE MCLruCache ------------------------------
(* LruCache for TLC. *)
EXTENDS LruCache
===============================================================================
