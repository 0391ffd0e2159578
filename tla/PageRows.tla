------------------------------ MODULE PageRows ------------------------------
(* What Revisions and PageIdentity have in common: the page table's rows   *)
(* and the transactions that lock them (backend/internal/page).            *)
CONSTANTS
    Pages,
    Writers,       \* one transaction each at a time
    NoOne          \* the holder of a free row lock

VARIABLE
    deleted        \* pages with deleted_at set
=============================================================================
