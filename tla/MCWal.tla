------------------------------- MODULE MCWal -------------------------------
EXTENDS Wal
MCBytes == [v \in Value |-> IF v = "a" THEN 1 ELSE 2]
=============================================================================
