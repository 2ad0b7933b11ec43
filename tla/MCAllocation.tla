----------------------------- MODULE MCAllocation -----------------------------
EXTENDS WalletAllocationProps

CONSTANTS p1, p2, p3, p4, p5, c1, c2, c3, c4, old, new, resigned

(* c1 and c2 are tries of one request, c3 reuses their key for another     *)
(* one, and c4 stands by itself.                                           *)
MCKey == [c \in Calls |-> IF c = c4 THEN "k4" ELSE "k1"]
MCPayload == [c \in Calls |-> IF c = c3 THEN "other" ELSE "same"]

(* Three processes, all with another hash; or p2 and p3 with a fellow, and *)
(* one with the old key, so that two of them may both look for the account *)
(* that the old key's process replaces.                                    *)
MCStarts == {{p1, p2, p3}, {p2, p3, p4, p5}}

(* c2 reaches another API process than the other calls.                    *)
MCServer == [c \in Calls |-> IF c = c2 THEN p2 ELSE p1]

(* The keyset's key is replaced: p1 is configured with the old one.  Then  *)
(* the HMAC secret is rotated as documented, the old secret kept as a      *)
(* legacy one: p3 hashes the new key another way.                          *)
MCKeyMaterial == [h \in {old, new, resigned} |-> IF h = old THEN "oldkey" ELSE "newkey"]
MCPrimary == [p \in Procs |-> CASE p \in {p1, p5} -> old [] p \in {p2, p4} -> new [] OTHER -> resigned]
MCLegacy == [p \in Procs |-> IF p = p3 THEN {new} ELSE {}]

(* All keys are right, or the new one is not what was expected of it.      *)
MCPreflights == {Procs, {p \in Procs : MCPrimary[p] = old}}

(* The key alone is replaced, and p2 and p3 start with the new one.        *)
MCAllStart == {Procs}
MCPrimaryNewKey == [p \in Procs |-> IF p = p1 THEN old ELSE new]
MCNoLegacy == [p \in Procs |-> {}]
===============================================================================
