-------------------------- MODULE MCSessionContext --------------------------
EXTENDS SessionContext

MCCap == [kind \in EntryKinds |->
            CASE kind \in {"user", "compaction", "system"} -> 2
              [] kind \in {"assistant", "branch_summary", "context_edit"} -> 1
              [] kind \in {"custom", "change"} -> 1
              [] OTHER -> 0]
=============================================================================
