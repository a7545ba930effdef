-------------------------------- MODULE EpilogC -------------------------------
(***************************************************************************)
(* qrmi-ocs-epilog: the C epilog. It differs from EpilogGo in that a       *)
(* metadata file it cannot open ends it at once, that a read error looks   *)
(* like the end of the file, and that it counts the records it has seen.   *)
(***************************************************************************)
EXTENDS HookState

CEpilogAt(j, label) == EpilogImpl = "c" /\ At(j, "epilog", label)

\* fopen and the getline loop: what the file reads as. Without memory, fopen
\* fails, getline looks like the end of the file, or parse_record_line fails.
CReadRecords(j) ==
    (CASE spool[j] = NoFile    -> {"missing"}
       [] spool[j] = EmptyFile -> {"empty"}
       [] spool[j] = TornFile  -> {"malformed", "torn", "whole"}
       [] OTHER                -> {"whole"})
    \cup (IF Faults \cap {"read", "memory"} # {} /\ spool[j] # NoFile
          THEN {"unopened", "empty"} ELSE {})
    \cup (IF "memory" \in Faults /\ spool[j] \notin {NoFile, EmptyFile}
          THEN {"malformed"} ELSE {})

\* The token parse_record_line takes from a record that reads as r.
CRecordToken(j, r) ==
    CASE r = "torn"                         -> BadToken
      [] r = "whole" /\ spool[j] = TornFile -> CurrentToken(j)
      [] OTHER                              -> spool[j]

CEpilogStart(j) ==
    /\ CEpilogAt(j, "start")
    /\ \/ /\ Goto(j, "read")
          /\ UNCHANGED <<tok, failed, total, envBroken, jobFiles, kept, sessions>>
       \/ /\ "start" \in Faults
          /\ \E c \in {ExitHostError, ExitJobError} : ExitClean(j, c)

\* main, up to the release.
CReadMetadata(j) ==
    /\ CEpilogAt(j, "read")
    /\ UNCHANGED <<envBroken, jobFiles, kept, sessions>>
    /\ \E r \in CReadRecords(j) :
         \/ /\ r \in {"missing", "unopened"}
            /\ Exit(j, IF r = "missing" THEN ExitOK ELSE ExitHostError)
            /\ UNCHANGED <<tok, failed, total>>
         \/ /\ r \in {"empty", "malformed"}
            /\ FailTo(j, "preserve", ExitHostError)
            /\ failed' = [failed EXCEPT ![j] = TRUE]
            /\ total' = [total EXCEPT ![j] = IF r = "empty" THEN 0 ELSE 1]
            /\ UNCHANGED tok
         \/ /\ r \in {"torn", "whole"}
            /\ Goto(j, "release")
            /\ tok' = [tok EXCEPT ![j] = CRecordToken(j, r)]
            /\ total' = [total EXCEPT ![j] = 1]
            /\ UNCHANGED failed

\* Faulty variants: a failed release counts as done; after a failed release
\* the metadata is read and released again, as long as that fails.
CReleaseUnchecked(j) ==
    /\ CEpilogAt(j, "release")
    /\ \E answer \in Answer({"release"}) : Release(tok[j], answer)
    /\ tok' = [tok EXCEPT ![j] = NoToken]
    /\ Goto(j, "remove")
    /\ UNCHANGED <<failed, total, envBroken, jobFiles, kept>>

CReleaseRetry(j) ==
    /\ CEpilogAt(j, "release")
    /\ \E answer \in Answer({"release"}) :
         /\ Release(tok[j], answer)
         /\ Goto(j, IF answer = "ok" THEN "remove" ELSE "read")
    /\ UNCHANGED <<tok, failed, total, envBroken, jobFiles, kept>>

\* release_record: set_release_env and qrmi_resource_new may fail before the
\* call. The backend may also refuse a token it never issued.
CReleaseRecord(j) ==
    /\ CEpilogAt(j, "release")
    /\ tok' = [tok EXCEPT ![j] = NoToken]
    /\ UNCHANGED <<total, envBroken, jobFiles, kept>>
    /\ \E answer \in Answer({"release", "host", "memory"})
                       \cup (IF tok[j] = BadToken THEN {"host"} ELSE {}) :
         /\ \/ answer \in {"host", "memory"} /\ UNCHANGED sessions
            \/ Release(tok[j], answer)
         /\ failed' = [failed EXCEPT ![j] = answer # "ok"]
         /\ Goto(j, IF answer = "ok" THEN "remove" ELSE "preserve")

CRemoveMetadata(j) ==
    /\ CEpilogAt(j, "remove")
    /\ Goto(j, "publish")
    /\ \/ spool' = [spool EXCEPT ![j] = NoFile]
       \/ "disk" \in Faults /\ UNCHANGED spool
    /\ UNCHANGED <<tok, failed, total, envBroken, envStatus, envTok, usage, kept, sessions>>

\* Faulty variants: the file stays in the job spool; a rename replaces an
\* older record.
CPreserveInSpool(j) ==
    /\ CEpilogAt(j, "preserve")
    /\ Goto(j, "publish")
    /\ UNCHANGED <<tok, failed, total, envBroken, jobFiles, kept, sessions>>

CPreserveByRename(j) ==
    /\ CEpilogAt(j, "preserve")
    /\ Goto(j, "publish")
    /\ kept' = [kept EXCEPT ![host[j]][j] = spool[j]]
    /\ spool' = [spool EXCEPT ![j] = NoFile]
    /\ UNCHANGED <<tok, failed, total, envBroken, envStatus, envTok, usage, sessions>>

\* preserve_failed_release: link, then unlink.
CPreserveFailedRelease(j) ==
    /\ CEpilogAt(j, "preserve")
    /\ Goto(j, "publish")
    /\ \/ /\ kept[host[j]][j] = NoFile
          /\ kept' = [kept EXCEPT ![host[j]][j] = spool[j]]
          /\ \/ spool' = [spool EXCEPT ![j] = NoFile]
             \/ "disk" \in Faults /\ UNCHANGED spool
       \/ /\ kept[host[j]][j] # NoFile \/ "disk" \in Faults
          /\ UNCHANGED <<kept, spool>>
    /\ UNCHANGED <<tok, failed, total, envBroken, envStatus, envTok, usage, sessions>>

\* The job environment and append_usage_metric, one call per value; failures
\* are only logged. The two values modelled are published together or not.
CPublishSummary(j) ==
    /\ CEpilogAt(j, "publish")
    /\ Goto(j, "exit")
    /\ \/ usage' = [usage EXCEPT ![j] =
                      [total |-> total[j], success |-> IF failed[j] THEN 0 ELSE 1]]
       \/ Faults \cap {"disk", "memory"} # {} /\ UNCHANGED usage
    /\ UNCHANGED <<tok, failed, total, envBroken, spool, envStatus, envTok, kept, sessions>>

CEpilogStep(j) ==
    \/ CEpilogStart(j) \/ CReadMetadata(j) \/ CReleaseRecord(j)
    \/ CRemoveMetadata(j) \/ CPreserveFailedRelease(j) \/ CPublishSummary(j)
=============================================================================
