------------------------------- MODULE EpilogGo -------------------------------
(***************************************************************************)
(* qrmi-ocs-epilog-go: read the metadata, release the token it names,      *)
(* remove or keep the file, publish the accounting.                        *)
(***************************************************************************)
EXTENDS HookState

GoEpilogAt(j, label) == EpilogImpl = "go" /\ At(j, "epilog", label)

\* ReadStrictSingle and parseRecordLine: what the file reads as. A torn line
\* is malformed, or ends inside the token, or inside the optional epoch.
GoReadStrictSingle(j) ==
    CASE spool[j] = NoFile    -> {"missing"}
      [] spool[j] = EmptyFile -> {"error"}
      [] spool[j] = TornFile  -> {"error", "torn", "whole"}
      [] OTHER                -> {"whole"} \cup (IF "read" \in Faults THEN {"error"} ELSE {})

\* The token of a record that reads as r.
GoRecordToken(j, r) ==
    CASE r = "torn"                              -> BadToken
      [] r = "whole" /\ spool[j] = TornFile      -> CurrentToken(j)
      [] OTHER                                   -> spool[j]

\* main, before run: as in the prolog; and a missing spool directory.
GoEpilogStart(j) ==
    /\ GoEpilogAt(j, "start")
    /\ \/ /\ Goto(j, "read")
          /\ UNCHANGED <<tok, failed, total, envBroken, jobFiles, kept, sessions>>
       \/ /\ "start" \in Faults
          /\ \E c \in {ExitHostError, ExitJobError} : ExitClean(j, c)

\* run, up to the release: no file is success, an unreadable one is a host
\* error whose file is kept.
GoReadMetadata(j) ==
    /\ GoEpilogAt(j, "read")
    /\ UNCHANGED <<total, envBroken, jobFiles, kept, sessions>>
    /\ \E r \in GoReadStrictSingle(j) :
         \/ /\ r = "missing"
            /\ Exit(j, ExitOK)
            /\ UNCHANGED <<tok, failed>>
         \/ /\ r = "error"
            /\ FailTo(j, "preserve", ExitHostError)
            /\ failed' = [failed EXCEPT ![j] = TRUE]
            /\ UNCHANGED tok
         \/ /\ r \in {"torn", "whole"}
            /\ Goto(j, "release")
            /\ tok' = [tok EXCEPT ![j] = GoRecordToken(j, r)]
            /\ UNCHANGED failed

\* Faulty variants: a failed release counts as done; after a failed
\* release the metadata is read and released again, as long as that fails.
GoReleaseUnchecked(j) ==
    /\ GoEpilogAt(j, "release")
    /\ \E answer \in Answer({"release"}) : Release(tok[j], answer)
    /\ tok' = [tok EXCEPT ![j] = NoToken]
    /\ Goto(j, "remove")
    /\ UNCHANGED <<failed, total, envBroken, jobFiles, kept>>

GoReleaseRetry(j) ==
    /\ GoEpilogAt(j, "release")
    /\ \E answer \in Answer({"release"}) :
         /\ Release(tok[j], answer)
         /\ Goto(j, IF answer = "ok" THEN "remove" ELSE "read")
    /\ UNCHANGED <<tok, failed, total, envBroken, jobFiles, kept>>

\* releaseRecord: setReleaseEnv and NewResource may fail before the call.
\* The backend may also refuse a token it never issued.
GoReleaseRecord(j) ==
    /\ GoEpilogAt(j, "release")
    /\ tok' = [tok EXCEPT ![j] = NoToken]
    /\ UNCHANGED <<total, envBroken, jobFiles, kept>>
    /\ \E answer \in Answer({"release", "host"})
                       \cup (IF tok[j] = BadToken THEN {"host"} ELSE {}) :
         /\ \/ answer = "host" /\ UNCHANGED sessions
            \/ Release(tok[j], answer)
         /\ failed' = [failed EXCEPT ![j] = answer # "ok"]
         /\ Goto(j, IF answer = "ok" THEN "remove" ELSE "preserve")

\* os.Remove; a failure is only logged.
GoRemoveMetadata(j) ==
    /\ GoEpilogAt(j, "remove")
    /\ Goto(j, "publish")
    /\ \/ spool' = [spool EXCEPT ![j] = NoFile]
       \/ "disk" \in Faults /\ UNCHANGED spool
    /\ UNCHANGED <<tok, failed, total, envBroken, envStatus, envTok, usage, kept, sessions>>

\* Faulty variants: the file stays in the job spool; a rename replaces an
\* older record.
GoPreserveInSpool(j) ==
    /\ GoEpilogAt(j, "preserve")
    /\ Goto(j, "publish")
    /\ UNCHANGED <<tok, failed, total, envBroken, jobFiles, kept, sessions>>

GoPreserveByRename(j) ==
    /\ GoEpilogAt(j, "preserve")
    /\ Goto(j, "publish")
    /\ kept' = [kept EXCEPT ![host[j]][j] = spool[j]]
    /\ spool' = [spool EXCEPT ![j] = NoFile]
    /\ UNCHANGED <<tok, failed, total, envBroken, envStatus, envTok, usage, sessions>>

\* PreserveFailedRelease: the link fails when a record of that name is
\* already kept; the remove may fail after the link. Both are only logged.
GoPreserveFailedRelease(j) ==
    /\ GoEpilogAt(j, "preserve")
    /\ Goto(j, "publish")
    /\ \/ /\ kept[host[j]][j] = NoFile
          /\ kept' = [kept EXCEPT ![host[j]][j] = spool[j]]
          /\ \/ spool' = [spool EXCEPT ![j] = NoFile]
             \/ "disk" \in Faults /\ UNCHANGED spool
       \/ /\ kept[host[j]][j] # NoFile \/ "disk" \in Faults
          /\ UNCHANGED <<kept, spool>>
    /\ UNCHANGED <<tok, failed, total, envBroken, envStatus, envTok, usage, sessions>>

\* Faulty variant: the total counts the records released, not those seen.
GoPublishReleasedTotal(j) ==
    /\ GoEpilogAt(j, "publish")
    /\ Goto(j, "exit")
    /\ \/ usage' = [usage EXCEPT ![j] =
                      [total |-> IF failed[j] THEN 0 ELSE 1,
                       success |-> IF failed[j] THEN 0 ELSE 1]]
       \/ "disk" \in Faults /\ UNCHANGED usage
    /\ UNCHANGED <<tok, failed, total, envBroken, spool, envStatus, envTok, kept, sessions>>

\* publishSummary: the total is the constant 1. A failed append is logged.
GoPublishSummary(j) ==
    /\ GoEpilogAt(j, "publish")
    /\ Goto(j, "exit")
    /\ \/ usage' = [usage EXCEPT ![j] =
                      [total |-> 1, success |-> IF failed[j] THEN 0 ELSE 1]]
       \/ "disk" \in Faults /\ UNCHANGED usage
    /\ UNCHANGED <<tok, failed, total, envBroken, spool, envStatus, envTok, kept, sessions>>

GoEpilogStep(j) ==
    \/ GoEpilogStart(j) \/ GoReadMetadata(j) \/ GoReleaseRecord(j)
    \/ GoRemoveMetadata(j) \/ GoPreserveFailedRelease(j) \/ GoPublishSummary(j)
=============================================================================
