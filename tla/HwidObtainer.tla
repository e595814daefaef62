---------------------------- MODULE HwidObtainer ----------------------------
(***************************************************************************)
(* The diagnostic tool's MainWindow: the hardware collection and the TPM   *)
(* test on worker threads, copying and exporting what was collected.       *)
(*                                                                         *)
(* A collected identity is the number of the collection it came from; the  *)
(* TPM key is a version that another program may replace at any time.      *)
(***************************************************************************)
EXTENDS Integers

CONSTANTS
    None,
    MaxCollections, \* bound on the collections a user starts
    MaxTests,       \* bound on the TPM tests
    MaxKey          \* bound on the replacements of the TPM key

VARIABLES
    started,    \* collections started
    collection, \* collectionWatcher_: the worker, or its pending finished()
    identity,   \* identity_: the collection it came from
    has,        \* hasCollectedIdentity_
    button,     \* which buttons are enabled
    status,     \* statusState_: the two status lines
    saving,     \* exportJson is inside the file dialog
    clipboard,
    file,       \* the exported file
    key,        \* the TPM key under the client's name
    tests,
    test        \* tpmTestWatcher_: performTpmTest on its thread

vars == <<started, collection, identity, has, button, status, saving,
          clipboard, file, key, tests, test>>
testVars == <<key, tests, test>>

withCollectionStatus(message) == [status EXCEPT !.collection = message]
withTpmTestStatus(message) == [status EXCEPT !.tpmTest = message]

\* The constructor ends with refreshHardware.
Init ==
    /\ started = 1 /\ collection = "running"
    /\ identity = None /\ has = FALSE
    /\ button = {"tpmTest"}
    /\ status = [collection |-> "collecting", tpmTest |-> "not run"]
    /\ saving = FALSE /\ clipboard = None /\ file = None
    /\ key = 1 /\ tests = 0
    /\ test = [at |-> "done", public |-> None, signed |-> None, result |-> None]

-----------------------------------------------------------------------------
\* The save dialog is modal: no button is pressed under it.
Pressed(b) == b \in button /\ ~saving

Begin == button' = button \ {"refresh", "copy", "export"} /\ has' = FALSE

refreshHardware ==
    /\ Pressed("refresh")
    /\ collection # "running"
    /\ started < MaxCollections
    /\ started' = started + 1
    /\ collection' = "running"
    /\ Begin
    /\ status' = withCollectionStatus("collecting")
    /\ UNCHANGED <<identity, saving, clipboard, file, testVars>>

CollectionEnds ==
    /\ collection = "running"
    /\ collection' \in {"collected", "threw"}
    /\ UNCHANGED <<started, identity, has, button, status, saving, clipboard, file,
                   testVars>>

EnabledFirst(failed) == {"refresh"}

collectionFinished ==
    /\ collection \in {"collected", "threw"}
    /\ collection' = "idle"
    /\ IF collection = "threw"
       THEN /\ status' = withCollectionStatus("failed")
            /\ button' = button \cup EnabledFirst(TRUE)
            /\ UNCHANGED <<identity, has>>
       ELSE /\ identity' = started
            /\ has' = TRUE
            /\ status' = withCollectionStatus("complete")
            /\ button' = button \cup EnabledFirst(FALSE) \cup {"copy", "export"}
    /\ UNCHANGED <<started, saving, clipboard, file, testVars>>

copyHwid ==
    /\ Pressed("copy")
    /\ IF ~has
       THEN status' = withCollectionStatus("nothing to copy") /\ UNCHANGED clipboard
       ELSE status' = withCollectionStatus("copied") /\ clipboard' = identity
    /\ UNCHANGED <<started, collection, identity, has, button, saving, file, testVars>>

exportJson ==
    /\ Pressed("export")
    /\ IF has
       THEN saving' = TRUE /\ UNCHANGED status
       ELSE status' = withCollectionStatus("nothing to export") /\ UNCHANGED saving
    /\ UNCHANGED <<started, collection, identity, has, button, clipboard, file, testVars>>

\* QSaveFile: the file is replaced as a whole by a successful commit.
Commit(outcome) == file' = IF outcome = "committed" THEN identity ELSE file

Saved(outcome) == outcome = "committed"

\* The dialog returns: cancelled, or a file name and what QSaveFile made of it.
FileChosen(outcome) ==
    /\ saving
    /\ saving' = FALSE
    /\ Commit(outcome)
    /\ status' = IF outcome = "cancelled" THEN status
                 ELSE withCollectionStatus(IF Saved(outcome) THEN "exported" ELSE "not exported")
    /\ UNCHANGED <<started, collection, identity, has, button, clipboard, testVars>>

-----------------------------------------------------------------------------
(* performTpmTest opens the key anew in each of its calls.                 *)

runTpmTest ==
    /\ Pressed("tpmTest")
    /\ tests < MaxTests
    /\ test.at = "done"
    /\ tests' = tests + 1
    /\ test' = [at |-> "ensureKey", public |-> None, signed |-> None, result |-> None]
    /\ button' = button \ {"tpmTest"}
    /\ status' = withTpmTestStatus("running")
    /\ UNCHANGED <<started, collection, identity, has, saving, clipboard, file, key>>

TestReports(result) ==
    test' = [test EXCEPT !.at = "finished", !.result = result]

\* isAvailable, ensureKey, publicKeyBlob and signChallenge may each fail, and
\* the worker may throw.
TestStep(ok) ==
    /\ \/ /\ test.at \in {"ensureKey", "publicKeyBlob", "signChallenge"} /\ ~ok
          /\ TestReports("threw")
       \/ /\ test.at = "ensureKey"
          /\ IF ok THEN test' = [test EXCEPT !.at = "publicKeyBlob"]
                   ELSE TestReports("key setup failed")
       \/ /\ test.at = "publicKeyBlob"
          /\ test' = [test EXCEPT !.at = "signChallenge",
                                  !.public = IF ok THEN key ELSE None]
       \/ /\ test.at = "signChallenge"
          /\ test' = [test EXCEPT !.at = "verify", !.signed = IF ok THEN key ELSE None]
    /\ UNCHANGED <<started, collection, identity, has, button, status, saving, clipboard,
                   file, key, tests>>

\* EcdsaSignature::verifyCngP256: a signature verifies under the key that made
\* it, over what it was made for.
verifyCngP256(public, signed, changed) == public = signed /\ ~changed

\* Mutant: only the rejections are looked at.
PassedRejectionsOnly(public, signed) ==
    ~verifyCngP256(public, signed, TRUE)

Passed(public, signed) ==
    verifyCngP256(public, signed, FALSE) /\ ~verifyCngP256(public, signed, TRUE)

TestVerifies ==
    /\ test.at = "verify"
    /\ TestReports(IF None \in {test.public, test.signed} THEN "signing failed"
                   ELSE IF Passed(test.public, test.signed) THEN "pass" ELSE "fail")
    /\ UNCHANGED <<started, collection, identity, has, button, status, saving, clipboard,
                   file, key, tests>>

tpmTestFinished ==
    /\ test.at = "finished"
    /\ test' = [test EXCEPT !.at = "done"]
    /\ button' = button \cup {"tpmTest"}
    /\ status' = withTpmTestStatus(test.result)
    /\ UNCHANGED <<started, collection, identity, has, saving, clipboard, file, key, tests>>

\* Another program deletes and creates the key.
KeyReplaced ==
    /\ key < MaxKey
    /\ key' = key + 1
    /\ UNCHANGED <<started, collection, identity, has, button, status, saving, clipboard,
                   file, tests, test>>

-----------------------------------------------------------------------------
User == refreshHardware \/ copyHwid \/ exportJson \/ runTpmTest

Events ==
    \/ CollectionEnds \/ collectionFinished
    \/ \E ok \in BOOLEAN : TestStep(ok)
    \/ TestVerifies \/ tpmTestFinished

Next ==
    \/ User \/ Events \/ KeyReplaced
    \/ \E outcome \in {"cancelled", "open failed", "commit failed", "committed"} :
          FileChosen(outcome)

Spec == Init /\ [][Next]_vars

-----------------------------------------------------------------------------
\* The two status lines say what happened.  "Exported" and "copied" stand for
\* the identity now in the file or on the clipboard, no failure is told as
\* success, and a passed TPM test used one key throughout, although every call
\* opened the key by name and it may have been replaced between them.
StatusTruthful ==
    /\ status.collection = "exported" => file = identity
    /\ status.collection = "copied" => clipboard = identity
    /\ status.collection \in {"collecting", "failed"} => ~has
    /\ status.tpmTest = "pass" => test.public # None /\ test.public = test.signed
=============================================================================
