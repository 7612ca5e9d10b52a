--------------------------- MODULE TokenStore_proofs ---------------------------
(***************************************************************************)
(* Proofs about TokenStore, for any accounts, keys and polls: type         *)
(* correctness, and the three promises about the saved login.  The         *)
(* inductive invariant says what each access to the file or to Safe Memory *)
(* leaves for the next one, and who may still hold a token after a logout. *)
(***************************************************************************)
EXTENDS TokenStore, TLAPS

Storing == io \in {"key", "replace", "write"}

\* A save has a token; once it has chosen the key, that is the one in Safe Memory.
SavesUnderRecord ==
  /\ Storing => saving.account \in Account
  /\ io \in {"replace", "write"} => saving.key = record /\ record # None

\* A file that cannot be read outlived its removal or its key; a write or the clearing
\* of the key finds no other file.
ReadableOrLeft ==
  /\ file.form = "sealed" /\ file.key # record => leftover
  /\ io \in {"write", "clearKey"} /\ file.form # "none" => leftover

PlaintextOnlyAtLoad == file.form = "plain" /\ ~leftover => io = "load"

\* After a logout only the polls under way at it hold a token; nothing is being saved,
\* and the file is not loadable once the clearing is over.
Forgotten == out /\ ~haunted /\ ~kept
OnlyOrphansHoldTokens ==
  Forgotten =>
    /\ auth = None /\ clone = None /\ ~Storing
    /\ Opens(file, record) => io \in {"forget", "clearKey"}
    /\ \A p \in Poll : p \notin orphans => polls[p].token = None

\* Only the jobs of the screen that is shown have a copy, and the jobs under way.
CopyOnlyWhileSigningIn ==
  /\ screen \notin {"signin", "credentials", "profile"} => clone = None
  /\ code.at \in {"open", "approved"} => screen = "signin" /\ clone = None
  /\ current # None => screen = "connecting"
  /\ \A p \in Poll : polls[p].at = "none" => polls[p].token = None

StoreInv ==
  /\ TypeOK /\ SavesUnderRecord /\ ReadableOrLeft /\ PlaintextOnlyAtLoad
  /\ OnlyOrphansHoldTokens /\ CopyOnlyWhileSigningIn
--------------------------------------------------------------------------------
(* What the contents of the file say of its account and key. *)
LEMMA FileFields ==
  ASSUME NEW f \in File
  PROVE  /\ f.form \in {"none", "partial", "plain", "sealed"}
         /\ f.form \in {"none", "partial"} => f.account = None
         /\ f.form \in {"plain", "sealed"} => f.account \in Account
         /\ f.form = "sealed" => f.key \in Key
  BY DEF File

(* What a write may leave is a file. *)
LEMMA WrittenFile ==
  ASSUME NEW a \in Account, NEW k \in Key
  PROVE  {[NoFile EXCEPT !.form = "partial"], Sealed(a, k)} \subseteq File
  BY DEF NoFile, File, Sealed

(* The invariant holds initially. *)
LEMMA StoreInvInit == Init => StoreInv
  <1>. SUFFICES ASSUME Init PROVE StoreInv
    OBVIOUS
  <1>1. file.form \in {"none", "plain", "sealed"}
    BY FileFields DEF Init
  <1>2. TypeOK
    BY DEF Init, TypeOK, NoSave, NoPoll, Code, CodeAt
  <1>. QED
    BY <1>1, <1>2 DEF Init, NoPoll, NoSave, CodeAt, StoreInv, SavesUnderRecord, Storing,
      ReadableOrLeft,
      PlaintextOnlyAtLoad, OnlyOrphansHoldTokens, Forgotten, Opens, CopyOnlyWhileSigningIn

(* Every step keeps it: the accesses to the disk, *)
LEMMA StoreInvStep == StoreInv /\ [Next]_vars => StoreInv'
  <1>. SUFFICES ASSUME StoreInv, [Next]_vars PROVE StoreInv'
    OBVIOUS
  <1>. USE DEF disk, app, history, Idle
  <1>0. /\ NoFile.form = "none" /\ NoFile.account = None
        /\ NoFile \in File /\ [NoFile EXCEPT !.form = "partial"] \in File
        /\ [NoFile EXCEPT !.form = "partial"].form = "partial"
    BY DEF NoFile, File
  <1>f. file \in File
    BY DEF StoreInv, TypeOK
  <1>c. /\ \A at \in {"none", "open", "redeemed", "expired"} :
             CodeAt(at) \in Code /\ CodeAt(at).at = at
        /\ \A a \in Account : [at |-> "approved", account |-> a] \in Code
        /\ code.at = "approved" => code.account \in Account
    BY DEF StoreInv, TypeOK, Code, CodeAt
  <1>l. /\ file.form \in {"none", "partial", "plain", "sealed"}
        /\ file.form \in {"none", "partial"} => file.account = None
        /\ file.form \in {"plain", "sealed"} => file.account \in Account
    BY <1>f, FileFields
  <1>r. ASSUME RemoveFile
        PROVE  /\ file' \in File /\ leftover' \in BOOLEAN
               /\ file' = file \/ file'.form = "none"
               /\ file'.form # "none" => leftover'
    BY <1>0, <1>f, <1>r DEF RemoveFile
  <1>1. CASE UseKey
    BY <1>0, <1>1 DEF UseKey, Loadable, StoreInv, TypeOK, SavesUnderRecord, Storing,
      ReadableOrLeft, PlaintextOnlyAtLoad,
      OnlyOrphansHoldTokens, Forgotten, Opens, CopyOnlyWhileSigningIn
  <1>2. CASE CreateKey
    <2>1. TypeOK'
      <3>1. CASE \E key \in Key \ {record, file.key} :
                   record' = key /\ io' = "replace" /\ saving' = [saving EXCEPT !.key = key]
        BY <1>0, <1>2, <3>1, StoreAssumption DEF CreateKey, StoreInv, TypeOK
      <3>2. CASE UNCHANGED <<record, leftover>> /\ io' = "idle" /\ saving' = NoSave
        BY <1>0, <1>2, <3>2 DEF CreateKey, NoSave, StoreInv, TypeOK
      <3>. QED
        BY <1>2, <3>1, <3>2 DEF CreateKey
    <2>2. SavesUnderRecord' /\ ReadableOrLeft' /\ PlaintextOnlyAtLoad'
      BY <1>0, <1>2, StoreAssumption DEF CreateKey, NoSave, StoreInv, TypeOK,
        SavesUnderRecord, Storing, ReadableOrLeft,
        PlaintextOnlyAtLoad
    <2>3. OnlyOrphansHoldTokens' /\ CopyOnlyWhileSigningIn'
      BY <1>0, <1>2, StoreAssumption DEF CreateKey, NoSave, StoreInv, TypeOK,
        Storing, OnlyOrphansHoldTokens, Forgotten, Opens,
        CopyOnlyWhileSigningIn, ReadableOrLeft
    <2>. QED
      BY <2>1, <2>2, <2>3 DEF StoreInv
  <1>3. CASE ReplaceFile
    BY <1>0, <1>r, <1>3 DEF ReplaceFile, StoreInv, TypeOK, SavesUnderRecord,
      Storing, ReadableOrLeft, PlaintextOnlyAtLoad,
      OnlyOrphansHoldTokens, Forgotten, Opens, CopyOnlyWhileSigningIn
  <1>4. CASE WriteFile
    <2>0. saving.account \in Account /\ saving.key \in Key /\ saving.key = record
      BY <1>4 DEF WriteFile, StoreInv, TypeOK, SavesUnderRecord, Storing
    <2>1. file' \in File
      BY <1>f, <1>4, <2>0, WrittenFile DEF WriteFile
    <2>2. TypeOK'
      BY <1>4, <2>1 DEF WriteFile, NoSave, StoreInv, TypeOK
    <2>3. CASE file' = file
      BY <1>4, <2>2, <2>3 DEF WriteFile, StoreInv, SavesUnderRecord, Storing,
        ReadableOrLeft, PlaintextOnlyAtLoad, OnlyOrphansHoldTokens, Forgotten, Opens,
        CopyOnlyWhileSigningIn
    <2>4. CASE file' # file
      <3>1. file'.form # "plain" /\ (file'.form = "sealed" => file'.key = record)
        <4>1. file' \in {[NoFile EXCEPT !.form = "partial"], Sealed(saving.account, saving.key)}
          BY <1>4, <2>4 DEF WriteFile
        <4>2. /\ Sealed(saving.account, saving.key).form = "sealed"
              /\ Sealed(saving.account, saving.key).key = saving.key
          BY DEF Sealed
        <4>3. record' = record
          BY <1>4 DEF WriteFile
        <4>. QED
          BY <1>0, <2>0, <4>1, <4>2, <4>3
      <3>. QED
        BY <1>4, <2>2, <3>1 DEF WriteFile, StoreInv, SavesUnderRecord, Storing,
          ReadableOrLeft, PlaintextOnlyAtLoad, OnlyOrphansHoldTokens, Forgotten, Opens,
          CopyOnlyWhileSigningIn
    <2>. QED
      BY <2>3, <2>4
  <1>5. CASE ForgetFile
    BY <1>0, <1>r, <1>5 DEF ForgetFile, StoreInv, TypeOK, SavesUnderRecord,
      Storing, ReadableOrLeft, PlaintextOnlyAtLoad,
      OnlyOrphansHoldTokens, Forgotten, Opens, CopyOnlyWhileSigningIn
  <1>6. CASE ClearTokenKey
    BY <1>0, <1>6 DEF ClearTokenKey, StoreInv, TypeOK, SavesUnderRecord, Storing,
      ReadableOrLeft, PlaintextOnlyAtLoad,
      OnlyOrphansHoldTokens, Forgotten, Opens, CopyOnlyWhileSigningIn
  <1>7. CASE LoadSavedToken
    <2>1. TypeOK'
      BY <1>0, <1>l, <1>7 DEF LoadSavedToken, StoreInv, TypeOK
    <2>2. SavesUnderRecord' /\ ReadableOrLeft' /\ PlaintextOnlyAtLoad'
      BY <1>0, <1>l, <1>7 DEF LoadSavedToken, StoreInv, TypeOK, SavesUnderRecord,
        Storing, ReadableOrLeft,
        PlaintextOnlyAtLoad
    <2>3. OnlyOrphansHoldTokens' /\ CopyOnlyWhileSigningIn'
      BY <1>0, <1>l, <1>7 DEF LoadSavedToken, StoreInv, TypeOK, Storing,
        OnlyOrphansHoldTokens, Forgotten, Opens,
        CopyOnlyWhileSigningIn, ReadableOrLeft
    <2>. QED
      BY <2>1, <2>2, <2>3 DEF StoreInv
  <1>8. CASE DiscardToken
    BY <1>0, <1>r, <1>8 DEF DiscardToken, StoreInv, TypeOK, SavesUnderRecord,
      Storing, ReadableOrLeft, PlaintextOnlyAtLoad,
      OnlyOrphansHoldTokens, Forgotten, Opens, CopyOnlyWhileSigningIn
  <1>9. CASE MigrateToken
    <2>1. TypeOK'
      BY <1>0, <1>l, <1>r, <1>9 DEF MigrateToken, Save, StoreInv, TypeOK
    <2>2. SavesUnderRecord' /\ ReadableOrLeft' /\ PlaintextOnlyAtLoad'
      BY <1>0, <1>l, <1>r, <1>9 DEF MigrateToken, Save, StoreInv, TypeOK,
        SavesUnderRecord, Storing, ReadableOrLeft,
        PlaintextOnlyAtLoad
    <2>3. OnlyOrphansHoldTokens' /\ CopyOnlyWhileSigningIn'
      BY <1>0, <1>l, <1>r, <1>9 DEF MigrateToken, Save, StoreInv, TypeOK, Storing,
        OnlyOrphansHoldTokens, Forgotten, Opens,
        CopyOnlyWhileSigningIn, ReadableOrLeft
    <2>. QED
      BY <2>1, <2>2, <2>3 DEF StoreInv
  <1>10. CASE Restart
    <2>0. file' \in File /\ (io # "write" => file' = file)
      BY <1>0, <1>f, <1>10 DEF Restart
    <2>1. TypeOK'
      BY <1>10, <1>c, <2>0 DEF Restart, NoFile, NoSave, NoPoll, StoreInv, TypeOK
    <2>2. SavesUnderRecord' /\ ReadableOrLeft' /\ PlaintextOnlyAtLoad'
      BY <1>0, <1>c, <1>10 DEF Restart, NoFile, NoSave, NoPoll, StoreInv, TypeOK,
        SavesUnderRecord, Storing, ReadableOrLeft,
        PlaintextOnlyAtLoad
    <2>3. OnlyOrphansHoldTokens' /\ CopyOnlyWhileSigningIn'
      BY <1>0, <1>c, <1>10 DEF Restart, NoFile, NoSave, NoPoll, StoreInv, TypeOK, Storing,
        OnlyOrphansHoldTokens, Forgotten, Opens,
        CopyOnlyWhileSigningIn, ReadableOrLeft
    <2>. QED
      BY <2>1, <2>2, <2>3 DEF StoreInv
  <1>11. CASE InitializeAuthentication
    BY <1>0, <1>11 DEF InitializeAuthentication, StoreInv, TypeOK, SavesUnderRecord,
      Storing, ReadableOrLeft, PlaintextOnlyAtLoad,
      OnlyOrphansHoldTokens, Forgotten, Opens, CopyOnlyWhileSigningIn
  <1>12. CASE DeviceAuthorized
    BY <1>0, <1>c, <1>12 DEF CodeAt, Code, DeviceAuthorized, Save, StoreInv, TypeOK, SavesUnderRecord,
      Storing, ReadableOrLeft, PlaintextOnlyAtLoad,
      OnlyOrphansHoldTokens, Forgotten, Opens, CopyOnlyWhileSigningIn
  <1>13. CASE PumpDeviceAuthorization
    BY <1>0, <1>c, <1>13 DEF PumpDeviceAuthorization, StoreInv, TypeOK, SavesUnderRecord,
      Storing, ReadableOrLeft, PlaintextOnlyAtLoad,
      OnlyOrphansHoldTokens, Forgotten, Opens, CopyOnlyWhileSigningIn
  <1>14. CASE CredentialsRefreshed
    BY <1>0, <1>14 DEF CredentialsRefreshed, Save, StoreInv, TypeOK,
      SavesUnderRecord, Storing, ReadableOrLeft, PlaintextOnlyAtLoad,
      OnlyOrphansHoldTokens, Forgotten, Opens, CopyOnlyWhileSigningIn
  <1>15. CASE CredentialsRejected
    BY <1>0, <1>15 DEF CredentialsRejected, ClearSavedLogin, NoSave, StoreInv,
      TypeOK, SavesUnderRecord, Storing, ReadableOrLeft, PlaintextOnlyAtLoad,
      OnlyOrphansHoldTokens, Forgotten, Opens, CopyOnlyWhileSigningIn
  <1>16. CASE PumpCredentials
    BY <1>0, <1>16 DEF PumpCredentials, StoreInv, TypeOK, SavesUnderRecord, Storing,
      ReadableOrLeft, PlaintextOnlyAtLoad,
      OnlyOrphansHoldTokens, Forgotten, Opens, CopyOnlyWhileSigningIn
  <1>17. CASE Logout
    <2>1. TypeOK'
      BY <1>0, <1>17 DEF Logout, ClearSavedLogin, NoSave, StoreInv, TypeOK
    <2>2. SavesUnderRecord' /\ ReadableOrLeft' /\ PlaintextOnlyAtLoad'
      BY <1>0, <1>17 DEF Logout, ClearSavedLogin, NoSave, StoreInv, TypeOK,
        SavesUnderRecord, Storing, ReadableOrLeft,
        PlaintextOnlyAtLoad
    <2>3. OnlyOrphansHoldTokens' /\ CopyOnlyWhileSigningIn'
      BY <1>0, <1>17 DEF Logout, ClearSavedLogin, NoSave, StoreInv, TypeOK, Storing,
        OnlyOrphansHoldTokens, Forgotten, Opens,
        CopyOnlyWhileSigningIn, ReadableOrLeft
    <2>. QED
      BY <2>1, <2>2, <2>3 DEF StoreInv
  <1>18. CASE StartConnecting
    BY <1>0, <1>18 DEF StartConnecting, StoreInv, TypeOK, SavesUnderRecord, Storing,
      ReadableOrLeft, PlaintextOnlyAtLoad,
      OnlyOrphansHoldTokens, Forgotten, Opens, CopyOnlyWhileSigningIn
  <1>19. CASE CancelConnecting
    BY <1>0, <1>19 DEF CancelConnecting, NoPoll, StoreInv, TypeOK, SavesUnderRecord,
      Storing, ReadableOrLeft, PlaintextOnlyAtLoad,
      OnlyOrphansHoldTokens, Forgotten, Opens, CopyOnlyWhileSigningIn
  <1>20. ASSUME NEW p \in Poll, StartPoll(p) PROVE StoreInv'
    BY <1>0, <1>20 DEF StartPoll, StoreInv, TypeOK, SavesUnderRecord, Storing,
      ReadableOrLeft, PlaintextOnlyAtLoad,
      OnlyOrphansHoldTokens, Forgotten, Opens, CopyOnlyWhileSigningIn
  <1>21. ASSUME NEW p \in Poll, PollRefreshed(p) PROVE StoreInv'
    BY <1>0, <1>21 DEF PollRefreshed, Save, StoreInv, TypeOK, SavesUnderRecord,
      Storing, ReadableOrLeft, PlaintextOnlyAtLoad,
      OnlyOrphansHoldTokens, Forgotten, Opens, CopyOnlyWhileSigningIn
  <1>22. ASSUME NEW p \in Poll, PollRejected(p) PROVE StoreInv'
    BY <1>0, <1>22 DEF PollRejected, ClearSavedLogin, NoSave, Finish, NoPoll,
      StoreInv, TypeOK, SavesUnderRecord, Storing, ReadableOrLeft,
      PlaintextOnlyAtLoad,
      OnlyOrphansHoldTokens, Forgotten, Opens, CopyOnlyWhileSigningIn
  <1>23. ASSUME NEW p \in Poll, PollEnds(p) PROVE StoreInv'
    BY <1>0, <1>23 DEF PollEnds, Finish, NoPoll, StoreInv, TypeOK, SavesUnderRecord,
      Storing, ReadableOrLeft, PlaintextOnlyAtLoad,
      OnlyOrphansHoldTokens, Forgotten, Opens, CopyOnlyWhileSigningIn
  <1>24. ASSUME NEW p \in Poll, PumpPoll(p) PROVE StoreInv'
    <2>1. TypeOK'
      BY <1>0, <1>24 DEF PumpPoll, NoPoll, StoreInv, TypeOK
    <2>2. SavesUnderRecord' /\ ReadableOrLeft' /\ PlaintextOnlyAtLoad'
      BY <1>0, <1>24 DEF PumpPoll, NoPoll, StoreInv, TypeOK, SavesUnderRecord,
        Storing, ReadableOrLeft,
        PlaintextOnlyAtLoad
    <2>3. OnlyOrphansHoldTokens' /\ CopyOnlyWhileSigningIn'
      BY <1>0, <1>24, StoreAssumption DEF PumpPoll, NoPoll, StoreInv, TypeOK,
        Storing, OnlyOrphansHoldTokens, Forgotten, Opens,
        CopyOnlyWhileSigningIn, ReadableOrLeft
    <2>. QED
      BY <2>1, <2>2, <2>3 DEF StoreInv
  <1>26. CASE RequestDeviceCode
    BY <1>0, <1>c, <1>26 DEF RequestDeviceCode, StoreInv, TypeOK, SavesUnderRecord, Storing,
      ReadableOrLeft, PlaintextOnlyAtLoad,
      OnlyOrphansHoldTokens, Forgotten, Opens, CopyOnlyWhileSigningIn
  <1>27. CASE PumpDeviceCodeRequest
    BY <1>0, <1>c, <1>27 DEF PumpDeviceCodeRequest, StoreInv, TypeOK, SavesUnderRecord, Storing,
      ReadableOrLeft, PlaintextOnlyAtLoad,
      OnlyOrphansHoldTokens, Forgotten, Opens, CopyOnlyWhileSigningIn
  <1>28. CASE ExpireCode
    BY <1>0, <1>c, <1>28 DEF ExpireCode, StoreInv, TypeOK, SavesUnderRecord, Storing,
      ReadableOrLeft, PlaintextOnlyAtLoad,
      OnlyOrphansHoldTokens, Forgotten, Opens, CopyOnlyWhileSigningIn
  <1>29. CASE AuthorizationLost
    BY <1>0, <1>c, <1>29 DEF AuthorizationLost, StoreInv, TypeOK, SavesUnderRecord, Storing,
      ReadableOrLeft, PlaintextOnlyAtLoad,
      OnlyOrphansHoldTokens, Forgotten, Opens, CopyOnlyWhileSigningIn
  <1>30. CASE LeaveError
    BY <1>0, <1>c, <1>30 DEF LeaveError, StoreInv, TypeOK, SavesUnderRecord, Storing,
      ReadableOrLeft, PlaintextOnlyAtLoad,
      OnlyOrphansHoldTokens, Forgotten, Opens, CopyOnlyWhileSigningIn
  <1>31. ASSUME NEW a \in Account, ApproveCode(a) PROVE StoreInv'
    BY <1>0, <1>c, <1>31 DEF ApproveCode, StoreInv, TypeOK, SavesUnderRecord, Storing,
      ReadableOrLeft, PlaintextOnlyAtLoad,
      OnlyOrphansHoldTokens, Forgotten, Opens, CopyOnlyWhileSigningIn
  <1>32. CASE GiveUpSaving
    BY <1>32 DEF GiveUpSaving, NoSave, StoreInv, TypeOK, SavesUnderRecord, Storing,
      ReadableOrLeft, PlaintextOnlyAtLoad,
      OnlyOrphansHoldTokens, Forgotten, Opens, CopyOnlyWhileSigningIn
  <1>25. CASE UNCHANGED vars
    BY <1>25 DEF vars, StoreInv, TypeOK, SavesUnderRecord, Storing, ReadableOrLeft,
      PlaintextOnlyAtLoad,
      OnlyOrphansHoldTokens, Forgotten, Opens, CopyOnlyWhileSigningIn
  <1>. QED
    BY <1>1, <1>2, <1>3, <1>4, <1>5, <1>6, <1>7, <1>8, <1>9, <1>10, <1>11, <1>12,
      <1>13, <1>14, <1>15, <1>16, <1>17, <1>18, <1>19, <1>20, <1>21, <1>22, <1>23,
      <1>24, <1>25, <1>26, <1>27, <1>28, <1>29, <1>30, <1>31, <1>32 DEF Next, DiskStep, PollStep

(* In every state what is left for the next access, and who holds a token, is as  *)
(* the invariant says (auth.rs, entry.rs, connection.rs).                         *)
THEOREM StoreInvHolds == Spec => []StoreInv
  BY StoreInvInit, StoreInvStep, PTL DEF Spec

-------------------------------------------------------------------------------
(* The state stays within its types: the file is absent, a part of one, a token    *)
(* in plaintext or one sealed for an account with one key (auth.rs StoredTokenData).*)
THEOREM TypeCorrect == Spec => []TypeOK
  <1>1. StoreInv => TypeOK
    BY DEF StoreInv
  <1>. QED
    BY <1>1, StoreInvHolds, PTL

(* Whatever key, read or write fails, and whenever the app is killed, a login      *)
(* found saved while the app runs is sealed with the key in Safe Memory, and no    *)
(* plaintext token is left once the app has started; but for a file that could not *)
(* be removed, or whose key a save replaced before it gave up (auth.rs             *)
(* persist_refresh_token, clear_saved_login, MsalAuth::new).                       *)
THEOREM SavedLoginStaysReadable == Spec => []SavedLoginReadable
  <1>1. StoreInv => SavedLoginReadable
    BY DEF StoreInv, ReadableOrLeft, PlaintextOnlyAtLoad, SavedLoginReadable, Idle
  <1>. QED
    BY <1>1, StoreInvHolds, PTL

(* After a logout no login is held and none saved that could be opened, also after *)
(* restarts, unless neither the file nor the key could be cleared, or a poll under *)
(* way at the logout saved its own copy (service.rs logout, auth.rs                *)
(* clear_saved_login, connection.rs).                                              *)
THEOREM LogoutKeepsForgetting == Spec => []LogoutForgets
  <1>1. StoreInv => LogoutForgets
    BY DEF StoreInv, OnlyOrphansHoldTokens, Forgotten, Opens, LogoutForgets, Idle
  <1>. QED
    BY <1>1, StoreInvHolds, PTL

(* With any accounts and polls, a code the user has approved is dropped only when *)
(* it expires, its token is handed out, or the app is closed (entry.rs).          *)
THEOREM ApprovalsCount == Spec => ApprovalCounts
  <1>1. ASSUME StoreInv, [Next]_vars, code.at = "approved", code' # code
        PROVE  code'.at \in {"redeemed", "expired"} \/ screen' = "init"
    <2>1. CASE UNCHANGED vars
      BY <1>1, <2>1 DEF vars, app
    <2>2. CASE DiskStep
      BY <1>1, <2>2 DEF DiskStep, UseKey, CreateKey, GiveUpSaving, ReplaceFile, WriteFile, ForgetFile,
        ClearTokenKey, LoadSavedToken, DiscardToken, MigrateToken, app
    <2>3. CASE Restart
      BY <2>3 DEF Restart
    <2>4. CASE ExpireCode \/ DeviceAuthorized \/ AuthorizationLost
      BY <2>4 DEF ExpireCode, DeviceAuthorized, AuthorizationLost, CodeAt
    <2>5. CASE PumpDeviceAuthorization
      BY <1>1, <2>5 DEF PumpDeviceAuthorization, GivesUp, StoreInv, CopyOnlyWhileSigningIn
    <2>6. CASE \E a \in Account : ApproveCode(a)
      BY <1>1, <2>6 DEF ApproveCode
    <2>7. CASE \/ InitializeAuthentication \/ RequestDeviceCode \/ PumpDeviceCodeRequest
               \/ LeaveError \/ CredentialsRefreshed \/ CredentialsRejected
               \/ PumpCredentials \/ Logout \/ StartConnecting \/ CancelConnecting
      BY <1>1, <2>7 DEF InitializeAuthentication, RequestDeviceCode, PumpDeviceCodeRequest,
        LeaveError, CredentialsRefreshed, CredentialsRejected, PumpCredentials, Logout,
        StartConnecting, CancelConnecting, StoreInv, CopyOnlyWhileSigningIn
    <2>8. CASE \E p \in Poll : PollStep(p)
      BY <1>1, <2>8 DEF PollStep, StartPoll, PollRefreshed, PollRejected, PollEnds, PumpPoll, app
    <2>. QED
      BY <1>1, <2>1, <2>2, <2>3, <2>4, <2>5, <2>6, <2>7, <2>8 DEF Next
  <1>. QED
    BY <1>1, StoreInvHolds, PTL DEF ApprovalCounts, Spec
================================================================================
