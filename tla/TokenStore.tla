------------------------------- MODULE TokenStore -------------------------------
(***************************************************************************)
(* The saved login: the sealed refresh token in a file and its key in Safe *)
(* Memory (api_xbox/auth.rs), the sign-in with a device code that brings   *)
(* it, and the copies of MsalAuth that the app (app/entry.rs,              *)
(* connection.rs) and its request jobs hold.                               *)
(*                                                                         *)
(* The app's tasks share one thread: saving, loading and clearing a login  *)
(* run without another task in between, but the app may be killed between  *)
(* any two of their accesses to the file and to Safe Memory.  Each access  *)
(* may fail: what is removed may still be there afterwards, and a save may *)
(* be given up halfway.  A token is the account it belongs to: old ones    *)
(* stay valid.                                                             *)
(***************************************************************************)
EXTENDS Integers, FiniteSets

CONSTANTS
  Account,  \* the accounts that may sign in
  Key,      \* bound: the keys that may be generated
  Poll,     \* bound: provisioning polls whose jobs are under way at once
  None      \* no token, no key, no poll

ASSUME StoreAssumption ==
  /\ Account # {} /\ Cardinality(Key) > 2 /\ Poll # {}
  /\ None \notin Account \cup Key \cup Poll

File ==
  [form : {"none", "partial"}, account : {None}, key : {None}]
  \cup [form : {"plain"}, account : Account, key : {None}]
  \cup [form : {"sealed"}, account : Account, key : Key]
NoFile == [form |-> "none", account |-> None, key |-> None]
Sealed(account, key) == [form |-> "sealed", account |-> account, key |-> key]

VARIABLES
  file,      \* TOKEN_STORE_PATH
  record,    \* the key in Safe Memory; None without TOKEN_KEY_MAGIC
  io,        \* the access that comes next in a save, a load or a clear
  saving,    \* the token being saved, and the key it is sealed with
  leftover,  \* history: the file was to be removed, or its key replaced, and it is still there
  auth,      \* service.auth.refresh_token
  screen,    \* the app's state, as far as it matters to the login
  code,      \* the device code the app waits on, as the sign-in service has it
  clone,     \* the MsalAuth of the sign-in or credentials job
  polls,     \* those of the poll jobs, detached ones too
  current,   \* the poll_job of Connecting
  out,       \* history: the user has logged out and not signed in since
  orphans,   \* history: polls under way at a logout
  haunted,   \* history: such a poll saved its login after the logout
  kept       \* history: neither the file nor the key could be cleared at the logout

disk    == <<file, record, io, saving, leftover>>
app     == <<auth, screen, code, clone, current>>
history == <<out, orphans, haunted, kept>>
vars == <<disk, app, polls, history>>

NoSave == [account |-> None, key |-> None]
Idle   == io = "idle"
NoPoll == [at |-> "none", token |-> None]

\* A code is open until the user approves it, once the token was handed out redeemed.
Code ==
  [at : {"none", "open", "redeemed", "expired"}, account : {None}]
  \cup [at : {"approved"}, account : Account]
CodeAt(at) == [at |-> at, account |-> None]

Init ==
  /\ file \in File /\ file.form # "partial"
  /\ record \in Key \cup {None}
  /\ file.form = "sealed" => record = file.key
  /\ io = "load" /\ saving = NoSave /\ leftover = FALSE
  /\ auth = None /\ screen = "init" /\ clone = None /\ current = None
  /\ code = CodeAt("none")
  /\ polls = [p \in Poll |-> NoPoll]
  /\ out = FALSE /\ orphans = {} /\ haunted = FALSE /\ kept = FALSE
--------------------------------------------------------------------------------
(* The file and Safe Memory. *)

Save(account)  == io' = "key" /\ saving' = [account |-> account, key |-> None]
ClearSavedLogin == io' = "forget" /\ saving' = NoSave

\* load_or_create_token_key finds a key.
Loadable(key) == key = record /\ key # None
UseKey ==
  /\ io = "key"
  /\ \E key \in Key \cup {None} : Loadable(key) /\ saving' = [saving EXCEPT !.key = key]
  /\ io' = "replace"
  /\ UNCHANGED <<file, record, leftover, app, polls, history>>

\* It finds none, or Safe Memory cannot be read, and it makes one: if that cannot be
\* saved, nothing is.  The file of the key it replaces is still there.
CreateKeyUnsaved ==
  /\ io = "key"
  /\ \E key \in Key \ {record, file.key} :
       /\ record' \in {record, key}
       /\ io' = "replace" /\ saving' = [saving EXCEPT !.key = key]
  /\ leftover' = (file.form # "none")
  /\ UNCHANGED <<file, app, polls, history>>
CreateKey ==
  /\ io = "key"
  /\ \/ /\ \E key \in Key \ {record, file.key} :
             record' = key /\ io' = "replace" /\ saving' = [saving EXCEPT !.key = key]
        /\ leftover' = (file.form # "none")
     \/ io' = "idle" /\ saving' = NoSave /\ UNCHANGED <<record, leftover>>
  /\ UNCHANGED <<file, app, polls, history>>

\* With the key there, sealing the token or making the directory fails.
GiveUpSaving ==
  /\ io = "replace"
  /\ io' = "idle" /\ saving' = NoSave
  /\ UNCHANGED <<file, record, leftover, app, polls, history>>

\* remove_file, whose errors nobody looks at.
RemoveFile == file' \in {NoFile, file} /\ leftover' = (file'.form # "none")

\* write_file_truncating removes the file, and writes it anew.  A write that fails, or
\* does not truncate what could not be removed, leaves what is there or a part.
ReplaceFile ==
  /\ io = "replace"
  /\ RemoveFile /\ io' = "write"
  /\ UNCHANGED <<record, saving, app, polls, history>>
WriteFile ==
  /\ io = "write"
  /\ file' \in {file, [NoFile EXCEPT !.form = "partial"], Sealed(saving.account, saving.key)}
  /\ leftover' = (leftover /\ file' = file)
  /\ io' = "idle" /\ saving' = NoSave
  /\ UNCHANGED <<record, app, polls, history>>

\* The token the file holds can be loaded with that key.
Opens(content, key) ==
  content.form = "plain" \/ (content.form = "sealed" /\ content.key = key)

\* clear_saved_login: the file goes first, then the key, if each can be cleared.
ForgetFileFirst ==
  /\ io = "forget"
  /\ RemoveFile /\ io' = (IF file'.form = "none" THEN "clearKey" ELSE "idle")
  /\ UNCHANGED <<record, saving, app, polls, history>>
ForgetFile ==
  /\ io = "forget"
  /\ RemoveFile /\ io' = "clearKey"
  /\ UNCHANGED <<record, saving, app, polls, history>>
ClearTokenKey ==
  /\ io = "clearKey"
  /\ record' \in {record, None} /\ io' = "idle"
  /\ kept' = (kept \/ Opens(file, record'))
  /\ UNCHANGED <<file, saving, leftover, app, polls, out, orphans, haunted>>

\* MsalAuth::new: a sealed token that can be opened, or no file.
LoadSavedToken ==
  /\ io = "load" /\ file.form \in {"none", "sealed"}
  /\ file.form = "sealed" => file.key = record
  /\ auth' = file.account /\ io' = "idle" /\ leftover' = FALSE
  /\ UNCHANGED <<file, record, saving, screen, code, clone, current, polls, history>>
\* What cannot be read, parsed or opened, or has no key that can be read, is removed.
DiscardToken ==
  /\ io = "load" /\ file.form # "none"
  /\ RemoveFile /\ auth' = None /\ io' = "idle"
  /\ UNCHANGED <<record, saving, screen, code, clone, current, polls, history>>
\* A plaintext token of an older version is removed, then saved sealed.
MigrateToken ==
  /\ io = "load" /\ file.form = "plain"
  /\ auth' = file.account /\ RemoveFile
  /\ Save(file.account)
  /\ UNCHANGED <<record, screen, code, clone, current, polls, history>>

\* The app is closed or killed, whatever it does, and started again.  Killed before it
\* tries to remove the file, it has not logged out.
Restart ==
  /\ file' \in {file} \cup (IF io = "write" THEN {[NoFile EXCEPT !.form = "partial"]} ELSE {})
  /\ leftover' = (leftover /\ file' = file)
  /\ io' = "load" /\ saving' = NoSave
  /\ auth' = None /\ screen' = "init" /\ clone' = None /\ current' = None
  /\ code' = CodeAt("none")
  /\ polls' = [p \in Poll |-> NoPoll] /\ orphans' = {}
  /\ out' = (out /\ io # "forget")
  /\ kept' = (kept \/ (io = "clearKey" /\ Opens(file, record)))
  /\ UNCHANGED <<record, haunted>>
--------------------------------------------------------------------------------
(* Signing in. *)

\* InitializeAuthentication: a saved login is tried, else the user picks a language.
InitializeAuthentication ==
  /\ Idle /\ screen = "init"
  /\ IF auth # None THEN screen' = "credentials" ELSE screen' = "language"
  /\ clone' = auth
  /\ UNCHANGED <<disk, auth, code, current, polls, history>>

\* Continue: request_device_code.  Without a code the error screen leads to the menu.
RequestDeviceCode ==
  /\ Idle /\ screen = "language"
  /\ screen' = "requesting"
  /\ UNCHANGED <<disk, auth, code, clone, current, polls, history>>
PumpDeviceCodeRequest ==
  /\ Idle /\ screen = "requesting"
  /\ \/ screen' = "signin" /\ code' = CodeAt("open")
     \/ screen' = "error" /\ code' = code
  /\ UNCHANGED <<disk, auth, clone, current, polls, history>>

\* The user approves the code in a browser; it expires, approved or not.
ApproveCode(account) ==
  /\ code.at = "open"
  /\ code' = [at |-> "approved", account |-> account]
  /\ UNCHANGED <<disk, auth, screen, clone, current, polls, history>>
ExpireCode ==
  /\ code.at \in {"open", "approved", "redeemed"}
  /\ code' = CodeAt("expired")
  /\ UNCHANGED <<disk, auth, screen, clone, current, polls, history>>

\* poll_device_code, again and again until it is told of the approval: the job's copy is
\* saved.  Answers that are pending or errors change nothing.
DeviceAuthorized ==
  /\ Idle /\ screen = "signin" /\ clone = None /\ code.at = "approved"
  /\ clone' = code.account /\ Save(code.account)
  /\ code' = CodeAt("redeemed")
  /\ out' = FALSE /\ haunted' = FALSE /\ kept' = FALSE
  /\ UNCHANGED <<file, record, leftover, auth, screen, current, polls, orphans>>
\* The token is handed out, but the answer is lost or cannot be read: the job polls on.
AuthorizationLost ==
  /\ Idle /\ screen = "signin" /\ clone = None /\ code.at = "approved"
  /\ code' = CodeAt("redeemed")
  /\ UNCHANGED <<disk, auth, screen, clone, current, polls, history>>

\* The job gives the code up: by its own clock or by the answer it has expired.
GivesUpOnError == TRUE
GivesUp == code.at = "expired"
PumpDeviceAuthorization ==
  /\ Idle /\ screen = "signin"
  /\ \/ clone # None /\ auth' = clone /\ screen' = "credentials"
     \/ clone = None /\ GivesUp /\ auth' = auth /\ screen' = "requesting"
  /\ code' = CodeAt("none")
  /\ UNCHANGED <<disk, clone, current, polls, history>>

\* Back on an error screen: to sign in again, or to the menu.
LeaveError ==
  /\ Idle /\ screen \in {"retry", "error"}
  /\ IF screen = "retry" THEN screen' = "init" ELSE screen' = "menu"
  /\ UNCHANGED <<disk, auth, code, clone, current, polls, history>>

\* refresh_user_token of the credentials job, once for the credentials and once for the
\* profile: saved, or rejected with invalid_grant and cleared.
CredentialsRefreshed ==
  /\ Idle /\ screen \in {"credentials", "profile"} /\ clone # None
  /\ Save(clone) /\ screen' = "profile"
  /\ UNCHANGED <<file, record, leftover, auth, code, clone, current, polls, history>>
CredentialsRejected ==
  /\ Idle /\ screen \in {"credentials", "profile"} /\ clone # None
  /\ clone' = None /\ ClearSavedLogin
  /\ UNCHANGED <<file, record, leftover, auth, screen, code, current, polls, history>>

\* pump_credentials takes the job's copy back, whether or not it succeeded; a profile
\* that could not be fetched does not keep the user out.
PumpCredentials ==
  /\ Idle /\ screen \in {"credentials", "profile"}
  /\ auth' = clone /\ clone' = None
  /\ screen' \in {"retry"} \cup (IF screen = "profile" THEN {"menu"} ELSE {})
  /\ UNCHANGED <<disk, code, current, polls, history>>

\* Logging out, from a list or a paused stream.
Logout ==
  /\ Idle /\ screen = "menu"
  /\ auth' = None /\ ClearSavedLogin
  /\ screen' = "init"
  /\ out' = TRUE /\ haunted' = FALSE /\ kept' = FALSE
  /\ orphans' = {p \in Poll : polls[p].at # "none"}
  /\ UNCHANGED <<file, record, leftover, code, clone, current, polls>>
--------------------------------------------------------------------------------
(* Connecting: poll_provisioning with a copy of the login. *)

StartConnecting ==
  /\ Idle /\ screen = "menu"
  /\ screen' = "connecting"
  /\ UNCHANGED <<disk, auth, code, clone, current, polls, history>>

\* Every poll starts its own job (bound: Poll).
StartPoll(p) ==
  /\ Idle /\ screen = "connecting" /\ current = None /\ polls[p].at = "none"
  /\ polls' = [polls EXCEPT ![p] = [at |-> "refresh", token |-> auth]]
  /\ current' = p
  /\ UNCHANGED <<disk, auth, screen, code, clone, history>>

\* Nobody awaits the result of a detached job.
Finish(p, result) ==
  /\ polls' = [polls EXCEPT ![p] =
       IF current = p THEN [at |-> result, token |-> None] ELSE NoPoll]
  /\ orphans' = orphans \ {p}

\* refresh_user_token, if the session is ready: saved, or rejected and cleared.
PollRefreshed(p) ==
  /\ Idle /\ polls[p].at = "refresh" /\ polls[p].token # None
  /\ polls' = [polls EXCEPT ![p].at = "passport"]
  /\ Save(polls[p].token)
  /\ haunted' = (haunted \/ p \in orphans)
  /\ UNCHANGED <<file, record, leftover, app, out, orphans, kept>>
PollRejected(p) ==
  /\ Idle /\ polls[p].at = "refresh" /\ polls[p].token # None
  /\ Finish(p, "failed") /\ ClearSavedLogin
  /\ UNCHANGED <<file, record, leftover, app, out, haunted, kept>>
\* The job ends: not ready yet, the passport token sent on, or an error.
PollEnds(p) ==
  /\ Idle /\ polls[p].at \in {"refresh", "passport"}
  /\ \E result \in {"ok", "failed"} : Finish(p, result)
  /\ UNCHANGED <<disk, app, out, haunted, kept>>

\* handle_connecting_poll_result: after a success the login is loaded again, since the
\* job may have saved a newer token; the screen stays or goes on.
PumpPoll(p) ==
  /\ Idle /\ current = p /\ polls[p].at \in {"ok", "failed"}
  /\ IF polls[p].at = "ok" THEN io' = "load" ELSE io' = io
  /\ polls' = [polls EXCEPT ![p] = NoPoll] /\ current' = None
  /\ screen' \in {"connecting", "menu"}
  /\ UNCHANGED <<file, record, saving, leftover, auth, code, clone, history>>

\* Back detaches the poll: its job runs on with its copy.
CancelConnecting ==
  /\ Idle /\ screen = "connecting"
  /\ screen' = "menu" /\ current' = None
  /\ polls' = [p \in Poll |-> IF polls[p].at \in {"ok", "failed"} THEN NoPoll ELSE polls[p]]
  /\ UNCHANGED <<disk, auth, code, clone, history>>
--------------------------------------------------------------------------------
DiskStep ==
  UseKey \/ CreateKey \/ GiveUpSaving \/ ReplaceFile \/ WriteFile \/ ForgetFile \/ ClearTokenKey
  \/ LoadSavedToken \/ DiscardToken \/ MigrateToken
PollStep(p) ==
  StartPoll(p) \/ PollRefreshed(p) \/ PollRejected(p) \/ PollEnds(p) \/ PumpPoll(p)

Next ==
  \/ DiskStep \/ Restart
  \/ InitializeAuthentication \/ RequestDeviceCode \/ PumpDeviceCodeRequest
  \/ (\E a \in Account : ApproveCode(a)) \/ ExpireCode
  \/ DeviceAuthorized \/ AuthorizationLost \/ PumpDeviceAuthorization \/ LeaveError
  \/ CredentialsRefreshed \/ CredentialsRejected \/ PumpCredentials \/ Logout
  \/ StartConnecting \/ CancelConnecting \/ (\E p \in Poll : PollStep(p))

Spec == Init /\ [][Next]_vars
--------------------------------------------------------------------------------
TypeOK ==
  /\ file \in File /\ record \in Key \cup {None}
  /\ io \in {"idle", "key", "replace", "write", "forget", "clearKey", "load"}
  /\ saving \in [account : Account \cup {None}, key : Key \cup {None}]
  /\ auth \in Account \cup {None} /\ clone \in Account \cup {None}
  /\ screen \in {"init", "language", "requesting", "signin", "credentials", "profile",
                 "retry", "error", "menu", "connecting"}
  /\ code \in Code
  /\ polls \in [Poll -> [at : {"none", "refresh", "passport", "ok", "failed"},
                         token : Account \cup {None}]]
  /\ current \in Poll \cup {None}
  /\ out \in BOOLEAN /\ haunted \in BOOLEAN /\ orphans \subseteq Poll
  /\ leftover \in BOOLEAN /\ kept \in BOOLEAN

(* Whenever the app is killed, and whatever read, write or key fails: a login     *)
(* found saved while the app runs is sealed, and the key in Safe Memory is the    *)
(* one it was sealed with; no plaintext token of an older version is left, "even  *)
(* if Safe Memory is unavailable" (auth.rs MsalAuth::new, persist_refresh_token,  *)
(* clear_saved_login).  The exception is a file that outlived its removal, whose  *)
(* errors the code ignores, or outlived its key, when a save gave up after making *)
(* a new one.                                                                     *)
SavedLoginReadable ==
  Idle /\ ~leftover => file.form # "plain" /\ (file.form = "sealed" => file.key = record)

(* After logging out no login is held and none is saved that could be opened,     *)
(* also after restarts and when the file or the key could not be cleared, but for *)
(* two things: neither of them could, or the app was killed in between; or a poll *)
(* under way at the logout saved its copy afterwards (service.rs logout, auth.rs  *)
(* clear_saved_login, connection.rs).                                             *)
LogoutForgets ==
  out /\ Idle /\ ~haunted /\ ~kept => ~Opens(file, record) /\ auth = None

(* A code that the user has approved counts until it expires or its token is      *)
(* handed out: no failed poll makes the app throw it away and show another one,   *)
(* only closing the app does (entry.rs spawn_device_authorization_poll, auth.rs   *)
(* poll_device_code).                                                             *)
ApprovalCounts ==
  [][code.at = "approved" /\ code' # code =>
       code'.at \in {"redeemed", "expired"} \/ screen' = "init"]_vars
================================================================================
