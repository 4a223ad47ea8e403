----------------------------- MODULE SecureMode -----------------------------
(***************************************************************************)
(* Secure mode (secure.c, and the fields of input.c): a user signs in, or  *)
(* sets a password, in a window that the UI domain shows, while the daemon *)
(* keeps the keys for itself and collects what is typed.  Hashes of the    *)
(* password are left in files for the scripts and for the backend that     *)
(* talks to the server of a remote user; the backend answers some time     *)
(* later over D-Bus.  The UI domain shows and closes the window on its     *)
(* own, other clients set contexts and switch the screen meanwhile, and a  *)
(* timer brings a locked screen back.                                      *)
(*                                                                         *)
(* Of a typed password the model knows whether it is empty; whether two    *)
(* passwords agree is left open.  The UI domain is running throughout.     *)
(***************************************************************************)
EXTENDS Integers, SequencesExt

CONSTANTS
    Users,             \* user names
    Contexts,          \* the contexts that clients set
    RemoteStatuses,    \* the answers of the backend
    MaxLogins          \* bound: logins the backend works on for one user

NoContext == [user |-> "", kind |-> "none", lock |-> FALSE, confirm |-> FALSE,
              cannot_cancel |-> FALSE]
Kinds == {"local", "remote", "set_local", "change_local", "root"}
NoUser == ""

LocalUser == "local"      \* the one user that can be removed

\* kind stands for the flags REMOTE_USER, SET_LOCAL_PW, CHANGE_LOCAL_PW and
\* SET_ROOT_PW, of which a context has at most one.
Context == [user : Users \cup {NoUser}, kind : Kinds, lock : BOOLEAN,
            confirm : BOOLEAN, cannot_cancel : BOOLEAN]

\* What auth_status makes of the answers that end an attempt at once.
RemoteStatus ==
    [USERID_MISMATCH |-> "internal_error", NOT_LOGGED_IN |-> "internal_error",
     NOT_DEVICE_OWNER |-> "not_device_owner",
     BAD_USER_OR_PASSWORD |-> "need_credentials",
     PASSWORD_EXPIRED |-> "need_credentials", ACCOUNT_LOCKED |-> "need_credentials",
     ACCOUNT_DISABLED |-> "need_credentials", NEED_CREDENTIALS |-> "need_credentials",
     NO_RECOVERY_KEY |-> "no_recovery_key",
     INVALID_REGISTRATION_PIN |-> "invalid_registration_pin",
     ALREADY_REGISTERED |-> "already_registered",
     SYNCHRONIZER_UID_MISMATCH |-> "synchronizer_uid_mismatch",
     DEVICE_CERT_RENEW_NO_EFFECT |-> "device_cert_renew_no_effect",
     SSL_CACERT_ERROR |-> "ssl_cacert_error", IN_PROGRESS |-> "in_progress"]

\* The answers after which the local password decides.
Unreachable == {"NOT_REGISTERED", "HTTP_ERROR", "NETWORK_ERROR", "OFFLINE", "INTERNAL_ERROR"}

ASSUME SecureAssumption ==
    /\ NoUser \notin Users
    /\ Contexts \subseteq Context
    /\ RemoteStatuses \subseteq DOMAIN RemoteStatus \cup Unreachable \cup {"OK"}
    /\ MaxLogins \in Nat

Fields == {"username", "password", "confirm", "previous"}

\* Of a failure the model keeps that it is one.
Statuses == {"none", "ok", "user_cancel", "in_progress", "failed"}

VARIABLES
    auth,        \* g_auth_context, g_auth_status, input_dev, the database and the
                 \* hash files
    screen,      \* whom the screen shows: "uivm", "guest", or "bare", a PVM
                 \* without tools
    backend      \* what the backend was asked to do, and history

secure_vars == <<auth, screen, backend>>

\* window is the xenstore node login/state: "3" is what the UI domain writes
\* when it has closed the window, "0" the daemon's request to close it.  text
\* is the set of passwords that are not empty.
AuthState ==
    [ctx : Context \cup {NoContext}, status : Statuses,
     secure : BOOLEAN, collect : BOOLEAN, window : {"0", "1", "3"},
     name : Users \cup {NoUser}, text : SUBSET {"password", "confirm", "previous"},
     field : Fields, files : SUBSET ({"local", "remote"} \X Users),
     revert : BOOLEAN,                      \* revert_to_auth_event is set
     platform : Context \cup {NoContext}]   \* the user and the flags in the database

\* awaits: logins and recoveries the backend has been asked for; auto: it started
\* one by itself.  History: leaked, the hash files left by a write that failed.
Backend == [awaits : [Users -> 0..MaxLogins], auto : BOOLEAN,
            leaked : SUBSET ({"local", "remote"} \X Users)]

-----------------------------------------------------------------------------
(* The fields of the window (input.c).                                     *)

tab_order(ctx) ==
    CASE ctx.kind = "change_local" -> <<"previous", "password", "confirm">>
      [] ctx.kind # "change_local" /\ ctx.confirm -> <<"password", "confirm">>
      [] ctx.kind = "remote" /\ ~ctx.confirm -> <<"password", "username">>
      [] OTHER -> <<"password">>

\* The position of a field in the order, or of the first one if it has none.
auth_get_field_tabindex(ctx, f) ==
    LET order == tab_order(ctx)
    IN  IF f \in ToSet(order) THEN CHOOSE i \in DOMAIN order : order[i] = f ELSE 1

auth_tab(s, direction) ==
    IF s.ctx = NoContext THEN s
    ELSE LET len == Len(tab_order(s.ctx))
             next == (auth_get_field_tabindex(s.ctx, s.field) - 1 + direction) % len
         IN  [s EXCEPT !.field = tab_order(s.ctx)[next + 1]]

auth_figure_initial_focus(ctx) ==
    CASE ctx.kind = "change_local" -> "previous"
      [] ctx.kind = "set_local" -> "password"
      [] ctx.kind \notin {"change_local", "set_local"} /\ (ctx.confirm \/ ctx.kind = "root") ->
           "password"
      [] OTHER -> IF ctx.user = NoUser THEN "username" ELSE "password"

\* A field after its last character has been chopped off, and with one more.
auth_backspace(s) ==
    IF s.field = "username"
      THEN {[s EXCEPT !.name = n] : n \in IF s.name = NoUser THEN {NoUser} ELSE Users \cup {NoUser}}
      ELSE {s, [s EXCEPT !.text = @ \ {s.field}]}

auth_collect_key(s) ==
    CASE ~s.collect -> {s}
      [] s.collect /\ s.field = "username" -> {[s EXCEPT !.name = n] : n \in Users}
      [] OTHER -> {[s EXCEPT !.text = @ \cup {s.field}]}

\* Mutant: the check for a context comes first.
ClearWithContext(s) ==
    IF s.ctx = NoContext THEN s
    ELSE [s EXCEPT !.text = {}, !.name = s.ctx.user, !.field = auth_figure_initial_focus(s.ctx)]

\* The user name of a context is put in its field.
input_clear_passwd(s) ==
    LET empty == [s EXCEPT !.text = {}, !.name = s.ctx.user]
    IN  IF s.ctx = NoContext THEN empty
        ELSE [empty EXCEPT !.field = auth_figure_initial_focus(s.ctx)]

-----------------------------------------------------------------------------
(* Entering and leaving secure mode.                                       *)

auth_clear_context(s) == [s EXCEPT !.ctx = NoContext]
auth_clear_status(s) == [s EXCEPT !.status = "none"]
auth_set_context(s, ctx) == auth_clear_status([s EXCEPT !.ctx = ctx])

auth_window(s, show) == [s EXCEPT !.window = IF show THEN "1" ELSE "0"]
auth_window_shown(s) == s.window # "3"

\* The window is not asked for while an old one is on its way out.
auth_begin(s) ==
    IF s.ctx = NoContext \/ auth_window_shown(s)
      THEN [state |-> s, began |-> FALSE]
      ELSE [state |-> auth_window(s, TRUE), began |-> TRUE]

\* Nothing happens in the mode that is on already, whatever the context says.
input_secure(s, on) ==
    IF s.secure = on THEN s
    ELSE LET t == input_clear_passwd([s EXCEPT !.secure = on])
             b == auth_begin([t EXCEPT !.collect = FALSE])
         IN  IF ~on THEN t
             ELSE IF b.began /\ t.ctx.lock THEN [b.state EXCEPT !.revert = TRUE]
             ELSE b.state

input_collect_password(s) == IF s.secure THEN [s EXCEPT !.collect = TRUE] ELSE s

\* A status that hides the window ends the session.
Hidden(s) == input_secure(auth_window(auth_clear_context(s), FALSE), FALSE)

\* Mutant: the window goes and secure mode stays.
HideOnly(s, status, hides) ==
    [(IF hides THEN auth_window(auth_clear_context(s), FALSE) ELSE s) EXCEPT
        !.status = IF status \in Statuses THEN status ELSE "failed"]

auth_status(s, status, hides) ==
    [(IF hides THEN Hidden(s) ELSE s) EXCEPT
        !.status = IF status \in Statuses THEN status ELSE "failed"]

\* Mutant: success does not end the session.
OkInPlace(s) == auth_status(s, "ok", FALSE)

AuthOk(s) == auth_status(s, "ok", TRUE)
Reports(s, status) == auth_status(s, status, FALSE)

-----------------------------------------------------------------------------
(* The scripts (secure_scripts.c) run in a child: -1 stands for one that   *)
(* could not be run or did not exit, 1 for one that exits with an error.   *)

sec_check_pass == {-1, 0, 1}
sec_mount == {-1, 0, 1}
sec_new_user == {-1, 0, 1}
sec_change_pass == {-1, 0, 1}
sec_change_recovery == {-1, 0, 1}
sec_check_user == {-1, 0, 1}
sec_change_root_credentials == {-1, 0, 1}

\* The first script that fails decides.
sec_check_pass_and_mount == sec_check_pass \cup sec_mount

user_create == sec_new_user \cup {0}

hash_file(kind, user) == <<kind, user>>

\* The flags of a remote user are cut down to that one; those of a local user are
\* kept as they are.
auth_update_cache(s, user, ctx) ==
    [s EXCEPT !.platform = IF ctx.kind = "remote"
                             THEN [NoContext EXCEPT !.user = user, !.kind = "remote"]
                             ELSE [ctx EXCEPT !.user = user]]

\* What local_auth may come to; recovery means that the backend is asked for the
\* recovery key.  remote_ok says whether the server knows the user, key whether
\* a recovery key came with the answer.
LocalVerdicts(have_file, id, remote_ok, key, remote) ==
    IF ~have_file THEN {"need_credentials"}
    ELSE IF ~id THEN {IF remote_ok THEN "internal_error" ELSE "no_userid"}
    ELSE UNION {
      CASE check < 0 -> {"internal_error"}
        [] check > 0 /\ remote /\ ~key -> {IF remote_ok THEN "recovery" ELSE "not_exist"}
        [] check > 0 /\ ~(remote /\ ~key) ->
             {IF created = 0 /\ mounted = 0 THEN "ok" ELSE "internal_error" :
                created \in user_create, mounted \in sec_check_pass_and_mount}
        [] check = 0 ->
             UNION {CASE mounted < 0 -> {"internal_error"}
                      [] mounted = 0 -> {"ok"}
                      [] mounted > 0 /\ ~key ->
                           {IF remote_ok THEN "recovery" ELSE "need_credentials"}
                      [] mounted > 0 /\ key ->
                           {CASE changed < 0 -> "internal_error"
                              [] changed > 0 -> "recovery_key_invalid"
                              [] OTHER -> IF again = 0 THEN "ok" ELSE "internal_error" :
                              changed \in sec_change_pass, again \in sec_check_pass_and_mount} :
                      mounted \in sec_check_pass_and_mount} :
      check \in sec_check_user}

\* The states local_auth may leave.  The hash file stays for a recovery, and for
\* a login that the backend started.
local_auth(s, user, id, remote_ok, key, ctx, auto) ==
    LET begun == Reports(s, "in_progress")
        file == hash_file("local", user)
        cleaned(t) == IF auto THEN t ELSE [t EXCEPT !.files = @ \ {file}]
    IN  {CASE verdict = "recovery" -> [state |-> begun, recovery |-> TRUE]
           [] verdict = "ok" ->
                [state |-> cleaned(AuthOk(auth_update_cache(begun, user, ctx))),
                 recovery |-> FALSE]
           [] OTHER -> [state |-> cleaned(Reports(begun, verdict)), recovery |-> FALSE] :
           verdict \in LocalVerdicts(file \in s.files, id, remote_ok, key, ctx.kind = "remote")}

\* Mutant: only local_auth removes the local hash.
LeaveLocal(s, user, answer, auto) ==
    LET used == IF auto THEN s ELSE [s EXCEPT !.files = @ \ {hash_file("remote", user)}]
        remote == [NoContext EXCEPT !.kind = "remote"]
    IN  IF answer \in Unreachable \cup {"OK"}
          THEN local_auth(used, user, TRUE, answer = "OK", FALSE, remote, auto)
          ELSE {[state |-> Reports(used, RemoteStatus[answer]), recovery |-> FALSE]}

\* The answer of the backend, with or without an id and a recovery key.  The
\* remote hash has been used by then; the local one is kept for a recovery
\* only.  The statuses are those of secure.h; to another one the code gives no
\* status and removes the file (secure.c:709).
AnswerStates(s, user, answer, auto) ==
    LET used == IF auto THEN s ELSE [s EXCEPT !.files = @ \ {hash_file("remote", user)}]
        remote == [NoContext EXCEPT !.kind = "remote"]
        outcomes == IF answer \in Unreachable \cup {"OK"}
                      THEN UNION {local_auth(used, user, id, answer = "OK", key, remote, auto) :
                                    id \in BOOLEAN, key \in BOOLEAN}
                      ELSE {[state |-> Reports(used, RemoteStatus[answer]), recovery |-> FALSE]}
    IN  {IF auto \/ o.recovery THEN o
         ELSE [o EXCEPT !.state.files = @ \ {hash_file("local", user)}] : o \in outcomes}

\* What change_or_create_local_password may come to.
PasswordVerdicts ==
    {"internal_error"} \cup      \* a hash cannot be written
    UNION {CASE check < 0 -> {"internal_error"}
             [] check > 0 -> {IF created = 0 /\ mounted = 0 THEN "ok" ELSE "internal_error" :
                    created \in user_create, mounted \in sec_check_pass_and_mount}
             [] check = 0 -> {CASE changed < 0 -> "internal_error"
                                [] changed > 0 -> "recovery_key_invalid"
                                [] OTHER -> IF recover = 0 /\ mounted = 0 THEN "ok"
                                            ELSE "internal_error" :
                    changed \in sec_change_pass, recover \in sec_change_recovery,
                    mounted \in sec_check_pass_and_mount} :
           check \in sec_check_user}

\* The states in which a new local password may leave the daemon.
change_or_create_local_password(s, user) ==
    LET begun == Reports(s, "in_progress")
        clean(t) == [t EXCEPT !.files = @ \ {hash_file("local", user)}]
        local == [NoContext EXCEPT !.kind = "local"]
        failed(status) == clean(Reports(begun, status))
        done == clean(AuthOk(auth_update_cache(begun, user, local)))
    IN  {IF v = "ok" THEN done ELSE failed(v) : v \in PasswordVerdicts}

\* The password of dom0 is changed only if none is set, and its script may fail.
change_root_password(s) ==
    {[state |-> Reports(s, "in_progress"), changed |-> have = FALSE /\ status = 0] :
        have \in BOOLEAN, status \in sec_change_root_credentials}

\* Mutant: the backend is not told.
StartSilently(s, user) ==
    {[state |-> Reports(s, "in_progress"), asks |-> FALSE, leaked |-> {}]}

\* The local and the remote hash are written, or the first, or none; asks says
\* that the backend is asked to log the user in.
StartLogin(s, user) ==
    LET local == hash_file("local", user)
        remote == hash_file("remote", user)
        files(t, fs) == [t EXCEPT !.files = @ \cup fs]
    IN  {[state |-> Reports(s, "internal_error"), asks |-> FALSE, leaked |-> {}],
         [state |-> Reports(files(s, {local}), "internal_error"), asks |-> FALSE,
          leaked |-> {local}],
         [state |-> Reports(files(s, {local, remote}), "in_progress"), asks |-> TRUE,
          leaked |-> {}]}

Ends(states) == {[state |-> t, asks |-> FALSE, leaked |-> {}] : t \in states}

\* What the enter key may lead to, for passwords that agree or do not.
auth_end(s) ==
    LET ctx == s.ctx
        user == s.name
        file == hash_file("local", user)
        Agreed ==
            CASE ctx.kind = "root" ->
                   IF "password" \notin s.text THEN Ends({Reports(s, "need_password")})
                   ELSE Ends({IF r.changed THEN AuthOk(r.state)
                              ELSE Reports(r.state, "internal_error") :
                                 r \in change_root_password(s)})
              [] ctx.kind # "root" /\ user = NoUser -> Ends({Reports(s, "need_credentials")})
              [] ctx.kind \in {"set_local", "change_local"} /\ user # NoUser ->
                   Ends(change_or_create_local_password(s, user))
              [] ctx.kind = "remote" /\ user # NoUser -> StartLogin(s, user)
              [] ctx.kind = "local" /\ user # NoUser ->
                   Ends({Reports(s, "internal_error")} \cup
                        {o.state : o \in local_auth([s EXCEPT !.files = @ \cup {file}],
                                                    user, TRUE, FALSE, FALSE, ctx, FALSE)})
    IN  IF ~auth_window_shown(s) \/ ctx = NoContext THEN Ends({Reports(s, "internal_error")})
        ELSE Agreed \cup (IF ctx.confirm THEN Ends({Reports(s, "confirm_failed")}) ELSE {})

auth_remote_login(s, user) ==
    IF s.ctx.kind # "remote" THEN Ends({Reports(s, "internal_error")}) ELSE StartLogin(s, user)

-----------------------------------------------------------------------------
(* Contexts made from the database (switch.c).                             *)

switcher_lock(s, can_switch_out) ==
    IF s.platform = NoContext THEN s
    ELSE input_secure(auth_set_context(s, [s.platform EXCEPT
             !.lock = @ \/ ~can_switch_out, !.cannot_cancel = TRUE]), TRUE)

switcher_auth_force(s) ==
    CASE s.ctx # NoContext -> input_secure(s, TRUE)
      [] s.ctx = NoContext /\ s.platform = NoContext -> s
      [] OTHER -> input_secure(auth_set_context(s, [s.platform EXCEPT
                      !.lock = FALSE, !.cannot_cancel = TRUE]), TRUE)

-----------------------------------------------------------------------------
(* The steps.                                                              *)

SecureInit ==
    /\ auth = [ctx |-> NoContext, status |-> "none", secure |-> FALSE, collect |-> FALSE,
               window |-> "3", name |-> NoUser, text |-> {}, field |-> "username",
               files |-> {}, revert |-> FALSE, platform |-> NoContext]
    /\ screen = "uivm"
    /\ backend = [awaits |-> [u \in Users |-> 0], auto |-> FALSE, leaked |-> {}]

Only(s) == auth' = s /\ UNCHANGED <<screen, backend>>

\* Clients of the D-Bus interface.
SetContext(ctx) == Only(auth_set_context(auth, ctx))
AuthBegin == Only(switcher_auth_force(auth))
Lock(can_switch_out) == Only(switcher_lock(auth, can_switch_out))
AuthOrLock == IF auth.ctx # NoContext THEN AuthBegin ELSE Lock(FALSE)
CollectPassword == Only(input_collect_password(auth))
ClearStatus == Only(auth_clear_status(auth))

\* A local platform user is removed unless its script fails.
RmPlatformUser ==
    /\ auth.platform.user = LocalUser /\ auth.platform.kind # "remote"
    /\ Only([auth EXCEPT !.platform = NoContext])

asked(awaits, user) == [awaits EXCEPT ![user] = @ + 1]
answered(awaits, user) == [awaits EXCEPT ![user] = @ - 1]

\* The hash files and the requests to the backend after an attempt.
Attempt(o, s, user) ==
    /\ o.asks => backend.awaits[user] < MaxLogins
    /\ auth' = s
    /\ backend' = [backend EXCEPT
           !.awaits = IF o.asks THEN asked(@, user) ELSE @,
           !.leaked = (@ \cup o.leaked) \cap s.files]
    /\ UNCHANGED screen

RemoteLogin(user) == \E o \in auth_remote_login(auth, user) : Attempt(o, o.state, user)

\* The backend answers, or reports of a login that it has started by itself.
auth_remote_status(user, answer, auto) ==
    /\ auto \/ backend.awaits[user] > 0
    /\ \E o \in AnswerStates(auth, user, answer, auto) :
           LET open == o.recovery \/ answer = "IN_PROGRESS"
           IN  /\ auth' = o.state
               /\ backend' = [backend EXCEPT
                      !.awaits = IF auto \/ open THEN @ ELSE answered(@, user),
                      !.auto = IF auto THEN open ELSE @,
                      !.leaked = @ \cap o.state.files]
    /\ UNCHANGED screen

\* Keys go to the fields while the UI domain has the screen in secure mode.
input_check_secure_mode == auth.secure /\ screen = "uivm"

KeyEsc ==
    /\ input_check_secure_mode
    /\ Only(input_clear_passwd(auth_status(auth, "user_cancel", ~auth.ctx.cannot_cancel)))

KeyTab(direction) == input_check_secure_mode /\ Only(auth_tab(auth, direction))
KeyBackspace == input_check_secure_mode /\ \E s \in auth_backspace(auth) : Only(s)
KeyChar == input_check_secure_mode /\ \E s \in auth_collect_key(auth) : Only(s)

KeyEnter ==
    /\ input_check_secure_mode
    /\ \E o \in auth_end(auth) : Attempt(o, input_clear_passwd(o.state), auth.name)

\* Key bindings are dead on a locked screen; D-Bus requests are not.
SwitchTo(vm, by_key) ==
    /\ by_key => ~(input_check_secure_mode /\ auth.ctx.lock)
    /\ screen' = vm
    /\ UNCHANGED <<auth, backend>>

\* The UI domain has closed the window.
WindowCloses ==
    /\ auth.window = "0"
    /\ Only([auth EXCEPT !.window = "3"])

\* Mutants: the timer runs once; the test of the tools is inverted.
RevertOnce ==
    /\ auth.revert
    /\ screen' = IF screen = "guest" THEN "uivm" ELSE screen
    /\ auth' = [auth EXCEPT !.revert = FALSE]
    /\ UNCHANGED backend

RevertBare ==
    /\ auth.revert
    /\ screen' = IF screen = "bare" THEN "uivm" ELSE screen
    /\ auth' = [auth EXCEPT !.revert = auth.secure]
    /\ UNCHANGED backend

\* A PVM without tools would not answer: the screen is left to it.
revert_to_auth ==
    /\ auth.revert
    /\ screen' = IF screen = "guest" THEN "uivm" ELSE screen
    /\ auth' = [auth EXCEPT !.revert = auth.secure]
    /\ UNCHANGED backend

SecureNext ==
    \/ \E ctx \in Contexts : SetContext(ctx)
    \/ AuthBegin
    \/ \E can_switch_out \in BOOLEAN : Lock(can_switch_out)
    \/ AuthOrLock
    \/ CollectPassword
    \/ ClearStatus
    \/ RmPlatformUser
    \/ \E user \in Users : RemoteLogin(user)
    \/ \E user \in Users, answer \in RemoteStatuses, auto \in BOOLEAN :
           auth_remote_status(user, answer, auto)
    \/ KeyEsc
    \/ \E direction \in {-1, 1} : KeyTab(direction)
    \/ KeyBackspace
    \/ KeyChar
    \/ KeyEnter
    \/ \E vm \in {"uivm", "guest", "bare"}, by_key \in BOOLEAN : SwitchTo(vm, by_key)
    \/ WindowCloses
    \/ revert_to_auth

\* libevent runs a timer that is due.
SecureSpec == SecureInit /\ [][SecureNext]_secure_vars /\ WF_secure_vars(revert_to_auth)

-----------------------------------------------------------------------------
(* Properties.                                                             *)

\* The context, the window, the fields, the files and the logins are well formed.
SecureTypeOK == auth \in AuthState /\ screen \in {"uivm", "guest", "bare"} /\ backend \in Backend

\* In secure mode there is a context: the escape key reads its flags without a
\* check, and the answer to a login of before may have come meanwhile.
SecureHasContext == auth.secure => auth.ctx # NoContext

\* Nothing that was typed in one session is there when no session is on.
PasswordsForgotten == ~auth.secure => auth.text = {} /\ auth.name = NoUser

\* The hash of a password lies in a file only while the backend has still to
\* answer for its user, or after a write that failed.
HashFilesExplained ==
    \A f \in auth.files : backend.awaits[f[2]] > 0 \/ f \in backend.leaked

\* "In progress" leaves the files of a login where they are: local_auth wants the
\* local one when the login succeeds.  The code does not have this (secure.c:714).
FilesOutlastProgress ==
    [][\A user \in Users :
          auth_remote_status(user, "IN_PROGRESS", FALSE)
          => \A f \in auth.files : f[2] = user => f \in auth'.files]_secure_vars

\* Success is told when the session is over, and no session goes on under it.
OkMeansDone == auth.status = "ok" => ~auth.secure /\ auth.ctx = NoContext

\* "In progress" is said only while the backend will say more.
InProgressIsAnswered ==
    auth.status = "in_progress" => backend.auto \/ \E u \in Users : backend.awaits[u] > 0

\* The timer that brings a locked screen back runs as long as the session.
LockHolds ==
    [][auth.secure /\ auth.revert /\ auth'.secure => auth'.revert]_secure_vars

\* A guest that gets the screen while it is locked loses it again.
LockedScreenReturns ==
    auth.secure /\ auth.revert /\ screen = "guest" ~> screen # "guest" \/ ~auth.secure

\* Whether the screen can be left is what the caller of lock says.
LockAsAsked == [][Lock(TRUE) => auth'.ctx = auth.ctx \/ ~auth'.ctx.lock]_secure_vars

\* The screen returns by itself whenever it is locked.
LockForcesScreen == auth.secure /\ auth.ctx.lock => auth.revert
=============================================================================
