-------------------------- MODULE SecureMode_proofs --------------------------
(***************************************************************************)
(* Proofs about SecureMode, for any users, contexts and answers.           *)
(*                                                                         *)
(* The invariant is Sound(auth): the state has its type, a session has a   *)
(* context, success ends it, and nothing typed is left without one.  Most  *)
(* of the functions are judged by Session(s, t): from a sound s they leave *)
(* a sound t, and if s has a context in secure mode only, so has t.  The   *)
(* second half is what input_clear_passwd needs: it fills in the name of   *)
(* the context, which would be left over if there were one without a       *)
(* session.                                                                *)
(*                                                                         *)
(* A second invariant, Expected, is about the hash files and what is said  *)
(* to be in progress.  For it the functions are judged by Held, Quiet and  *)
(* Ended: which files they may leave, whether they stop the timer of a     *)
(* locked screen, and whether they say that something is in progress; an   *)
(* attempt accounts for every file that it writes (Accounted).             *)
(***************************************************************************)
EXTENDS SecureMode, TLAPS

USE DEF NoUser

\* In secure mode there is a context; success is told when no session is on; and
\* what was typed goes with the session.
Sound(s) ==
    /\ s \in AuthState
    /\ s.secure => s.ctx # NoContext
    /\ s.status = "ok" => ~s.secure /\ s.ctx = NoContext
    /\ ~s.secure => s.text = {} /\ s.name = NoUser

\* A context is there only in secure mode.
Closed(s) == s.secure \/ s.ctx = NoContext

Session(s, t) == Sound(t) /\ (Closed(s) => Closed(t))

\* What the parts of Sound and Closed speak of.
Keeps(s, t) ==
    /\ t.ctx = s.ctx /\ t.status = s.status /\ t.secure = s.secure
    /\ t.text = s.text /\ t.name = s.name

\* Nothing is written, and the timer of a locked screen is left on.
Held(s, t) == t.files \subseteq s.files /\ (s.revert => t.revert)

\* Nothing is said to be in progress that was not before, or nothing at all.
Quiet(s, t) == Held(s, t) /\ (t.status = "in_progress" => s.status = "in_progress")
Ended(s, t) == Held(s, t) /\ t.status # "in_progress"

Files == {"local", "remote"} \X Users
Names == Users \cup {NoUser}
Texts == SUBSET {"password", "confirm", "previous"}
AnyContext == Context \cup {NoContext}

-----------------------------------------------------------------------------
(* Fields of the state.                                                    *)

LEMMA StateFields ==
  ASSUME NEW s \in AuthState
  PROVE  /\ s.ctx \in AnyContext /\ s.status \in Statuses
         /\ s.secure \in BOOLEAN /\ s.collect \in BOOLEAN
         /\ s.window \in {"0", "1", "3"} /\ s.name \in Names
         /\ s.text \in Texts /\ s.field \in Fields
         /\ s.files \in SUBSET Files /\ s.revert \in BOOLEAN
         /\ s.platform \in AnyContext
BY DEF AuthState, AnyContext, Names, Texts, Files

LEMMA SetCtx ==
  ASSUME NEW s \in AuthState, NEW v \in AnyContext
  PROVE  LET t == [s EXCEPT !.ctx = v]
         IN  /\ t \in AuthState /\ t.ctx = v /\ t.status = s.status
             /\ t.secure = s.secure /\ t.text = s.text /\ t.name = s.name
BY DEF AuthState, AnyContext

LEMMA SetStatus ==
  ASSUME NEW s \in AuthState, NEW v \in Statuses
  PROVE  LET t == [s EXCEPT !.status = v]
         IN  /\ t \in AuthState /\ t.ctx = s.ctx /\ t.status = v
             /\ t.secure = s.secure /\ t.text = s.text /\ t.name = s.name
BY DEF AuthState

LEMMA SetSecure ==
  ASSUME NEW s \in AuthState, NEW v \in BOOLEAN
  PROVE  LET t == [s EXCEPT !.secure = v]
         IN  /\ t \in AuthState /\ t.ctx = s.ctx /\ t.status = s.status
             /\ t.secure = v /\ t.text = s.text /\ t.name = s.name
BY DEF AuthState

LEMMA SetName ==
  ASSUME NEW s \in AuthState, NEW v \in Names
  PROVE  LET t == [s EXCEPT !.name = v]
         IN  /\ t \in AuthState /\ t.ctx = s.ctx /\ t.status = s.status
             /\ t.secure = s.secure /\ t.text = s.text /\ t.name = v
BY DEF AuthState, Names

LEMMA SetText ==
  ASSUME NEW s \in AuthState, NEW v \in Texts
  PROVE  LET t == [s EXCEPT !.text = v]
         IN  /\ t \in AuthState /\ t.ctx = s.ctx /\ t.status = s.status
             /\ t.secure = s.secure /\ t.text = v /\ t.name = s.name
BY DEF AuthState, Texts

LEMMA SetField ==
  ASSUME NEW s \in AuthState, NEW v \in Fields
  PROVE  LET t == [s EXCEPT !.field = v] IN t \in AuthState /\ Keeps(s, t)
BY DEF AuthState, Keeps

LEMMA SetWindow ==
  ASSUME NEW s \in AuthState, NEW v \in {"0", "1", "3"}
  PROVE  LET t == [s EXCEPT !.window = v] IN t \in AuthState /\ Keeps(s, t)
BY DEF AuthState, Keeps

LEMMA SetCollect ==
  ASSUME NEW s \in AuthState, NEW v \in BOOLEAN
  PROVE  LET t == [s EXCEPT !.collect = v] IN t \in AuthState /\ Keeps(s, t)
BY DEF AuthState, Keeps

LEMMA SetRevert ==
  ASSUME NEW s \in AuthState, NEW v \in BOOLEAN
  PROVE  LET t == [s EXCEPT !.revert = v] IN t \in AuthState /\ Keeps(s, t)
BY DEF AuthState, Keeps

LEMMA SetPlatform ==
  ASSUME NEW s \in AuthState, NEW v \in AnyContext
  PROVE  LET t == [s EXCEPT !.platform = v] IN t \in AuthState /\ Keeps(s, t)
BY DEF AuthState, Keeps, AnyContext

LEMMA SetFiles ==
  ASSUME NEW s \in AuthState, NEW v \in SUBSET Files
  PROVE  LET t == [s EXCEPT !.files = v] IN t \in AuthState /\ Keeps(s, t)
BY DEF AuthState, Keeps, Files

\* A state that keeps what the invariant speaks of is as sound, and as closed.
LEMMA KeepsSession ==
  ASSUME NEW s, Sound(s), NEW t \in AuthState, Keeps(s, t)
  PROVE  Session(s, t)
BY DEF Sound, Keeps, Session, Closed

LEMMA SessionReflexive ==
  ASSUME NEW s, Sound(s)
  PROVE  Session(s, s)
BY DEF Session

LEMMA SessionTransitive ==
  ASSUME NEW s, NEW t, NEW u, Session(s, t), Session(t, u)
  PROVE  Session(s, u)
BY DEF Session

-----------------------------------------------------------------------------
(* Hash files, statuses and the timer.                                     *)

LEMMA QuietReflexive ==
  ASSUME NEW s
  PROVE  Quiet(s, s)
BY DEF Quiet, Held

LEMMA QuietTransitive ==
  ASSUME NEW s, NEW t, NEW u, Quiet(s, t), Quiet(t, u)
  PROVE  Quiet(s, u)
BY DEF Quiet, Held

LEMMA HeldTransitive ==
  ASSUME NEW s, NEW t, NEW u, Held(s, t), Held(t, u)
  PROVE  Held(s, u)
BY DEF Held

\* Fields of which Quiet does not speak.
LEMMA QuietFields ==
  ASSUME NEW s \in AuthState, NEW v
  PROVE  /\ Quiet(s, [s EXCEPT !.ctx = v]) /\ Quiet(s, [s EXCEPT !.secure = v])
         /\ Quiet(s, [s EXCEPT !.name = v]) /\ Quiet(s, [s EXCEPT !.text = v])
         /\ Quiet(s, [s EXCEPT !.field = v]) /\ Quiet(s, [s EXCEPT !.window = v])
         /\ Quiet(s, [s EXCEPT !.collect = v]) /\ Quiet(s, [s EXCEPT !.platform = v])
         /\ Quiet(s, [s EXCEPT !.revert = TRUE])
         /\ Quiet(s, [s EXCEPT !.status = "none"])
BY DEF AuthState, Quiet, Held

LEMMA HeldStatus ==
  ASSUME NEW s \in AuthState, NEW v
  PROVE  LET t == [s EXCEPT !.status = v] IN Held(s, t) /\ t.status = v
BY DEF AuthState, Held

LEMMA FileFields ==
  ASSUME NEW s \in AuthState, NEW v
  PROVE  LET t == [s EXCEPT !.files = v]
         IN  t.files = v /\ t.revert = s.revert /\ t.status = s.status
BY DEF AuthState

-----------------------------------------------------------------------------
(* Contexts and fields.                                                    *)

LEMMA ContextFields ==
  ASSUME NEW ctx \in AnyContext
  PROVE  /\ ctx.user \in Names
         /\ ctx # NoContext => ctx \in Context
         /\ ctx = NoContext => ctx.user = NoUser
<1>1. NoContext.user = NoUser
  BY DEF NoContext
<1>2. ASSUME ctx \in Context
      PROVE  ctx.user \in Names
  BY <1>2 DEF Context, Names
<1> QED
  BY <1>1, <1>2 DEF AnyContext, Names

LEMMA WithUser ==
  ASSUME NEW ctx \in Context, NEW user \in Names
  PROVE  [ctx EXCEPT !.user = user] \in Context
BY DEF Context, Names

LEMMA Remote ==
  /\ [NoContext EXCEPT !.kind = "remote"] \in Context
  /\ [NoContext EXCEPT !.kind = "local"] \in Context
  /\ \A user \in Names : [NoContext EXCEPT !.user = user, !.kind = "remote"] \in Context
BY DEF Context, NoContext, Names, Kinds

LEMMA Locked ==
  ASSUME NEW ctx \in Context, NEW b \in BOOLEAN
  PROVE  /\ [ctx EXCEPT !.lock = @ \/ b, !.cannot_cancel = TRUE] \in Context
         /\ [ctx EXCEPT !.lock = FALSE, !.cannot_cancel = TRUE] \in Context
BY DEF Context

LEMMA InitialFocus ==
  ASSUME NEW ctx
  PROVE  auth_figure_initial_focus(ctx) \in Fields
BY DEF auth_figure_initial_focus, Fields

\* There are one to three fields, and tab stays among them.
LEMMA TabOrder ==
  ASSUME NEW ctx, NEW i \in Int
  PROVE  LET order == tab_order(ctx)
         IN  order[(i % Len(order)) + 1] \in Fields
<1>1. CASE tab_order(ctx) = <<"previous", "password", "confirm">>
  BY <1>1 DEF Fields
<1>2. CASE tab_order(ctx) = <<"password", "confirm">>
  BY <1>2 DEF Fields
<1>3. CASE tab_order(ctx) = <<"password", "username">>
  BY <1>3 DEF Fields
<1>4. CASE tab_order(ctx) = <<"password">>
  BY <1>4 DEF Fields
<1>5. \/ tab_order(ctx) = <<"previous", "password", "confirm">>
      \/ tab_order(ctx) = <<"password", "confirm">>
      \/ tab_order(ctx) = <<"password", "username">>
      \/ tab_order(ctx) = <<"password">>
  BY DEF tab_order
<1> QED
  BY <1>1, <1>2, <1>3, <1>4, <1>5

LEMMA TabIndex ==
  ASSUME NEW ctx, NEW f
  PROVE  auth_get_field_tabindex(ctx, f) \in Int
<1> DEFINE order == tab_order(ctx)
<1>1. DOMAIN order \subseteq Int
  BY DEF tab_order
<1>2. ASSUME f \in ToSet(order)
      PROVE  (CHOOSE i \in DOMAIN order : order[i] = f) \in DOMAIN order
  BY <1>2 DEF ToSet
<1> QED
  BY <1>1, <1>2 DEF auth_get_field_tabindex

LEMMA TabSession ==
  ASSUME NEW s, Sound(s), NEW direction \in {-1, 1}
  PROVE  Session(s, auth_tab(s, direction))
<1> DEFINE order == tab_order(s.ctx)
           i == auth_get_field_tabindex(s.ctx, s.field) - 1 + direction
           f == order[(i % Len(order)) + 1]
<1>1. i \in Int
  BY TabIndex
<1>2. f \in Fields
  BY <1>1, TabOrder
<1>3. auth_tab(s, direction) = IF s.ctx = NoContext THEN s ELSE [s EXCEPT !.field = f]
  BY DEF auth_tab
<1> HIDE DEF f
<1>4. s \in AuthState
  BY DEF Sound
<1>5. Session(s, [s EXCEPT !.field = f])
  BY <1>2, <1>4, SetField, KeepsSession
<1> QED
  BY <1>3, <1>5, SessionReflexive

LEMMA BackspaceSession ==
  ASSUME NEW s, Sound(s), s.secure, NEW t \in auth_backspace(s)
  PROVE  Session(s, t)
<1>1. s \in AuthState
  BY DEF Sound
<1>2. CASE \E n \in Names : t = [s EXCEPT !.name = n]
  <2>1. PICK n \in Names : t = [s EXCEPT !.name = n]
    BY <1>2
  <2>2. /\ t \in AuthState /\ t.ctx = s.ctx /\ t.status = s.status
        /\ t.secure = s.secure
    BY <1>1, <2>1, SetName
  <2> QED
    BY <2>2 DEF Session, Sound, Closed
<1>3. CASE t = s
  BY <1>3, SessionReflexive
<1>4. CASE t = [s EXCEPT !.text = s.text \ {s.field}]
  <2>1. s.text \ {s.field} \in Texts
    BY <1>1, StateFields DEF Texts
  <2> QED
    BY <1>1, <1>4, <2>1, SetText DEF Session, Sound, Closed
<1>5. \/ \E n \in Names : t = [s EXCEPT !.name = n]
      \/ t = s
      \/ t = [s EXCEPT !.text = s.text \ {s.field}]
  BY DEF auth_backspace, Names
<1> QED
  BY <1>2, <1>3, <1>4, <1>5

LEMMA CollectSession ==
  ASSUME NEW s, Sound(s), s.secure, NEW t \in auth_collect_key(s)
  PROVE  Session(s, t)
<1>1. s \in AuthState
  BY DEF Sound
<1>2. CASE \E n \in Names : t = [s EXCEPT !.name = n]
  <2>1. PICK n \in Names : t = [s EXCEPT !.name = n]
    BY <1>2
  <2>2. /\ t \in AuthState /\ t.ctx = s.ctx /\ t.status = s.status
        /\ t.secure = s.secure
    BY <1>1, <2>1, SetName
  <2> QED
    BY <2>2 DEF Session, Sound, Closed
<1>3. CASE t = s
  BY <1>3, SessionReflexive
<1>4. CASE s.field # "username" /\ t = [s EXCEPT !.text = s.text \cup {s.field}]
  <2>1. s.text \cup {s.field} \in Texts
    BY <1>1, <1>4, StateFields DEF Texts, Fields
  <2> QED
    BY <1>1, <1>4, <2>1, SetText DEF Session, Sound, Closed
<1>5. \/ \E n \in Names : t = [s EXCEPT !.name = n]
      \/ t = s
      \/ s.field # "username" /\ t = [s EXCEPT !.text = s.text \cup {s.field}]
  <2>1. CASE ~s.collect
    BY <2>1 DEF auth_collect_key
  <2>2. CASE s.collect /\ s.field = "username"
    BY <2>2 DEF auth_collect_key, Names
  <2>3. CASE s.collect /\ s.field # "username"
    BY <2>3 DEF auth_collect_key
  <2>4. s.collect \in BOOLEAN
    BY <1>1, StateFields
  <2> QED
    BY <2>1, <2>2, <2>3, <2>4
<1> QED
  BY <1>2, <1>3, <1>4, <1>5

-----------------------------------------------------------------------------
(* Entering and leaving secure mode.                                       *)

LEMMA ClearFields ==
  ASSUME NEW s \in AuthState
  PROVE  LET t == input_clear_passwd(s)
         IN  /\ t \in AuthState /\ t.ctx = s.ctx /\ t.status = s.status
             /\ t.secure = s.secure /\ t.text = {} /\ t.name = s.ctx.user
<1> DEFINE x == [s EXCEPT !.text = {}]
           y == [x EXCEPT !.name = s.ctx.user]
           z == [y EXCEPT !.field = auth_figure_initial_focus(s.ctx)]
<1>1. /\ x \in AuthState /\ x.ctx = s.ctx /\ x.status = s.status
      /\ x.secure = s.secure /\ x.text = {} /\ x.name = s.name
  <2>1. {} \in Texts
    BY DEF Texts
  <2> QED
    BY <2>1, SetText
<1>2. s.ctx.user \in Names
  BY StateFields, ContextFields
<1>3. /\ y \in AuthState /\ y.ctx = s.ctx /\ y.status = s.status
      /\ y.secure = s.secure /\ y.text = {} /\ y.name = s.ctx.user
  <2> HIDE DEF x
  <2> QED
    BY <1>1, <1>2, SetName
<1>4. z \in AuthState /\ Keeps(y, z)
  <2> HIDE DEF y
  <2> QED
    BY <1>3, InitialFocus, SetField
<1>5. input_clear_passwd(s) = IF s.ctx = NoContext THEN y ELSE z
  BY DEF input_clear_passwd
<1> HIDE DEF y, z
<1> QED
  BY <1>3, <1>4, <1>5 DEF Keeps

\* A sound and closed state stays so when the fields are cleared.
LEMMA ClearSession ==
  ASSUME NEW s, Sound(s), Closed(s)
  PROVE  Session(s, input_clear_passwd(s))
<1>1. s \in AuthState /\ s.ctx \in AnyContext
  BY StateFields DEF Sound
<1>2. ~s.secure => s.ctx.user = NoUser
  BY <1>1, ContextFields DEF Closed
<1> QED
  BY <1>1, <1>2, ClearFields DEF Session, Sound, Closed

LEMMA WindowKeeps ==
  ASSUME NEW s \in AuthState, NEW show \in BOOLEAN
  PROVE  auth_window(s, show) \in AuthState /\ Keeps(s, auth_window(s, show))
BY SetWindow DEF auth_window

\* Of secure mode and its fields input_secure decides; context and status stay.
LEMMA SecureFields ==
  ASSUME NEW s \in AuthState, NEW on \in BOOLEAN, s.secure # on
  PROVE  LET t == input_secure(s, on)
         IN  /\ t \in AuthState /\ t.ctx = s.ctx /\ t.status = s.status
             /\ t.secure = on /\ t.text = {} /\ t.name = s.ctx.user
<1> DEFINE r == [s EXCEPT !.secure = on]
           t == input_clear_passwd(r)
           u == [t EXCEPT !.collect = FALSE]
           b == auth_begin(u)
           v == [b.state EXCEPT !.revert = TRUE]
<1>1. /\ r \in AuthState /\ r.ctx = s.ctx /\ r.status = s.status /\ r.secure = on
  BY SetSecure
<1>2. /\ t \in AuthState /\ t.ctx = s.ctx /\ t.status = s.status
      /\ t.secure = on /\ t.text = {} /\ t.name = s.ctx.user
  <2> HIDE DEF r
  <2> QED
    BY <1>1, ClearFields
<1>3. u \in AuthState /\ Keeps(t, u)
  <2> HIDE DEF t
  <2> QED
    BY <1>2, SetCollect
<1>4. b.state \in AuthState /\ Keeps(t, b.state)
  <2>1. b.state = u \/ b.state = auth_window(u, TRUE)
    BY DEF auth_begin
  <2> HIDE DEF t, u, b
  <2>2. auth_window(u, TRUE) \in AuthState /\ Keeps(u, auth_window(u, TRUE))
    BY <1>3, WindowKeeps
  <2> QED
    BY <1>3, <2>1, <2>2 DEF Keeps
<1>5. v \in AuthState /\ Keeps(t, v)
  <2> HIDE DEF t, b
  <2>1. v \in AuthState /\ Keeps(b.state, v)
    BY <1>4, SetRevert
  <2> QED
    BY <1>4, <2>1 DEF Keeps
<1>6. input_secure(s, on) \in {t, v, b.state}
  BY DEF input_secure
<1> HIDE DEF t, v, b
<1> QED
  BY <1>2, <1>4, <1>5, <1>6 DEF Keeps

\* Secure mode is entered with a context only, and never with a success told.
LEMMA EnterSession ==
  ASSUME NEW s, Sound(s), s.ctx # NoContext
  PROVE  Session(s, input_secure(s, TRUE))
<1>1. CASE s.secure
  <2>1. input_secure(s, TRUE) = s
    BY <1>1, StateFields DEF Sound, input_secure
  <2> QED
    BY <2>1, SessionReflexive
<1>2. CASE ~s.secure
  <2>1. s \in AuthState /\ s.secure # TRUE
    BY <1>2 DEF Sound
  <2> QED
    BY <2>1, SecureFields DEF Session, Sound, Closed
<1>3. s.secure \in BOOLEAN
  BY StateFields DEF Sound
<1> QED
  BY <1>1, <1>2, <1>3

LEMMA ClearContext ==
  ASSUME NEW s \in AuthState
  PROVE  LET t == auth_clear_context(s)
         IN  /\ t \in AuthState /\ t.ctx = NoContext /\ t.status = s.status
             /\ t.secure = s.secure /\ t.text = s.text /\ t.name = s.name
<1>1. NoContext \in AnyContext
  BY DEF AnyContext
<1> QED
  BY <1>1, SetCtx DEF auth_clear_context

\* A status that hides the window leaves no context, no session and no text.
LEMMA HiddenFields ==
  ASSUME NEW s, Sound(s)
  PROVE  /\ Hidden(s) \in AuthState
         /\ Hidden(s).ctx = NoContext /\ Hidden(s).secure = FALSE
         /\ Hidden(s).text = {} /\ Hidden(s).name = NoUser
<1> DEFINE c == auth_clear_context(s)
           w == auth_window(c, FALSE)
<1>1. s \in AuthState /\ s.secure \in BOOLEAN
  BY StateFields DEF Sound
<1>2. /\ c \in AuthState /\ c.ctx = NoContext /\ c.secure = s.secure
      /\ c.text = s.text /\ c.name = s.name
  BY <1>1, ClearContext
<1> HIDE DEF c
<1>3. w \in AuthState /\ Keeps(c, w)
  BY <1>2, WindowKeeps
<1> HIDE DEF w
<1>4. /\ w.ctx = NoContext /\ w.secure = s.secure
      /\ w.text = s.text /\ w.name = s.name
  BY <1>2, <1>3 DEF Keeps
<1>5. Hidden(s) = input_secure(w, FALSE)
  BY DEF Hidden, w, c
<1>6. CASE s.secure
  <2>1. w.secure # FALSE
    BY <1>4, <1>6
  <2>2. NoContext.user = NoUser
    BY DEF NoContext
  <2> QED
    BY <1>3, <1>4, <1>5, <2>1, <2>2, SecureFields
<1>7. CASE ~s.secure
  <2>1. w.secure = FALSE
    BY <1>1, <1>4, <1>7
  <2>2. Hidden(s) = w
    BY <1>5, <2>1 DEF input_secure
  <2> QED
    BY <1>3, <1>4, <1>7, <2>1, <2>2 DEF Sound
<1> QED
  BY <1>1, <1>6, <1>7

LEMMA StatusIn ==
  ASSUME NEW status
  PROVE  /\ (IF status \in Statuses THEN status ELSE "failed") \in Statuses
         /\ status # "ok" => (IF status \in Statuses THEN status ELSE "failed") # "ok"
BY DEF Statuses

\* A status may be told at any time; success only when it hides the window.
LEMMA StatusSession ==
  ASSUME NEW s, Sound(s), NEW status, NEW hides \in BOOLEAN, hides \/ status # "ok"
  PROVE  Session(s, auth_status(s, status, hides))
<1> DEFINE v == IF status \in Statuses THEN status ELSE "failed"
           h == Hidden(s)
<1>1. s \in AuthState
  BY DEF Sound
<1>2. v \in Statuses /\ (status # "ok" => v # "ok")
  BY StatusIn
<1>3. CASE hides
  <2>1. auth_status(s, status, hides) = [h EXCEPT !.status = v]
    BY <1>3 DEF auth_status
  <2>2. /\ h \in AuthState /\ h.ctx = NoContext /\ h.secure = FALSE
        /\ h.text = {} /\ h.name = NoUser
    BY HiddenFields
  <2> DEFINE x == [h EXCEPT !.status = v]
  <2> HIDE DEF h, v
  <2>3. /\ x \in AuthState /\ x.ctx = h.ctx /\ x.status = v
        /\ x.secure = h.secure /\ x.text = h.text /\ x.name = h.name
    BY <1>2, <2>2, SetStatus
  <2> HIDE DEF x
  <2>4. Sound(x) /\ Closed(x)
    BY <2>2, <2>3 DEF Sound, Closed
  <2> QED
    BY <2>1, <2>4 DEF Session, x
<1>4. CASE ~hides
  <2>1. auth_status(s, status, hides) = [s EXCEPT !.status = v]
    BY <1>4 DEF auth_status
  <2> DEFINE x == [s EXCEPT !.status = v]
  <2> HIDE DEF v
  <2>2. /\ x \in AuthState /\ x.ctx = s.ctx /\ x.status = v
        /\ x.secure = s.secure /\ x.text = s.text /\ x.name = s.name
    BY <1>1, <1>2, SetStatus
  <2> HIDE DEF x
  <2>3. Sound(x) /\ (Closed(s) => Closed(x))
    BY <1>2, <1>4, <2>2 DEF Sound, Closed
  <2> QED
    BY <2>1, <2>3 DEF Session, x
<1> QED
  BY <1>3, <1>4

LEMMA OkSession ==
  ASSUME NEW s, Sound(s)
  PROVE  Session(s, AuthOk(s))
BY StatusSession DEF AuthOk

LEMMA ReportSession ==
  ASSUME NEW s, Sound(s), NEW status, status # "ok"
  PROVE  Session(s, Reports(s, status))
BY StatusSession DEF Reports

LEMMA ContextIsOne ==
  ASSUME NEW ctx \in Context
  PROVE  ctx # NoContext
<1>1. ctx.kind # "none"
  BY DEF Context, Kinds
<1>2. NoContext.kind = "none"
  BY DEF NoContext
<1> QED
  BY <1>1, <1>2

\* A new context clears what was told of the old one.
LEMMA ContextSound ==
  ASSUME NEW s, Sound(s), NEW ctx \in Context
  PROVE  /\ Sound(auth_set_context(s, ctx))
         /\ auth_set_context(s, ctx).ctx = ctx
<1> DEFINE c == [s EXCEPT !.ctx = ctx]
<1>1. s \in AuthState /\ ctx \in AnyContext
  BY DEF Sound, AnyContext
<1>2. /\ c \in AuthState /\ c.ctx = ctx /\ c.secure = s.secure
      /\ c.text = s.text /\ c.name = s.name
  BY <1>1, SetCtx
<1>3. "none" \in Statuses /\ "none" # "ok"
  BY DEF Statuses
<1>5. ctx # NoContext
  BY ContextIsOne
<1>4. auth_set_context(s, ctx) = [c EXCEPT !.status = "none"]
  BY DEF auth_set_context, auth_clear_status
<1> DEFINE x == [c EXCEPT !.status = "none"]
<1> HIDE DEF c
<1>6. /\ x \in AuthState /\ x.ctx = ctx /\ x.status = "none"
      /\ x.secure = s.secure /\ x.text = s.text /\ x.name = s.name
  BY <1>2, <1>3, SetStatus
<1> HIDE DEF x
<1>7. Sound(x)
  BY <1>3, <1>5, <1>6 DEF Sound
<1> QED
  BY <1>4, <1>6, <1>7 DEF x

-----------------------------------------------------------------------------
(* What these functions leave alone.                                       *)

LEMMA ClearQuiet ==
  ASSUME NEW s \in AuthState
  PROVE  Quiet(s, input_clear_passwd(s))
<1> DEFINE x == [s EXCEPT !.text = {}]
           y == [x EXCEPT !.name = s.ctx.user]
           z == [y EXCEPT !.field = auth_figure_initial_focus(s.ctx)]
<1>1. x \in AuthState /\ Quiet(s, x)
  BY SetText, QuietFields DEF Texts
<1>2. s.ctx.user \in Names
  BY StateFields, ContextFields
<1>3. y \in AuthState /\ Quiet(x, y)
  <2> HIDE DEF x
  <2> QED
    BY <1>1, <1>2, SetName, QuietFields
<1>4. Quiet(y, z)
  <2> HIDE DEF y
  <2> QED
    BY <1>3, QuietFields
<1>5. input_clear_passwd(s) = IF s.ctx = NoContext THEN y ELSE z
  BY DEF input_clear_passwd
<1> HIDE DEF x, y, z
<1> QED
  BY <1>1, <1>3, <1>4, <1>5, QuietTransitive

LEMMA SecureQuiet ==
  ASSUME NEW s \in AuthState, NEW on \in BOOLEAN
  PROVE  Quiet(s, input_secure(s, on))
<1> DEFINE r == [s EXCEPT !.secure = on]
           t == input_clear_passwd(r)
           u == [t EXCEPT !.collect = FALSE]
           b == auth_begin(u)
           v == [b.state EXCEPT !.revert = TRUE]
<1>1. r \in AuthState /\ Quiet(s, r)
  BY SetSecure, QuietFields
<1>2. t \in AuthState /\ Quiet(s, t)
  <2> HIDE DEF r
  <2> QED
    BY <1>1, ClearFields, ClearQuiet, QuietTransitive
<1>3. u \in AuthState /\ Quiet(s, u)
  <2> HIDE DEF t
  <2> QED
    BY <1>2, SetCollect, QuietFields, QuietTransitive
<1>4. b.state \in AuthState /\ Quiet(s, b.state)
  <2>1. b.state = u \/ b.state = [u EXCEPT !.window = "1"]
    BY DEF auth_begin, auth_window
  <2> HIDE DEF u, b
  <2>2. [u EXCEPT !.window = "1"] \in AuthState /\ Quiet(u, [u EXCEPT !.window = "1"])
    BY <1>3, SetWindow, QuietFields
  <2> QED
    BY <1>3, <2>1, <2>2, QuietTransitive
<1>5. Quiet(s, v)
  <2> HIDE DEF b
  <2> QED
    BY <1>4, QuietFields, QuietTransitive
<1>6. input_secure(s, on) \in {s, t, v, b.state}
  BY DEF input_secure
<1> HIDE DEF t, v, b
<1> QED
  BY <1>2, <1>4, <1>5, <1>6, QuietReflexive

LEMMA HiddenQuiet ==
  ASSUME NEW s, Sound(s)
  PROVE  Quiet(s, Hidden(s))
<1> DEFINE c == auth_clear_context(s)
           w == auth_window(c, FALSE)
<1>1. c \in AuthState /\ Quiet(s, c)
  BY ClearContext, QuietFields DEF Sound, auth_clear_context
<1> HIDE DEF c
<1>2. w \in AuthState /\ Quiet(c, w)
  BY <1>1, WindowKeeps, QuietFields DEF auth_window
<1> HIDE DEF w
<1>3. Quiet(w, input_secure(w, FALSE))
  BY <1>2, SecureQuiet
<1> QED
  BY <1>1, <1>2, <1>3, QuietTransitive DEF Hidden, w, c

\* A status is told, and the rest of the state is kept but for the session.
LEMMA StatusHeld ==
  ASSUME NEW s, Sound(s), NEW status, NEW hides \in BOOLEAN
  PROVE  LET t == auth_status(s, status, hides)
         IN  Held(s, t) /\ (t.status = "in_progress" <=> status = "in_progress")
<1> DEFINE v == IF status \in Statuses THEN status ELSE "failed"
           h == IF hides THEN Hidden(s) ELSE s
           t == [h EXCEPT !.status = v]
<1>1. v = "in_progress" <=> status = "in_progress"
  BY DEF Statuses
<1>2. h \in AuthState /\ Quiet(s, h)
  BY HiddenFields, HiddenQuiet, QuietReflexive DEF Sound
<1>3. auth_status(s, status, hides) = t
  BY DEF auth_status
<1> HIDE DEF v, h
<1>4. Held(h, t) /\ t.status = v
  BY <1>2, HeldStatus
<1> HIDE DEF t
<1>5. Held(s, t)
  BY <1>2, <1>4, HeldTransitive DEF Quiet
<1> QED
  BY <1>1, <1>3, <1>4, <1>5

LEMMA OkEnds ==
  ASSUME NEW s, Sound(s)
  PROVE  Ended(s, AuthOk(s))
<1> DEFINE yes == TRUE
           t == auth_status(s, "ok", yes)
<1>1. AuthOk(s) = t /\ yes \in BOOLEAN
  BY DEF AuthOk
<1> HIDE DEF yes
<1>2. Held(s, t) /\ (t.status = "in_progress" <=> "ok" = "in_progress")
  BY <1>1, StatusHeld
<1> QED
  BY <1>1, <1>2 DEF Ended

LEMMA ReportHeld ==
  ASSUME NEW s, Sound(s), NEW status
  PROVE  /\ Held(s, Reports(s, status))
         /\ (Reports(s, status).status = "in_progress" <=> status = "in_progress")
<1> DEFINE no == FALSE
<1>1. Reports(s, status) = auth_status(s, status, no) /\ no \in BOOLEAN
  BY DEF Reports
<1> HIDE DEF no
<1> QED
  BY <1>1, StatusHeld

LEMMA ContextQuiet ==
  ASSUME NEW s \in AuthState, NEW ctx \in Context
  PROVE  Quiet(s, auth_set_context(s, ctx))
<1> DEFINE c == [s EXCEPT !.ctx = ctx]
<1>1. c \in AuthState /\ Quiet(s, c)
  BY SetCtx, QuietFields DEF AnyContext
<1>2. auth_set_context(s, ctx) = [c EXCEPT !.status = "none"]
  BY DEF auth_set_context, auth_clear_status
<1> HIDE DEF c
<1>3. Quiet(c, [c EXCEPT !.status = "none"])
  BY <1>1, QuietFields
<1> QED
  BY <1>1, <1>2, <1>3, QuietTransitive

-----------------------------------------------------------------------------
(* Attempts to sign in and to set a password.                              *)

LEMMA FilesSession ==
  ASSUME NEW s, Sound(s), NEW gone, NEW new \in SUBSET Files
  PROVE  /\ Session(s, [s EXCEPT !.files = @ \ gone])
         /\ Session(s, [s EXCEPT !.files = @ \cup new])
         /\ Quiet(s, [s EXCEPT !.files = @ \ gone])
<1>1. s \in AuthState /\ s.files \in SUBSET Files
  BY StateFields DEF Sound
<1>2. s.files \ gone \in SUBSET Files /\ s.files \cup new \in SUBSET Files
  BY <1>1
<1>3. Quiet(s, [s EXCEPT !.files = s.files \ gone])
  <2> DEFINE t == [s EXCEPT !.files = s.files \ gone]
  <2>1. t.files = s.files \ gone /\ t.revert = s.revert /\ t.status = s.status
    BY <1>1, FileFields
  <2> HIDE DEF t
  <2>2. Quiet(s, t)
    BY <2>1 DEF Quiet, Held
  <2> QED
    BY <2>2 DEF t
<1> QED
  BY <1>1, <1>2, <1>3, SetFiles, KeepsSession

LEMMA UpdateCacheSession ==
  ASSUME NEW s, Sound(s), NEW user \in Names, NEW ctx \in Context
  PROVE  Session(s, auth_update_cache(s, user, ctx))
<1> DEFINE p == IF ctx.kind = "remote"
                  THEN [NoContext EXCEPT !.user = user, !.kind = "remote"]
                  ELSE [ctx EXCEPT !.user = user]
<1>1. s \in AuthState
  BY DEF Sound
<1>2. p \in AnyContext
  BY Remote, WithUser DEF AnyContext
<1>3. auth_update_cache(s, user, ctx) = [s EXCEPT !.platform = p]
  BY DEF auth_update_cache
<1> HIDE DEF p
<1> QED
  BY <1>1, <1>2, <1>3, SetPlatform, KeepsSession

LEMMA InProgressSession ==
  ASSUME NEW s, Sound(s)
  PROVE  Session(s, Reports(s, "in_progress"))
BY ReportSession

IsOutcome(o) == o = [state |-> o.state, recovery |-> o.recovery]

\* What local_auth leaves, whatever its scripts came to.
LEMMA LocalAuthSession ==
  ASSUME NEW s, Sound(s), NEW user \in Names, NEW ctx \in Context,
         NEW id, NEW remote_ok, NEW key, NEW auto,
         NEW o \in local_auth(s, user, id, remote_ok, key, ctx, auto)
  PROVE  Session(s, o.state) /\ IsOutcome(o)
<1> DEFINE begun == Reports(s, "in_progress")
           file == hash_file("local", user)
           cleaned(t) == IF auto THEN t ELSE [t EXCEPT !.files = @ \ {file}]
           done == AuthOk(auth_update_cache(begun, user, ctx))
<1>1. Session(s, begun)
  BY InProgressSession
<1>2. ASSUME NEW t, Session(s, t)
      PROVE  Session(s, cleaned(t))
  <2>1. Session(t, [t EXCEPT !.files = @ \ {file}])
    BY <1>2, FilesSession DEF Session
  <2> QED
    BY <1>2, <2>1, SessionTransitive
<1>3. Session(s, done)
  <2> DEFINE c == auth_update_cache(begun, user, ctx)
  <2>1. Sound(begun)
    BY <1>1 DEF Session
  <2>2. Session(begun, c)
    BY <2>1, UpdateCacheSession
  <2>3. Session(c, AuthOk(c))
    BY <2>2, OkSession DEF Session
  <2> QED
    BY <1>1, <2>2, <2>3, SessionTransitive
<1>4. ASSUME NEW v, v # "ok"
      PROVE  Session(s, Reports(begun, v))
  <2>1. Session(begun, Reports(begun, v))
    BY <1>1, <1>4, ReportSession DEF Session
  <2> QED
    BY <1>1, <2>1, SessionTransitive
<1>5. /\ IsOutcome(o)
      /\ \/ o.state = begun
         \/ o.state = cleaned(done)
         \/ \E v : v # "ok" /\ o.state = cleaned(Reports(begun, v))
  <2> DEFINE O(v) == CASE v = "recovery" -> [state |-> begun, recovery |-> TRUE]
                       [] v = "ok" -> [state |-> cleaned(done), recovery |-> FALSE]
                       [] OTHER -> [state |-> cleaned(Reports(begun, v)),
                                    recovery |-> FALSE]
             V == LocalVerdicts(file \in s.files, id, remote_ok, key,
                                ctx.kind = "remote")
  <2>1. local_auth(s, user, id, remote_ok, key, ctx, auto) = {O(v) : v \in V}
    BY DEF local_auth
  <2> HIDE DEF O, V
  <2>2. PICK v : o = O(v)
    BY <2>1
  <2> HIDE DEF begun, cleaned, done
  <2>3. CASE v = "recovery"
    BY <2>2, <2>3 DEF O, IsOutcome
  <2>4. CASE v = "ok"
    BY <2>2, <2>4 DEF O, IsOutcome
  <2>5. CASE v # "recovery" /\ v # "ok"
    <3>1. o = [state |-> cleaned(Reports(begun, v)), recovery |-> FALSE]
      BY <2>2, <2>5 DEF O
    <3> QED
      BY <2>5, <3>1 DEF IsOutcome
  <2> QED
    BY <2>3, <2>4, <2>5
<1> HIDE DEF begun, cleaned, done
<1> QED
  BY <1>1, <1>2, <1>3, <1>4, <1>5

LEMMA CacheQuiet ==
  ASSUME NEW s \in AuthState, NEW user, NEW ctx
  PROVE  Quiet(s, auth_update_cache(s, user, ctx))
BY QuietFields DEF auth_update_cache

\* What may come of a login while the scripts run: the backend is asked for the
\* recovery key only if the server knows the user.
LEMMA LocalVerdict ==
  ASSUME NEW have_file, NEW id, NEW remote_ok \in BOOLEAN, NEW key, NEW remote,
         NEW v \in LocalVerdicts(have_file, id, remote_ok, key, remote)
  PROVE  v # "in_progress" /\ (v = "recovery" => remote_ok)
<1> DEFINE Told == {"need_credentials", "internal_error", "no_userid", "not_exist", "ok",
                    "recovery_key_invalid"}
           Asks == IF remote_ok THEN {"recovery"} ELSE {}
           Created == {IF created = 0 /\ mounted = 0 THEN "ok" ELSE "internal_error" :
                         created \in user_create, mounted \in sec_check_pass_and_mount}
           Changed == {CASE changed < 0 -> "internal_error"
                         [] changed > 0 -> "recovery_key_invalid"
                         [] OTHER -> IF again = 0 THEN "ok" ELSE "internal_error" :
                         changed \in sec_change_pass, again \in sec_check_pass_and_mount}
           M(mounted) == CASE mounted < 0 -> {"internal_error"}
                           [] mounted = 0 -> {"ok"}
                           [] mounted > 0 /\ ~key ->
                                {IF remote_ok THEN "recovery" ELSE "need_credentials"}
                           [] mounted > 0 /\ key -> Changed
           Mounted == UNION {M(mounted) : mounted \in sec_check_pass_and_mount}
           C(check) == CASE check < 0 -> {"internal_error"}
                         [] check > 0 /\ remote /\ ~key ->
                              {IF remote_ok THEN "recovery" ELSE "not_exist"}
                         [] check > 0 /\ ~(remote /\ ~key) -> Created
                         [] check = 0 -> Mounted
<1>1. LocalVerdicts(have_file, id, remote_ok, key, remote) =
        IF ~have_file THEN {"need_credentials"}
        ELSE IF ~id THEN {IF remote_ok THEN "internal_error" ELSE "no_userid"}
        ELSE UNION {C(check) : check \in sec_check_user}
  BY DEF LocalVerdicts
<1>2. Created \subseteq Told /\ Changed \subseteq Told
  OBVIOUS
<1> HIDE DEF Created, Changed
<1>3. ASSUME NEW mounted \in sec_check_pass_and_mount
      PROVE  M(mounted) \subseteq Told \cup Asks
  <2>1. mounted \in {-1, 0, 1}
    BY DEF sec_check_pass_and_mount, sec_check_pass, sec_mount
  <2>2. CASE mounted = -1
    BY <2>2
  <2>3. CASE mounted = 0
    BY <2>3
  <2>4. CASE mounted = 1
    BY <1>2, <2>4
  <2> QED
    BY <2>1, <2>2, <2>3, <2>4
<1> HIDE DEF M
<1>4. Mounted \subseteq Told \cup Asks
  <2> HIDE DEF Told, Asks
  <2> QED
    BY <1>3
<1> HIDE DEF Mounted
<1>5. ASSUME NEW check \in sec_check_user
      PROVE  C(check) \subseteq Told \cup Asks
  <2>1. check \in {-1, 0, 1}
    BY DEF sec_check_user
  <2>2. CASE check = -1
    BY <2>2
  <2>3. CASE check = 0
    BY <1>4, <2>3
  <2>4. CASE check = 1
    BY <1>2, <2>4
  <2> QED
    BY <2>1, <2>2, <2>3, <2>4
<1> HIDE DEF C
<1>6. UNION {C(check) : check \in sec_check_user} \subseteq Told \cup Asks
  <2> HIDE DEF Told, Asks
  <2> QED
    BY <1>5
<1>7. v \in Told \cup Asks
  BY <1>1, <1>6
<1> QED
  BY <1>7

\* local_auth leaves no new file and says that it is in progress for a recovery
\* only; unless that or a login of the backend needs it, the local hash is gone.
LEMMA LocalAuthHeld ==
  ASSUME NEW s, Sound(s), NEW user \in Names, NEW ctx \in Context,
         NEW id, NEW remote_ok \in BOOLEAN, NEW key, NEW auto,
         NEW o \in local_auth(s, user, id, remote_ok, key, ctx, auto)
  PROVE  /\ Held(s, o.state)
         /\ o.state.status = "in_progress" => o.recovery
         /\ o.recovery => remote_ok
         /\ ~auto /\ ~o.recovery => hash_file("local", user) \notin o.state.files
<1> DEFINE begun == Reports(s, "in_progress")
           file == hash_file("local", user)
           cleaned(t) == IF auto THEN t ELSE [t EXCEPT !.files = @ \ {file}]
           cache == auth_update_cache(begun, user, ctx)
           done == AuthOk(cache)
           V == LocalVerdicts(file \in s.files, id, remote_ok, key, ctx.kind = "remote")
           O(v) == CASE v = "recovery" -> [state |-> begun, recovery |-> TRUE]
                     [] v = "ok" -> [state |-> cleaned(done), recovery |-> FALSE]
                     [] OTHER -> [state |-> cleaned(Reports(begun, v)), recovery |-> FALSE]
<1>1. Sound(begun) /\ Held(s, begun)
  BY InProgressSession, ReportHeld DEF Session
<1>2. local_auth(s, user, id, remote_ok, key, ctx, auto) = {O(v) : v \in V}
  BY DEF local_auth
<1>3. ASSUME NEW v \in V
      PROVE  v # "in_progress" /\ (v = "recovery" => remote_ok)
  <2> DEFINE a == file \in s.files
             b == ctx.kind = "remote"
  <2>1. v \in LocalVerdicts(a, id, remote_ok, key, b)
    OBVIOUS
  <2> HIDE DEF a, b, V
  <2> QED
    BY <2>1, LocalVerdict
<1> HIDE DEF begun
<1>4. Sound(done) /\ Held(s, done) /\ done.status # "in_progress"
  <2>1. Session(begun, cache) /\ Quiet(begun, cache)
    BY <1>1, UpdateCacheSession, CacheQuiet DEF Sound
  <2> HIDE DEF cache
  <2>2. Sound(done) /\ Ended(cache, done)
    BY <2>1, OkEnds, OkSession DEF Session
  <2> QED
    BY <1>1, <2>1, <2>2, HeldTransitive DEF Quiet, Ended
<1>5. ASSUME NEW v, v # "ok", v # "in_progress"
      PROVE  LET t == Reports(begun, v)
             IN  Sound(t) /\ Held(s, t) /\ t.status # "in_progress"
  BY <1>1, <1>5, ReportSession, ReportHeld, HeldTransitive DEF Session
<1>6. ASSUME NEW t, Sound(t), Held(s, t), t.status # "in_progress"
      PROVE  /\ Held(s, cleaned(t)) /\ cleaned(t).status # "in_progress"
             /\ ~auto => file \notin cleaned(t).files
  <2>1. t \in AuthState
    BY <1>6 DEF Sound
  <2> DEFINE u == [t EXCEPT !.files = t.files \ {file}]
  <2>2. u.files = t.files \ {file} /\ u.revert = t.revert /\ u.status = t.status
    BY <2>1, FileFields
  <2> HIDE DEF u
  <2>3. cleaned(t) = IF auto THEN t ELSE u
    BY DEF u
  <2> HIDE DEF cleaned, file
  <2> QED
    BY <1>6, <2>2, <2>3 DEF Held
<1> HIDE DEF O, V
<1>7. PICK v \in V : o = O(v)
  BY <1>2
<1> HIDE DEF done, cleaned, file
<1>8. CASE v = "recovery"
  <2>1. o = [state |-> begun, recovery |-> TRUE]
    BY <1>7, <1>8 DEF O
  <2>2. o.state = begun /\ o.recovery = TRUE
    BY <2>1
  <2> QED
    BY <1>1, <1>3, <1>8, <2>2
<1>9. ASSUME NEW t, Sound(t), Held(s, t), t.status # "in_progress",
             o = [state |-> cleaned(t), recovery |-> FALSE]
      PROVE  /\ Held(s, o.state)
             /\ o.state.status # "in_progress" /\ o.recovery = FALSE
             /\ ~auto => file \notin o.state.files
  <2>1. o.state = cleaned(t) /\ o.recovery = FALSE
    BY <1>9
  <2> QED
    BY <1>6, <1>9, <2>1
<1>10. CASE v = "ok"
  <2>1. o = [state |-> cleaned(done), recovery |-> FALSE]
    BY <1>7, <1>10 DEF O
  <2> QED
    BY <1>4, <1>9, <2>1 DEF file
<1>11. CASE v # "ok" /\ v # "recovery"
  <2>1. o = [state |-> cleaned(Reports(begun, v)), recovery |-> FALSE]
    BY <1>7, <1>11 DEF O
  <2> QED
    BY <1>3, <1>5, <1>9, <1>11, <2>1 DEF file
<1> QED
  BY <1>8, <1>10, <1>11

\* An answer ends the attempt at once, or the local password decides.
LEMMA AnswerKnown ==
  ASSUME NEW answer \in RemoteStatuses
  PROVE  answer \in DOMAIN RemoteStatus \cup Unreachable \cup {"OK"}
BY SecureAssumption DEF SecureAssumption

\* The answers that end an attempt at once are none of success.
LEMMA RemoteStatusFails ==
  ASSUME NEW answer \in DOMAIN RemoteStatus
  PROVE  RemoteStatus[answer] # "ok"
BY DEF RemoteStatus

LEMMA AnswerSession ==
  ASSUME NEW s, Sound(s), NEW user \in Names, NEW auto,
         NEW answer \in RemoteStatuses,
         NEW o \in AnswerStates(s, user, answer, auto)
  PROVE  Session(s, o.state)
<1>7. [NoContext EXCEPT !.kind = "remote"] \in Context
  BY Remote
<1> DEFINE used == IF auto THEN s
                   ELSE [s EXCEPT !.files = @ \ {hash_file("remote", user)}]
           remote == [NoContext EXCEPT !.kind = "remote"]
           told == [state |-> Reports(used, RemoteStatus[answer]), recovery |-> FALSE]
           ByPassword == {local_auth(used, user, id, answer = "OK", key, remote, auto) :
                            id \in BOOLEAN, key \in BOOLEAN}
           outcomes == IF answer \in Unreachable \cup {"OK"}
                         THEN UNION ByPassword ELSE {told}
           Clean(p) == IF auto \/ p.recovery THEN p
                       ELSE [p EXCEPT !.state.files = @ \ {hash_file("local", user)}]
<1>1. Session(s, used)
  BY FilesSession, SessionReflexive
<1>0. AnswerStates(s, user, answer, auto) = {Clean(p) : p \in outcomes}
  BY DEF AnswerStates
<1>2. ASSUME NEW p \in outcomes
      PROVE  Session(s, p.state) /\ IsOutcome(p)
  <2> HIDE DEF used
  <2>1. CASE answer \in Unreachable \cup {"OK"}
    <3>1. PICK X \in ByPassword : p \in X
      <4> HIDE DEF ByPassword, told
      <4> QED
        BY <1>2, <2>1
    <3>2. PICK id \in BOOLEAN, key \in BOOLEAN :
            X = local_auth(used, user, id, answer = "OK", key, remote, auto)
      <4> HIDE DEF remote
      <4> QED
        BY <3>1
    <3>3. remote \in Context
      <4> HIDE DEF ByPassword, outcomes, told, Clean
      <4> QED
        BY <1>7
    <3> DEFINE ok == answer = "OK"
    <3>5. p \in local_auth(used, user, id, ok, key, remote, auto)
      <4> HIDE DEF remote, ByPassword
      <4> QED
        BY <3>1, <3>2
    <3>6. Sound(used)
      BY <1>1 DEF Session
    <3> HIDE DEF remote, ok, ByPassword, outcomes, told
    <3>4. Session(used, p.state) /\ IsOutcome(p)
      BY <3>3, <3>5, <3>6, LocalAuthSession
    <3> QED
      BY <1>1, <3>4, SessionTransitive
  <2>2. CASE answer \notin Unreachable \cup {"OK"}
    <3>1. answer \in DOMAIN RemoteStatus
      BY <2>2, AnswerKnown
    <3>2. RemoteStatus[answer] # "ok"
      BY <3>1, RemoteStatusFails
    <3>3. Session(used, Reports(used, RemoteStatus[answer]))
      BY <1>1, <3>2, ReportSession DEF Session
    <3>4. p = told
      <4> HIDE DEF ByPassword, told
      <4> QED
        BY <1>2, <2>2
    <3>5. p.state = Reports(used, RemoteStatus[answer]) /\ IsOutcome(p)
      BY <3>4 DEF IsOutcome
    <3> QED
      BY <1>1, <3>3, <3>5, SessionTransitive
  <2> QED
    BY <2>1, <2>2
<1> HIDE DEF outcomes
<1>3. PICK p \in outcomes : o = Clean(p)
  BY <1>0
<1>6. Session(s, p.state) /\ p = [state |-> p.state, recovery |-> p.recovery]
  BY <1>2 DEF IsOutcome
<1>4. \/ o.state = p.state
      \/ o.state = [p.state EXCEPT !.files = @ \ {hash_file("local", user)}]
  <2> DEFINE S == p.state
             R == p.recovery
  <2>1. p = [state |-> S, recovery |-> R]
    BY <1>6
  <2> HIDE DEF S, R
  <2>2. [p EXCEPT !.state.files = @ \ {hash_file("local", user)}].state
           = [p.state EXCEPT !.files = @ \ {hash_file("local", user)}]
    BY <2>1
  <2> QED
    BY <1>3, <2>2
<1> HIDE DEF Clean
<1>5. Session(p.state, [p.state EXCEPT !.files = @ \ {hash_file("local", user)}])
  BY <1>6, FilesSession DEF Session
<1> QED
  BY <1>4, <1>5, <1>6, SessionTransitive

\* An answer leaves no new file, and says that it is in progress only if it is or
\* if the recovery key is awaited.  One to a login that was asked for leaves
\* neither hash of the user, unless the recovery needs the local one.
LEMMA AnswerHeld ==
  ASSUME NEW s, Sound(s), NEW user \in Names, NEW auto,
         NEW answer \in RemoteStatuses,
         NEW o \in AnswerStates(s, user, answer, auto)
  PROVE  /\ Held(s, o.state)
         /\ o.state.status = "in_progress" => o.recovery \/ answer = "IN_PROGRESS"
         /\ ~auto => hash_file("remote", user) \notin o.state.files
         /\ ~auto /\ ~o.recovery => hash_file("local", user) \notin o.state.files
<1> DEFINE rfile == hash_file("remote", user)
           lfile == hash_file("local", user)
           used == IF auto THEN s ELSE [s EXCEPT !.files = s.files \ {rfile}]
           remote == [NoContext EXCEPT !.kind = "remote"]
           ok == answer = "OK"
           told == [state |-> Reports(used, RemoteStatus[answer]), recovery |-> FALSE]
           ByPassword == {local_auth(used, user, id, ok, key, remote, auto) :
                            id \in BOOLEAN, key \in BOOLEAN}
           outcomes == IF answer \in Unreachable \cup {"OK"}
                         THEN UNION ByPassword ELSE {told}
           Clean(p) == IF auto \/ p.recovery THEN p
                       ELSE [p EXCEPT !.state.files = @ \ {lfile}]
<1>1. AnswerStates(s, user, answer, auto) = {Clean(p) : p \in outcomes}
  BY DEF AnswerStates
<1>2. /\ Sound(used) /\ Held(s, used)
      /\ ~auto => rfile \notin used.files
  <2> DEFINE u == [s EXCEPT !.files = s.files \ {rfile}]
  <2>1. Sound(u)
    BY FilesSession DEF Session
  <2>2. u.files = s.files \ {rfile} /\ u.revert = s.revert
    BY FileFields DEF Sound
  <2> HIDE DEF u, rfile
  <2>3. used = IF auto THEN s ELSE u
    BY DEF u
  <2> QED
    BY <2>1, <2>2, <2>3 DEF Held
<1>3. remote \in Context /\ ok \in BOOLEAN
  BY Remote
<1> HIDE DEF rfile, lfile, remote
<1>4. ASSUME NEW p \in outcomes
      PROVE  /\ Sound(p.state) /\ Held(used, p.state) /\ IsOutcome(p)
             /\ p.state.status = "in_progress" => p.recovery \/ answer = "IN_PROGRESS"
  <2> HIDE DEF used
  <2>1. CASE answer \in Unreachable \cup {"OK"}
    <3>1. PICK X \in ByPassword : p \in X
      <4> HIDE DEF ByPassword, told
      <4> QED
        BY <1>4, <2>1
    <3>2. PICK id \in BOOLEAN, key \in BOOLEAN :
            X = local_auth(used, user, id, ok, key, remote, auto)
      <4> HIDE DEF ok
      <4> QED
        BY <3>1
    <3> HIDE DEF ok, ByPassword, outcomes, told
    <3>3. p \in local_auth(used, user, id, ok, key, remote, auto)
      BY <3>1, <3>2
    <3>4. Session(used, p.state) /\ IsOutcome(p)
      BY <1>2, <1>3, <3>3, LocalAuthSession
    <3>5. Held(used, p.state) /\ (p.state.status = "in_progress" => p.recovery)
      BY <1>2, <1>3, <3>3, LocalAuthHeld
    <3> QED
      BY <3>4, <3>5 DEF Session
  <2>2. CASE answer \notin Unreachable \cup {"OK"}
    <3> DEFINE r == RemoteStatus[answer]
    <3>1. answer \in DOMAIN RemoteStatus
      BY <2>2, AnswerKnown
    <3>2. r # "ok" /\ (r = "in_progress" => answer = "IN_PROGRESS")
      BY <3>1, RemoteStatusFails DEF RemoteStatus
    <3>3. p = told
      <4> HIDE DEF ByPassword, told
      <4> QED
        BY <1>4, <2>2
    <3> HIDE DEF r
    <3>4. Session(used, Reports(used, r)) /\ Held(used, Reports(used, r))
          /\ (Reports(used, r).status = "in_progress" => r = "in_progress")
      BY <1>2, <3>2, ReportSession, ReportHeld
    <3>5. p.state = Reports(used, r) /\ IsOutcome(p)
      BY <3>3 DEF IsOutcome, r
    <3> QED
      BY <3>2, <3>4, <3>5 DEF Session
  <2> QED
    BY <2>1, <2>2
<1> HIDE DEF outcomes, ok, used
<1>5. PICK p \in outcomes : o = Clean(p)
  BY <1>1
<1> DEFINE S == p.state
           R == p.recovery
           c == [S EXCEPT !.files = S.files \ {lfile}]
<1>6. /\ Sound(S) /\ Held(used, S) /\ p = [state |-> S, recovery |-> R]
      /\ S.status = "in_progress" => R \/ answer = "IN_PROGRESS"
  BY <1>4 DEF IsOutcome
<1>7. c.files = S.files \ {lfile} /\ c.revert = S.revert /\ c.status = S.status
  <2> HIDE DEF S
  <2> QED
    BY <1>6, FileFields DEF Sound
<1>8. /\ o.state = IF auto \/ R THEN S ELSE c
      /\ o.recovery = R
  <2> HIDE DEF S, R
  <2>1. [p EXCEPT !.state.files = @ \ {lfile}] = [state |-> c, recovery |-> R]
    BY <1>6
  <2> QED
    BY <1>5, <1>6, <2>1
<1> HIDE DEF S, R, c
<1> QED
  BY <1>2, <1>6, <1>7, <1>8 DEF Held, rfile, lfile

LEMMA PasswordVerdict ==
  ASSUME NEW v \in PasswordVerdicts
  PROVE  v # "in_progress"
<1> DEFINE Told == {"internal_error", "ok", "recovery_key_invalid"}
           Created == {IF created = 0 /\ mounted = 0 THEN "ok" ELSE "internal_error" :
                         created \in user_create, mounted \in sec_check_pass_and_mount}
           Changed == {CASE changed < 0 -> "internal_error"
                         [] changed > 0 -> "recovery_key_invalid"
                         [] OTHER -> IF recover = 0 /\ mounted = 0 THEN "ok"
                                     ELSE "internal_error" :
                         changed \in sec_change_pass, recover \in sec_change_recovery,
                         mounted \in sec_check_pass_and_mount}
           C(check) == CASE check < 0 -> {"internal_error"}
                         [] check > 0 -> Created
                         [] check = 0 -> Changed
<1>1. PasswordVerdicts = {"internal_error"} \cup UNION {C(check) : check \in sec_check_user}
  BY DEF PasswordVerdicts
<1>2. Created \subseteq Told /\ Changed \subseteq Told
  OBVIOUS
<1> HIDE DEF Created, Changed
<1>3. ASSUME NEW check \in sec_check_user
      PROVE  C(check) \subseteq Told
  <2>1. check \in {-1, 0, 1}
    BY DEF sec_check_user
  <2>2. CASE check = -1
    BY <2>2
  <2>3. CASE check = 0
    BY <1>2, <2>3
  <2>4. CASE check = 1
    BY <1>2, <2>4
  <2> QED
    BY <2>1, <2>2, <2>3, <2>4
<1> HIDE DEF C
<1>4. v \in Told
  BY <1>1, <1>3
<1> QED
  BY <1>4

\* A new local password: whatever the scripts come to, its hash is gone.
LEMMA PasswordSession ==
  ASSUME NEW s, Sound(s), NEW user \in Names,
         NEW t \in change_or_create_local_password(s, user)
  PROVE  Session(s, t) /\ Ended(s, t)
<1> DEFINE begun == Reports(s, "in_progress")
           local == [NoContext EXCEPT !.kind = "local"]
           Clean(u) == [u EXCEPT !.files = @ \ {hash_file("local", user)}]
           Failed(v) == Clean(Reports(begun, v))
           done == Clean(AuthOk(auth_update_cache(begun, user, local)))
           O(v) == IF v = "ok" THEN done ELSE Failed(v)
<1>1. local \in Context
  BY Remote
<1>2. change_or_create_local_password(s, user) = {O(v) : v \in PasswordVerdicts}
  BY DEF change_or_create_local_password
<1> HIDE DEF local
<1>3. Session(s, begun) /\ Held(s, begun)
  BY InProgressSession, ReportHeld
<1> HIDE DEF begun
<1>4. ASSUME NEW u, Session(s, u), Ended(s, u)
      PROVE  Session(s, Clean(u)) /\ Ended(s, Clean(u))
  <2>1. Session(u, Clean(u)) /\ Quiet(u, Clean(u))
    BY <1>4, FilesSession DEF Session
  <2> HIDE DEF Clean
  <2> QED
    BY <1>4, <2>1, SessionTransitive, HeldTransitive DEF Quiet, Ended
<1>5. Session(s, done) /\ Ended(s, done)
  <2> DEFINE c == auth_update_cache(begun, user, local)
  <2>1. Sound(begun)
    BY <1>3 DEF Session
  <2>2. Session(begun, c) /\ Quiet(begun, c)
    BY <1>1, <2>1, UpdateCacheSession, CacheQuiet DEF Sound
  <2> HIDE DEF c
  <2>3. Session(c, AuthOk(c)) /\ Ended(c, AuthOk(c))
    BY <2>2, OkSession, OkEnds DEF Session
  <2>4. Session(s, AuthOk(c)) /\ Ended(s, AuthOk(c))
    BY <1>3, <2>2, <2>3, SessionTransitive, HeldTransitive DEF Quiet, Ended
  <2>5. Session(s, Clean(AuthOk(c))) /\ Ended(s, Clean(AuthOk(c)))
    <3> HIDE DEF Clean
    <3> QED
      BY <1>4, <2>4
  <2> QED
    BY <2>5 DEF c
<1>6. ASSUME NEW v, v # "ok", v # "in_progress"
      PROVE  Session(s, Failed(v)) /\ Ended(s, Failed(v))
  <2>1. Session(begun, Reports(begun, v)) /\ Ended(begun, Reports(begun, v))
    BY <1>3, <1>6, ReportSession, ReportHeld DEF Session, Ended
  <2>2. Session(s, Reports(begun, v)) /\ Ended(s, Reports(begun, v))
    BY <1>3, <2>1, SessionTransitive, HeldTransitive DEF Ended
  <2> HIDE DEF Clean
  <2> QED
    BY <1>4, <2>2
<1> HIDE DEF O
<1>7. PICK v \in PasswordVerdicts : t = O(v)
  BY <1>2
<1>8. v # "in_progress"
  BY PasswordVerdict
<1> HIDE DEF done, Failed
<1> QED
  BY <1>5, <1>6, <1>7, <1>8 DEF O

LEMMA RootSession ==
  ASSUME NEW s, Sound(s), NEW r \in change_root_password(s)
  PROVE  Session(s, r.state) /\ Held(s, r.state)
<1> DEFINE begun == Reports(s, "in_progress")
<1>1. Session(s, begun) /\ Held(s, begun)
  BY InProgressSession, ReportHeld
<1>2. r.state = begun
  <2> HIDE DEF begun
  <2>1. change_root_password(s) =
          {[state |-> begun, changed |-> have = FALSE /\ status = 0] :
             have \in BOOLEAN, status \in sec_change_root_credentials}
    BY DEF change_root_password, begun
  <2> QED
    BY <2>1
<1> QED
  BY <1>1, <1>2

-----------------------------------------------------------------------------
(* Attempts: the state is one of the session, the backend is asked for a   *)
(* user, what is leaked are hash files; a new file is leaked or the user's *)
(* for whom the backend is asked, and only then is it said to be in        *)
(* progress.                                                               *)

Accounted(s, user, o) ==
    /\ \A f \in o.state.files : f \in s.files \/ f \in o.leaked \/ (o.asks /\ f[2] = user)
    /\ o.state.status = "in_progress" => o.asks
    /\ s.revert => o.state.revert

Attempted(s, user, o) ==
    /\ Session(s, o.state)
    /\ o.asks \in BOOLEAN /\ (o.asks => user \in Users)
    /\ o.leaked \in SUBSET Files
    /\ Accounted(s, user, o)

LEMMA StartLoginSession ==
  ASSUME NEW s, Sound(s), NEW user \in Users, NEW o \in StartLogin(s, user)
  PROVE  Attempted(s, user, o)
<1> DEFINE local == hash_file("local", user)
           remote == hash_file("remote", user)
           one == [s EXCEPT !.files = @ \cup {local}]
           both == [s EXCEPT !.files = @ \cup {local, remote}]
           s1 == Reports(s, "internal_error")
           s2 == Reports(one, "internal_error")
           s3 == Reports(both, "in_progress")
<1>1. {local} \in SUBSET Files /\ {local, remote} \in SUBSET Files
  BY DEF hash_file, Files
<1>2. StartLogin(s, user) =
        {[state |-> s1, asks |-> FALSE, leaked |-> {}],
         [state |-> s2, asks |-> FALSE, leaked |-> {local}],
         [state |-> s3, asks |-> TRUE, leaked |-> {}]}
  BY DEF StartLogin
<1> HIDE DEF local, remote
<1>3. Session(s, one) /\ Session(s, both)
  BY <1>1, FilesSession
<1> HIDE DEF one, both
<1>4. Session(s, s1)
  BY ReportSession
<1>5. Session(s, s2)
  <2>1. Session(one, s2)
    BY <1>3, ReportSession DEF Session
  <2> QED
    BY <1>3, <2>1, SessionTransitive
<1>6. Session(s, s3)
  <2>1. Session(both, s3)
    BY <1>3, ReportSession DEF Session
  <2> QED
    BY <1>3, <2>1, SessionTransitive
<1>9. Held(s, s1) /\ Held(one, s2) /\ Held(both, s3)
      /\ s1.status # "in_progress" /\ s2.status # "in_progress"
  BY <1>3, ReportHeld DEF Session
<1> HIDE DEF s1, s2, s3
<1>10. /\ one.files = s.files \cup {local} /\ one.revert = s.revert
       /\ both.files = s.files \cup {local, remote} /\ both.revert = s.revert
  BY FileFields DEF Sound, one, both
<1>11. local[2] = user /\ remote[2] = user
  BY DEF local, remote, hash_file
<1>7. /\ o.state = s1 \/ o.state = s2 \/ o.state = s3
      /\ o.asks \in BOOLEAN
      /\ o.leaked = {} \/ o.leaked = {local}
      /\ Accounted(s, user, o)
  <2>1. CASE o = [state |-> s1, asks |-> FALSE, leaked |-> {}]
    <3>1. o.state = s1 /\ o.asks = FALSE /\ o.leaked = {}
      BY <2>1
    <3> QED
      BY <1>9, <3>1 DEF Accounted, Held
  <2>2. CASE o = [state |-> s2, asks |-> FALSE, leaked |-> {local}]
    <3>1. o.state = s2 /\ o.asks = FALSE /\ o.leaked = {local}
      BY <2>2
    <3> QED
      BY <1>9, <1>10, <3>1 DEF Accounted, Held
  <2>3. CASE o = [state |-> s3, asks |-> TRUE, leaked |-> {}]
    <3>1. o.state = s3 /\ o.asks = TRUE /\ o.leaked = {}
      BY <2>3
    <3> QED
      BY <1>9, <1>10, <1>11, <3>1 DEF Accounted, Held
  <2> QED
    BY <1>2, <2>1, <2>2, <2>3
<1>8. Session(s, o.state)
  BY <1>4, <1>5, <1>6, <1>7
<1> QED
  BY <1>1, <1>7, <1>8 DEF Attempted

\* An attempt that ends at once asks for nothing.
LEMMA EndsSession ==
  ASSUME NEW s, NEW user, NEW S, \A t \in S : Session(s, t) /\ Ended(s, t),
         NEW o \in Ends(S)
  PROVE  Attempted(s, user, o)
<1>1. PICK t \in S : o = [state |-> t, asks |-> FALSE, leaked |-> {}]
  BY DEF Ends
<1>2. o.state = t /\ o.asks = FALSE /\ o.leaked = {}
  BY <1>1
<1>3. Session(s, o.state) /\ Ended(s, o.state)
  BY <1>2
<1>4. Accounted(s, user, o)
  BY <1>2, <1>3 DEF Accounted, Ended, Held
<1> QED
  BY <1>2, <1>3, <1>4 DEF Attempted

LEMMA EndsFailing ==
  ASSUME NEW s, Sound(s), NEW user, NEW status, status # "ok", status # "in_progress",
         NEW o \in Ends({Reports(s, status)})
  PROVE  Attempted(s, user, o)
<1>1. \A t \in {Reports(s, status)} : Session(s, t) /\ Ended(s, t)
  BY ReportSession, ReportHeld DEF Ended
<1> QED
  BY <1>1, EndsSession

\* The enter key with a root password.
LEMMA EndRoot ==
  ASSUME NEW s, Sound(s), NEW user,
         NEW o \in Ends({IF r.changed THEN AuthOk(r.state)
                         ELSE Reports(r.state, "internal_error") :
                            r \in change_root_password(s)})
  PROVE  Attempted(s, user, o)
<1> DEFINE After(r) == IF r.changed THEN AuthOk(r.state)
                       ELSE Reports(r.state, "internal_error")
           S == {After(r) : r \in change_root_password(s)}
<1>1. ASSUME NEW r \in change_root_password(s)
      PROVE  Session(s, After(r)) /\ Ended(s, After(r))
  <2>1. Session(s, r.state) /\ Held(s, r.state)
    BY RootSession
  <2>2. Sound(r.state)
    BY <2>1 DEF Session
  <2> DEFINE t == After(r)
  <2>3. Session(r.state, AuthOk(r.state)) /\ Ended(r.state, AuthOk(r.state))
    BY <2>2, OkSession, OkEnds
  <2>4. /\ Session(r.state, Reports(r.state, "internal_error"))
        /\ Ended(r.state, Reports(r.state, "internal_error"))
    BY <2>2, ReportSession, ReportHeld DEF Ended
  <2>5. Session(r.state, t) /\ Ended(r.state, t)
    BY <2>3, <2>4
  <2> HIDE DEF t
  <2>6. Session(s, t) /\ Ended(s, t)
    BY <2>1, <2>5, SessionTransitive, HeldTransitive DEF Ended
  <2> QED
    BY <2>6 DEF t
<1>2. o \in Ends(S)
  OBVIOUS
<1> HIDE DEF After
<1>3. \A t \in S : Session(s, t) /\ Ended(s, t)
  BY <1>1
<1> HIDE DEF S
<1> QED
  BY <1>2, <1>3, EndsSession

LEMMA LocalFile ==
  ASSUME NEW user \in Users
  PROVE  {hash_file("local", user)} \in SUBSET Files /\ user \in Names
<1>1. <<"local", user>> \in Files
  BY DEF Files
<1> QED
  BY <1>1 DEF hash_file, Names

\* The enter key with a local password.
LEMMA EndLocal ==
  ASSUME NEW s, Sound(s), NEW user \in Users, NEW ctx \in Context,
         NEW o \in Ends({Reports(s, "internal_error")} \cup
                        {q.state : q \in local_auth(
                           [s EXCEPT !.files = @ \cup {hash_file("local", user)}],
                           user, TRUE, FALSE, FALSE, ctx, FALSE)})
  PROVE  Attempted(s, user, o)
<1> DEFINE file == hash_file("local", user)
           written == [s EXCEPT !.files = @ \cup {file}]
           L == local_auth(written, user, TRUE, FALSE, FALSE, ctx, FALSE)
           S == {Reports(s, "internal_error")} \cup {q.state : q \in L}
<1>0. o \in Ends(S)
  OBVIOUS
<1>1. {file} \in SUBSET Files /\ user \in Names
  <2> HIDE DEF S, L, written
  <2> QED
    BY LocalFile
<1>2. Session(s, written)
  BY <1>1, FilesSession
<1>6. written.files = s.files \cup {file} /\ written.revert = s.revert
  BY FileFields DEF Sound
<1>3. /\ Session(s, Reports(s, "internal_error"))
      /\ Ended(s, Reports(s, "internal_error"))
  BY ReportSession, ReportHeld DEF Ended
<1> HIDE DEF written
<1>4. ASSUME NEW q \in L
      PROVE  Session(s, q.state) /\ Ended(s, q.state)
  <2> DEFINE yes == TRUE
             no == FALSE
  <2>1. q \in local_auth(written, user, yes, no, no, ctx, no) /\ no \in BOOLEAN /\ ~no
    OBVIOUS
  <2>2. Sound(written)
    BY <1>2 DEF Session
  <2> HIDE DEF yes, no, L
  <2>3. Session(written, q.state)
    BY <1>1, <2>1, <2>2, LocalAuthSession
  <2>4. /\ Held(written, q.state) /\ ~q.recovery /\ q.state.status # "in_progress"
        /\ file \notin q.state.files
    BY <1>1, <2>1, <2>2, LocalAuthHeld
  <2>5. Ended(s, q.state)
    <3> HIDE DEF file
    <3> QED
      BY <1>6, <2>4 DEF Ended, Held
  <2> QED
    BY <1>2, <2>3, <2>5, SessionTransitive
<1> HIDE DEF L
<1>5. \A t \in S : Session(s, t) /\ Ended(s, t)
  BY <1>3, <1>4
<1> HIDE DEF S
<1> QED
  BY <1>0, <1>5, EndsSession

LEMMA EndPassword ==
  ASSUME NEW s, Sound(s), NEW user \in Names,
         NEW o \in Ends(change_or_create_local_password(s, user))
  PROVE  Attempted(s, user, o)
BY PasswordSession, EndsSession

LEMMA EndSession ==
  ASSUME NEW s, Sound(s), NEW o \in auth_end(s)
  PROVE  Attempted(s, s.name, o)
<1> DEFINE ctx == s.ctx
           user == s.name
           Root == Ends({IF r.changed THEN AuthOk(r.state)
                         ELSE Reports(r.state, "internal_error") :
                            r \in change_root_password(s)})
           Local == Ends({Reports(s, "internal_error")} \cup
                         {q.state : q \in local_auth(
                            [s EXCEPT !.files = @ \cup {hash_file("local", user)}],
                            user, TRUE, FALSE, FALSE, ctx, FALSE)})
           Failing(status) == Ends({Reports(s, status)})
           Agreed ==
             CASE ctx.kind = "root" ->
                    IF "password" \notin s.text THEN Failing("need_password") ELSE Root
               [] ctx.kind # "root" /\ user = NoUser -> Failing("need_credentials")
               [] ctx.kind \in {"set_local", "change_local"} /\ user # NoUser ->
                    Ends(change_or_create_local_password(s, user))
               [] ctx.kind = "remote" /\ user # NoUser -> StartLogin(s, user)
               [] ctx.kind = "local" /\ user # NoUser -> Local
<1>1. auth_end(s) =
        IF ~auth_window_shown(s) \/ ctx = NoContext THEN Failing("internal_error")
        ELSE Agreed \cup (IF ctx.confirm THEN Failing("confirm_failed") ELSE {})
  BY DEF auth_end
<1>2. user \in Names /\ ctx \in AnyContext
  BY StateFields DEF Sound
<1>3. ASSUME NEW status, status # "ok", status # "in_progress", o \in Failing(status)
      PROVE  Attempted(s, user, o)
  BY <1>3, EndsFailing
<1>4. ASSUME o \in Root
      PROVE  Attempted(s, user, o)
  BY <1>4, EndRoot
<1>5. ASSUME o \in Local, user \in Users, ctx \in Context
      PROVE  Attempted(s, user, o)
  BY <1>5, EndLocal
<1>6. ASSUME o \in Ends(change_or_create_local_password(s, user))
      PROVE  Attempted(s, user, o)
  BY <1>2, <1>6, EndPassword
<1>7. ASSUME o \in StartLogin(s, user), user \in Users
      PROVE  Attempted(s, user, o)
  BY <1>7, StartLoginSession
<1> HIDE DEF Root, Local, Failing, user, ctx
<1>8. ASSUME ctx # NoContext, o \in Agreed
      PROVE  Attempted(s, user, o)
  <2>1. ctx \in Context /\ ctx.kind \in Kinds
    BY <1>2, <1>8 DEF AnyContext, Context
  <2>2. user # NoUser => user \in Users
    BY <1>2 DEF Names
  <2>3. \/ o \in Failing("need_password")
        \/ o \in Root
        \/ o \in Failing("need_credentials")
        \/ o \in Ends(change_or_create_local_password(s, user))
        \/ o \in StartLogin(s, user) /\ user # NoUser
        \/ o \in Local /\ user # NoUser
    BY <1>8, <2>1 DEF Kinds
  <2> HIDE DEF Agreed
  <2> QED
    BY <1>3, <1>4, <1>5, <1>6, <1>7, <2>1, <2>2, <2>3
<1>9. \/ o \in Failing("internal_error")
      \/ o \in Failing("confirm_failed")
      \/ ctx # NoContext /\ o \in Agreed
  <2> HIDE DEF Agreed
  <2> QED
    BY <1>1
<1>10. Attempted(s, user, o)
  <2> HIDE DEF Agreed
  <2> QED
    BY <1>3, <1>8, <1>9
<1> QED
  BY <1>10 DEF user

LEMMA RemoteLoginSession ==
  ASSUME NEW s, Sound(s), NEW user \in Users, NEW o \in auth_remote_login(s, user)
  PROVE  Attempted(s, user, o)
<1>1. o \in Ends({Reports(s, "internal_error")}) \/ o \in StartLogin(s, user)
  BY DEF auth_remote_login
<1> QED
  BY <1>1, EndsFailing, StartLoginSession

-----------------------------------------------------------------------------
(* Contexts made from the database, and the other requests.                *)

LEMMA PlatformSession ==
  ASSUME NEW s, Sound(s), NEW ctx \in Context
  PROVE  Sound(input_secure(auth_set_context(s, ctx), TRUE))
<1> DEFINE t == auth_set_context(s, ctx)
<1>1. Sound(t) /\ t.ctx = ctx
  BY ContextSound
<1>2. ctx # NoContext
  BY ContextIsOne
<1> HIDE DEF t
<1>3. Session(t, input_secure(t, TRUE))
  BY <1>1, <1>2, EnterSession
<1> QED
  BY <1>3 DEF Session, t

LEMMA LockSound ==
  ASSUME NEW s, Sound(s), NEW can_switch_out \in BOOLEAN
  PROVE  Sound(switcher_lock(s, can_switch_out))
<1>1. CASE s.platform = NoContext
  BY <1>1 DEF switcher_lock
<1>2. CASE s.platform # NoContext
  <2> DEFINE b == ~can_switch_out
             ctx == [s.platform EXCEPT !.lock = @ \/ b, !.cannot_cancel = TRUE]
  <2>1. s.platform \in Context /\ b \in BOOLEAN
    BY <1>2, StateFields DEF Sound, AnyContext
  <2>2. switcher_lock(s, can_switch_out) = input_secure(auth_set_context(s, ctx), TRUE)
    BY <1>2 DEF switcher_lock
  <2> HIDE DEF b
  <2>3. ctx \in Context
    BY <2>1, Locked
  <2> HIDE DEF ctx
  <2> QED
    BY <2>2, <2>3, PlatformSession
<1> QED
  BY <1>1, <1>2

LEMMA ForceSound ==
  ASSUME NEW s, Sound(s)
  PROVE  Sound(switcher_auth_force(s))
<1>1. CASE s.ctx # NoContext
  <2>1. switcher_auth_force(s) = input_secure(s, TRUE)
    BY <1>1 DEF switcher_auth_force
  <2> QED
    BY <1>1, <2>1, EnterSession DEF Session
<1>2. CASE s.ctx = NoContext /\ s.platform = NoContext
  <2>1. switcher_auth_force(s) = s
    BY <1>2 DEF switcher_auth_force
  <2> QED
    BY <2>1
<1>3. CASE s.ctx = NoContext /\ s.platform # NoContext
  <2> DEFINE ctx == [s.platform EXCEPT !.lock = FALSE, !.cannot_cancel = TRUE]
  <2>1. s.platform \in Context
    BY <1>3, StateFields DEF Sound, AnyContext
  <2>2. switcher_auth_force(s) = input_secure(auth_set_context(s, ctx), TRUE)
    BY <1>3 DEF switcher_auth_force
  <2>3. ctx \in Context
    BY <2>1, Locked
  <2> HIDE DEF ctx
  <2> QED
    BY <2>2, <2>3, PlatformSession
<1> QED
  BY <1>1, <1>2, <1>3

LEMMA CollectingSound ==
  ASSUME NEW s, Sound(s)
  PROVE  Sound(input_collect_password(s))
<1>1. Session(s, [s EXCEPT !.collect = TRUE])
  BY SetCollect, KeepsSession DEF Sound
<1> QED
  BY <1>1 DEF input_collect_password, Session

LEMMA ClearStatusSound ==
  ASSUME NEW s, Sound(s)
  PROVE  Sound(auth_clear_status(s))
<1> DEFINE t == [s EXCEPT !.status = "none"]
<1>1. /\ t \in AuthState /\ t.ctx = s.ctx /\ t.status = "none"
      /\ t.secure = s.secure /\ t.text = s.text /\ t.name = s.name
  BY SetStatus DEF Sound, Statuses
<1> HIDE DEF t
<1>2. Sound(t)
  BY <1>1 DEF Sound
<1> QED
  BY <1>2 DEF auth_clear_status, t

\* None of these writes a file, says that something is in progress, or stops the
\* timer.
LEMMA RequestsQuiet ==
  ASSUME NEW s, Sound(s)
  PROVE  /\ \A ctx \in Context : Quiet(s, auth_set_context(s, ctx))
         /\ \A b \in BOOLEAN : Quiet(s, switcher_lock(s, b))
         /\ Quiet(s, switcher_auth_force(s))
         /\ Quiet(s, input_collect_password(s))
         /\ Quiet(s, auth_clear_status(s))
<1>1. s \in AuthState /\ s.platform \in AnyContext
  BY StateFields DEF Sound
<1>2. \A ctx \in Context : Quiet(s, auth_set_context(s, ctx))
  BY <1>1, ContextQuiet
<1>3. ASSUME NEW ctx \in Context
      PROVE  Quiet(s, input_secure(auth_set_context(s, ctx), TRUE))
  <2> DEFINE t == auth_set_context(s, ctx)
             yes == TRUE
  <2>1. t \in AuthState /\ Quiet(s, t) /\ yes \in BOOLEAN
    BY <1>2, ContextSound DEF Sound
  <2> HIDE DEF t, yes
  <2>2. Quiet(s, input_secure(t, yes))
    BY <2>1, SecureQuiet, QuietTransitive
  <2> QED
    BY <2>2 DEF t, yes
<1>4. ASSUME NEW b \in BOOLEAN
      PROVE  Quiet(s, switcher_lock(s, b))
  <2> DEFINE no == ~b
             ctx == [s.platform EXCEPT !.lock = @ \/ no, !.cannot_cancel = TRUE]
  <2>1. switcher_lock(s, b) = IF s.platform = NoContext THEN s
                              ELSE input_secure(auth_set_context(s, ctx), TRUE)
    BY DEF switcher_lock
  <2>2. ASSUME s.platform # NoContext
        PROVE  ctx \in Context
    <3>1. s.platform \in Context /\ no \in BOOLEAN
      BY <1>1, <2>2 DEF AnyContext
    <3> HIDE DEF no
    <3> QED
      BY <3>1, Locked
  <2> HIDE DEF ctx
  <2> QED
    BY <1>3, <2>1, <2>2, QuietReflexive
<1>5. Quiet(s, switcher_auth_force(s))
  <2> DEFINE ctx == [s.platform EXCEPT !.lock = FALSE, !.cannot_cancel = TRUE]
             yes == TRUE
  <2>1. /\ s.ctx # NoContext => switcher_auth_force(s) = input_secure(s, yes)
        /\ s.ctx = NoContext /\ s.platform = NoContext => switcher_auth_force(s) = s
        /\ s.ctx = NoContext /\ s.platform # NoContext =>
             switcher_auth_force(s) = input_secure(auth_set_context(s, ctx), TRUE)
    BY DEF switcher_auth_force
  <2>2. s.platform # NoContext => ctx \in Context
    BY <1>1, Locked DEF AnyContext
  <2>3. yes \in BOOLEAN
    OBVIOUS
  <2> HIDE DEF ctx, yes
  <2>4. Quiet(s, input_secure(s, yes))
    BY <1>1, <2>3, SecureQuiet
  <2> QED
    BY <1>3, <2>1, <2>2, <2>4, QuietReflexive
<1>6. Quiet(s, input_collect_password(s)) /\ Quiet(s, auth_clear_status(s))
  BY <1>1, QuietFields, QuietReflexive DEF input_collect_password, auth_clear_status
<1> QED
  BY <1>2, <1>4, <1>5, <1>6

LEMMA KeysQuiet ==
  ASSUME NEW s, Sound(s)
  PROVE  /\ \A direction \in {-1, 1} : Quiet(s, auth_tab(s, direction))
         /\ \A t \in auth_backspace(s) \cup auth_collect_key(s) : Quiet(s, t)
<1>1. s \in AuthState
  BY DEF Sound
<1>2. ASSUME NEW direction \in {-1, 1}
      PROVE  Quiet(s, auth_tab(s, direction))
  <2>1. \/ auth_tab(s, direction) = s
        \/ \E f : auth_tab(s, direction) = [s EXCEPT !.field = f]
    BY DEF auth_tab
  <2> QED
    BY <1>1, <2>1, QuietFields, QuietReflexive
<1>3. ASSUME NEW t \in auth_backspace(s) \cup auth_collect_key(s)
      PROVE  Quiet(s, t)
  <2>1. \/ t = s
        \/ \E n : t = [s EXCEPT !.name = n]
        \/ t = [s EXCEPT !.text = s.text \ {s.field}]
        \/ t = [s EXCEPT !.text = s.text \cup {s.field}]
    <3>1. ASSUME t \in auth_backspace(s)
          PROVE  \/ t = s
                 \/ \E n : t = [s EXCEPT !.name = n]
                 \/ t = [s EXCEPT !.text = s.text \ {s.field}]
      BY <3>1 DEF auth_backspace
    <3>2. ASSUME t \in auth_collect_key(s)
          PROVE  \/ t = s
                 \/ \E n : t = [s EXCEPT !.name = n]
                 \/ t = [s EXCEPT !.text = s.text \cup {s.field}]
      <4>1. CASE ~s.collect
        BY <3>2, <4>1 DEF auth_collect_key
      <4>2. CASE s.collect /\ s.field = "username"
        BY <3>2, <4>2 DEF auth_collect_key
      <4>3. CASE s.collect /\ s.field # "username"
        BY <3>2, <4>3 DEF auth_collect_key
      <4>4. s.collect \in BOOLEAN
        BY <1>1, StateFields
      <4> QED
        BY <4>1, <4>2, <4>3, <4>4
    <3> QED
      BY <1>3, <3>1, <3>2
  <2> QED
    BY <1>1, <2>1, QuietFields, QuietReflexive
<1> QED
  BY <1>2, <1>3

-----------------------------------------------------------------------------
(* The requests to the backend.                                            *)

LEMMA BackendFields ==
  ASSUME NEW b \in Backend
  PROVE  /\ b.awaits \in [Users -> 0..MaxLogins] /\ b.auto \in BOOLEAN
         /\ b.leaked \in SUBSET Files
BY DEF Backend, Files

LEMMA BackendSet ==
  ASSUME NEW b \in Backend, NEW w \in [Users -> 0..MaxLogins], NEW a \in BOOLEAN,
         NEW l \in SUBSET Files
  PROVE  /\ [b EXCEPT !.awaits = w, !.leaked = l] \in Backend
         /\ [b EXCEPT !.awaits = w, !.auto = a, !.leaked = l] \in Backend
BY DEF Backend, Files

LEMMA OneMore ==
  ASSUME NEW w \in [Users -> 0..MaxLogins], NEW user \in Users, w[user] < MaxLogins
  PROVE  asked(w, user) \in [Users -> 0..MaxLogins]
<1>1. MaxLogins \in Nat
  BY SecureAssumption DEF SecureAssumption
<1>2. w[user] \in 0..MaxLogins
  OBVIOUS
<1>3. w[user] + 1 \in 0..MaxLogins
  BY <1>1, <1>2
<1> QED
  BY <1>3 DEF asked

LEMMA OneLess ==
  ASSUME NEW w \in [Users -> 0..MaxLogins], NEW user \in Users, w[user] > 0
  PROVE  answered(w, user) \in [Users -> 0..MaxLogins]
<1>1. MaxLogins \in Nat
  BY SecureAssumption DEF SecureAssumption
<1>2. w[user] \in 0..MaxLogins
  OBVIOUS
<1>3. w[user] - 1 \in 0..MaxLogins
  BY <1>1, <1>2
<1> QED
  BY <1>3 DEF answered

-----------------------------------------------------------------------------
(* The invariant and the steps.                                            *)

Screens == {"uivm", "guest", "bare"}

IInv == Sound(auth) /\ screen \in Screens /\ backend \in Backend

LEMMA InitHolds ==
  ASSUME SecureInit
  PROVE  IInv
<1>1. auth.ctx = NoContext /\ auth.status = "none" /\ auth.secure = FALSE
      /\ auth.text = {} /\ auth.name = NoUser
  BY DEF SecureInit
<1>2. auth \in AuthState
  BY DEF SecureInit, AuthState, Statuses, Fields
<1>3. Sound(auth)
  BY <1>1, <1>2 DEF Sound
<1>4. MaxLogins \in Nat
  BY SecureAssumption DEF SecureAssumption
<1>5. backend \in Backend
  <2>1. [u \in Users |-> 0] \in [Users -> 0..MaxLogins]
    BY <1>4
  <2> DEFINE w == [u \in Users |-> 0]
  <2>2. backend = [awaits |-> w, auto |-> FALSE, leaked |-> {}]
    BY DEF SecureInit
  <2> HIDE DEF w
  <2>3. w \in [Users -> 0..MaxLogins]
    BY <2>1 DEF w
  <2> QED
    BY <2>2, <2>3 DEF Backend
<1>6. screen \in Screens
  BY DEF SecureInit, Screens
<1> QED
  BY <1>3, <1>5, <1>6 DEF IInv

LEMMA OnlyStep ==
  ASSUME IInv, NEW s, Sound(s), Only(s)
  PROVE  IInv'
BY DEF IInv, Only

LEMMA AttemptStep ==
  ASSUME IInv, NEW user, NEW o, NEW s, Sound(s),
         o.asks \in BOOLEAN, o.asks => user \in Users, o.leaked \in SUBSET Files,
         Attempt(o, s, user)
  PROVE  IInv'
<1> DEFINE w == IF o.asks THEN asked(backend.awaits, user) ELSE backend.awaits
           l == (backend.leaked \cup o.leaked) \cap s.files
<1>1. backend \in Backend
  BY DEF IInv
<1>2. w \in [Users -> 0..MaxLogins]
  <2>1. CASE o.asks
    <3>1. backend.awaits[user] < MaxLogins
      BY <2>1 DEF Attempt
    <3> QED
      BY <1>1, <2>1, <3>1, BackendFields, OneMore
  <2>2. CASE ~o.asks
    BY <1>1, <2>2, BackendFields
  <2> QED
    BY <2>1, <2>2
<1>3. l \in SUBSET Files
  BY <1>1, BackendFields
<1>4. backend' = [backend EXCEPT !.awaits = w, !.leaked = l] /\ auth' = s /\ screen' = screen
  BY DEF Attempt
<1> HIDE DEF w, l
<1>5. backend' \in Backend
  BY <1>1, <1>2, <1>3, <1>4, BackendSet
<1> QED
  BY <1>4, <1>5 DEF IInv

LEMMA SetContextStep ==
  ASSUME IInv, NEW ctx \in Contexts, SetContext(ctx)
  PROVE  IInv'
<1>1. ctx \in Context
  BY SecureAssumption DEF SecureAssumption
<1>2. Sound(auth_set_context(auth, ctx))
  BY <1>1, ContextSound DEF IInv
<1> QED
  BY <1>2, OnlyStep DEF SetContext

LEMMA AuthBeginStep ==
  ASSUME IInv, AuthBegin
  PROVE  IInv'
<1>1. Sound(switcher_auth_force(auth))
  BY ForceSound DEF IInv
<1> QED
  BY <1>1, OnlyStep DEF AuthBegin

LEMMA LockStep ==
  ASSUME IInv, NEW can_switch_out \in BOOLEAN, Lock(can_switch_out)
  PROVE  IInv'
<1>1. Sound(switcher_lock(auth, can_switch_out))
  BY LockSound DEF IInv
<1> QED
  BY <1>1, OnlyStep DEF Lock

LEMMA AuthOrLockStep ==
  ASSUME IInv, AuthOrLock
  PROVE  IInv'
<1>1. CASE AuthBegin
  BY <1>1, AuthBeginStep
<1>2. CASE Lock(FALSE)
  <2>1. FALSE \in BOOLEAN
    OBVIOUS
  <2> QED
    BY <1>2, <2>1, LockStep
<1> QED
  BY <1>1, <1>2 DEF AuthOrLock

LEMMA CollectStep ==
  ASSUME IInv, CollectPassword
  PROVE  IInv'
<1>1. Sound(input_collect_password(auth))
  BY CollectingSound DEF IInv
<1> QED
  BY <1>1, OnlyStep DEF CollectPassword

LEMMA ClearStatusStep ==
  ASSUME IInv, ClearStatus
  PROVE  IInv'
<1>1. Sound(auth_clear_status(auth))
  BY ClearStatusSound DEF IInv
<1> QED
  BY <1>1, OnlyStep DEF ClearStatus

LEMMA RmPlatformUserStep ==
  ASSUME IInv, RmPlatformUser
  PROVE  IInv'
<1>1. NoContext \in AnyContext
  BY DEF AnyContext
<1>2. Session(auth, [auth EXCEPT !.platform = NoContext])
  BY <1>1, SetPlatform, KeepsSession DEF IInv, Sound
<1> QED
  BY <1>2, OnlyStep DEF RmPlatformUser, Session

LEMMA RemoteLoginStep ==
  ASSUME IInv, NEW user \in Users, RemoteLogin(user)
  PROVE  IInv'
<1>1. PICK o \in auth_remote_login(auth, user) : Attempt(o, o.state, user)
  BY DEF RemoteLogin
<1>2. Attempted(auth, user, o)
  BY RemoteLoginSession DEF IInv
<1> QED
  BY <1>1, <1>2, AttemptStep DEF Attempted, Session

LEMMA AnswerStep ==
  ASSUME IInv, NEW user \in Users, NEW answer \in RemoteStatuses, NEW auto \in BOOLEAN,
         auth_remote_status(user, answer, auto)
  PROVE  IInv'
<1>1. PICK o \in AnswerStates(auth, user, answer, auto) :
         LET open == o.recovery \/ answer = "IN_PROGRESS"
         IN  /\ auth' = o.state
             /\ backend' = [backend EXCEPT
                    !.awaits = IF auto \/ open THEN @ ELSE answered(@, user),
                    !.auto = IF auto THEN open ELSE @,
                    !.leaked = @ \cap o.state.files]
  BY DEF auth_remote_status
<1> DEFINE open == o.recovery \/ answer = "IN_PROGRESS"
           w == IF auto \/ open THEN backend.awaits
                ELSE answered(backend.awaits, user)
           a == IF auto THEN open ELSE backend.auto
           l == backend.leaked \cap o.state.files
<1>2. user \in Names
  BY DEF Names
<1>3. Sound(o.state)
  BY <1>2, AnswerSession DEF IInv, Session
<1>4. /\ backend \in Backend /\ backend.awaits \in [Users -> 0..MaxLogins]
      /\ backend.auto \in BOOLEAN /\ backend.leaked \in SUBSET Files
  BY BackendFields DEF IInv
<1>5. w \in [Users -> 0..MaxLogins]
  <2>1. CASE auto \/ open
    BY <1>4, <2>1
  <2>2. CASE ~(auto \/ open)
    <3>1. backend.awaits[user] > 0
      BY <2>2 DEF auth_remote_status
    <3>2. answered(backend.awaits, user) \in [Users -> 0..MaxLogins]
      BY <1>4, <3>1, OneLess
    <3> QED
      BY <2>2, <3>2
  <2> QED
    BY <2>1, <2>2
<1>6. a \in BOOLEAN
  BY <1>4
<1>7. l \in SUBSET Files
  BY <1>4
<1>8. /\ backend' = [backend EXCEPT !.awaits = w, !.auto = a, !.leaked = l]
      /\ auth' = o.state /\ screen' = screen
  BY <1>1 DEF auth_remote_status
<1> HIDE DEF w, a, l, open
<1>9. backend' \in Backend
  BY <1>4, <1>5, <1>6, <1>7, <1>8, BackendSet
<1> QED
  BY <1>3, <1>8, <1>9 DEF IInv

LEMMA EscStep ==
  ASSUME IInv, KeyEsc
  PROVE  IInv'
<1> DEFINE hides == ~auth.ctx.cannot_cancel
           t == auth_status(auth, "user_cancel", hides)
<1>1. Sound(auth) /\ Closed(auth)
  BY DEF IInv, KeyEsc, input_check_secure_mode, Closed
<1>2. hides \in BOOLEAN
  OBVIOUS
<1>3. Only(input_clear_passwd(t))
  BY DEF KeyEsc
<1> HIDE DEF hides
<1>4. Session(auth, t)
  BY <1>1, <1>2, StatusSession
<1> HIDE DEF t
<1>5. Sound(input_clear_passwd(t))
  BY <1>1, <1>4, ClearSession DEF Session
<1> QED
  BY <1>3, <1>5, OnlyStep

LEMMA TabStep ==
  ASSUME IInv, NEW direction \in {-1, 1}, KeyTab(direction)
  PROVE  IInv'
<1>1. Sound(auth_tab(auth, direction))
  BY TabSession DEF IInv, Session
<1> QED
  BY <1>1, OnlyStep DEF KeyTab

LEMMA TypingStep ==
  ASSUME IInv, KeyBackspace \/ KeyChar
  PROVE  IInv'
<1>1. PICK s \in auth_backspace(auth) \cup auth_collect_key(auth) : auth.secure /\ Only(s)
  BY DEF KeyBackspace, KeyChar, input_check_secure_mode
<1>2. Sound(s)
  BY <1>1, BackspaceSession, CollectSession DEF IInv, Session
<1> QED
  BY <1>1, <1>2, OnlyStep

LEMMA EnterStep ==
  ASSUME IInv, KeyEnter
  PROVE  IInv'
<1>1. PICK o \in auth_end(auth) : Attempt(o, input_clear_passwd(o.state), auth.name)
  BY DEF KeyEnter
<1>2. Sound(auth) /\ Closed(auth)
  BY DEF IInv, KeyEnter, input_check_secure_mode, Closed
<1>3. Attempted(auth, auth.name, o)
  BY <1>2, EndSession
<1> DEFINE s == input_clear_passwd(o.state)
           user == auth.name
<1>4. Sound(s)
  BY <1>2, <1>3, ClearSession DEF Attempted, Session
<1>5. Attempt(o, s, user) /\ Attempted(auth, user, o)
  BY <1>1, <1>3
<1> HIDE DEF s, user
<1> QED
  BY <1>4, <1>5, AttemptStep DEF Attempted

LEMMA OtherStep ==
  ASSUME IInv,
         \/ \E vm \in {"uivm", "guest", "bare"}, by_key \in BOOLEAN : SwitchTo(vm, by_key)
         \/ WindowCloses
         \/ revert_to_auth
  PROVE  IInv'
<1>1. CASE \E vm \in {"uivm", "guest", "bare"}, by_key \in BOOLEAN : SwitchTo(vm, by_key)
  BY <1>1 DEF SwitchTo, IInv, Screens
<1>2. CASE WindowCloses
  <2>1. Sound([auth EXCEPT !.window = "3"])
    BY SetWindow, KeepsSession DEF IInv, Sound, Session
  <2> QED
    BY <1>2, <2>1, OnlyStep DEF WindowCloses
<1>3. CASE revert_to_auth
  <2>1. auth.secure \in BOOLEAN
    BY StateFields DEF IInv, Sound
  <2>2. Sound([auth EXCEPT !.revert = auth.secure])
    BY <2>1, SetRevert, KeepsSession DEF IInv, Sound, Session
  <2>3. /\ auth' = [auth EXCEPT !.revert = auth.secure]
        /\ screen' \in Screens /\ backend' = backend
    BY <1>3 DEF revert_to_auth, IInv, Screens
  <2> QED
    BY <2>2, <2>3 DEF IInv
<1> QED
  BY <1>1, <1>2, <1>3

LEMMA NextHolds ==
  ASSUME IInv, [SecureNext]_secure_vars
  PROVE  IInv'
<1>1. CASE UNCHANGED secure_vars
  BY <1>1 DEF secure_vars, IInv
<1>2. CASE SecureNext
  BY <1>2, SetContextStep, AuthBeginStep, LockStep, AuthOrLockStep, CollectStep,
     ClearStatusStep, RmPlatformUserStep, RemoteLoginStep, AnswerStep, EscStep, TabStep,
     TypingStep, EnterStep, OtherStep DEF SecureNext
<1> QED
  BY <1>1, <1>2

LEMMA Invariant == SecureSpec => []IInv
<1>1. SecureInit => IInv
  BY InitHolds
<1>2. IInv /\ [SecureNext]_secure_vars => IInv'
  BY NextHolds
<1> QED
  BY <1>1, <1>2, PTL DEF SecureSpec

-----------------------------------------------------------------------------
(* Hash files, what is in progress, and the timer of a locked screen.      *)

Expected == HashFilesExplained /\ InProgressIsAnswered

TimerKept == auth.secure /\ auth.revert /\ auth'.secure => auth'.revert

\* A count goes up or stays, and one that is still to come is there.
LEMMA MoreAsked ==
  ASSUME NEW w \in [Users -> 0..MaxLogins], NEW user \in Users
  PROVE  /\ asked(w, user)[user] > 0
         /\ \A u \in Users : w[u] > 0 => asked(w, user)[u] > 0
<1>1. MaxLogins \in Nat
  BY SecureAssumption DEF SecureAssumption
<1>2. \A u \in Users : w[u] \in Nat
  BY <1>1
<1>3. \A u \in Users : asked(w, user)[u] = IF u = user THEN w[user] + 1 ELSE w[u]
  BY DEF asked
<1> HIDE DEF asked
<1> QED
  BY <1>2, <1>3

LEMMA OthersAwait ==
  ASSUME NEW w \in [Users -> 0..MaxLogins], NEW user \in Users, NEW u \in Users, u # user
  PROVE  answered(w, user)[u] = w[u]
BY DEF answered

LEMMA FileUser ==
  ASSUME NEW f \in Files
  PROVE  /\ f[2] \in Users
         /\ f = hash_file("local", f[2]) \/ f = hash_file("remote", f[2])
BY DEF Files, hash_file

LEMMA BackendParts ==
  ASSUME NEW b \in Backend, NEW w, NEW a, NEW l
  PROVE  /\ LET c == [b EXCEPT !.awaits = w, !.leaked = l]
            IN  c.awaits = w /\ c.auto = b.auto /\ c.leaked = l
         /\ LET c == [b EXCEPT !.awaits = w, !.auto = a, !.leaked = l]
            IN  c.awaits = w /\ c.auto = a /\ c.leaked = l
BY DEF Backend

\* A step that asks for nothing and says nothing.
LEMMA OnlyExpected ==
  ASSUME Expected, NEW s, Quiet(auth, s), Only(s)
  PROVE  Expected' /\ TimerKept
BY DEF Expected, HashFilesExplained, InProgressIsAnswered, TimerKept, Only, Quiet, Held

LEMMA AttemptExpected ==
  ASSUME IInv, Expected, NEW user, NEW o, NEW s, Attempted(auth, user, o), Quiet(o.state, s),
         Attempt(o, s, user)
  PROVE  Expected' /\ TimerKept
<1> DEFINE w == IF o.asks THEN asked(backend.awaits, user) ELSE backend.awaits
           l == (backend.leaked \cup o.leaked) \cap s.files
<1>1. /\ backend \in Backend /\ backend.awaits \in [Users -> 0..MaxLogins]
      /\ backend.leaked \in SUBSET Files
  BY BackendFields DEF IInv
<1>2. auth' = s /\ backend' = [backend EXCEPT !.awaits = w, !.leaked = l]
  BY DEF Attempt
<1>3. o.asks \in BOOLEAN /\ (o.asks => user \in Users)
  BY DEF Attempted
<1>4. /\ o.asks => w[user] > 0
      /\ \A u \in Users : backend.awaits[u] > 0 => w[u] > 0
  BY <1>1, <1>3, MoreAsked
<1>5. auth.files \in SUBSET Files /\ o.leaked \in SUBSET Files
  BY StateFields DEF IInv, Sound, Attempted
<1>6. s.files \subseteq o.state.files /\ (s.status = "in_progress" => o.asks)
      /\ (auth.revert => s.revert)
  BY DEF Quiet, Held, Attempted, Accounted
<1> HIDE DEF w
<1>7. backend'.awaits = w /\ backend'.auto = backend.auto /\ backend'.leaked = l
  <2> HIDE DEF l
  <2> QED
    BY <1>1, <1>2, BackendParts
<1>8. ASSUME NEW f \in s.files
      PROVE  w[f[2]] > 0 \/ f \in l
  <2>1. f \in auth.files \/ f \in o.leaked \/ (o.asks /\ f[2] = user)
    BY <1>6, <1>8 DEF Attempted, Accounted
  <2>2. CASE f \in auth.files
    <3>1. backend.awaits[f[2]] > 0 \/ f \in backend.leaked
      BY <2>2 DEF Expected, HashFilesExplained
    <3>2. f[2] \in Users
      BY <1>5, <2>2, FileUser
    <3> QED
      BY <1>4, <1>8, <3>1, <3>2
  <2>3. CASE f \in o.leaked
    BY <1>8, <2>3
  <2>4. CASE o.asks /\ f[2] = user
    BY <1>4, <2>4
  <2> QED
    BY <2>1, <2>2, <2>3, <2>4
<1>9. HashFilesExplained'
  BY <1>2, <1>7, <1>8 DEF HashFilesExplained
<1>10. InProgressIsAnswered'
  BY <1>2, <1>3, <1>4, <1>6, <1>7 DEF InProgressIsAnswered
<1>11. TimerKept
  BY <1>2, <1>6 DEF TimerKept
<1> QED
  BY <1>9, <1>10, <1>11 DEF Expected

\* The backend answers: the count of the user goes down when his hashes are gone
\* and nothing is in progress for him.
LEMMA AnswerExpected ==
  ASSUME IInv, Expected,
         NEW user \in Users, NEW answer \in RemoteStatuses, NEW auto \in BOOLEAN,
         auth_remote_status(user, answer, auto)
  PROVE  Expected' /\ TimerKept
<1>1. PICK o \in AnswerStates(auth, user, answer, auto) :
         LET open == o.recovery \/ answer = "IN_PROGRESS"
         IN  /\ auth' = o.state
             /\ backend' = [backend EXCEPT
                    !.awaits = IF auto \/ open THEN @ ELSE answered(@, user),
                    !.auto = IF auto THEN open ELSE @,
                    !.leaked = @ \cap o.state.files]
  BY DEF auth_remote_status
<1> DEFINE open == o.recovery \/ answer = "IN_PROGRESS"
           s == o.state
           w == IF auto \/ open THEN backend.awaits
                ELSE answered(backend.awaits, user)
           a == IF auto THEN open ELSE backend.auto
           l == backend.leaked \cap s.files
<1>2. user \in Names
  BY DEF Names
<1>3. /\ Held(auth, s)
      /\ s.status = "in_progress" => open
      /\ ~auto => hash_file("remote", user) \notin s.files
      /\ ~auto /\ ~open => hash_file("local", user) \notin s.files
  BY <1>2, AnswerHeld DEF IInv
<1>4. backend \in Backend /\ backend.awaits \in [Users -> 0..MaxLogins]
  BY BackendFields DEF IInv
<1>5. auth.files \in SUBSET Files
  BY StateFields DEF IInv, Sound
<1>6. /\ backend' = [backend EXCEPT !.awaits = w, !.auto = a, !.leaked = l]
      /\ auth' = s
  BY <1>1
<1>7. ~auto => backend.awaits[user] > 0
  BY DEF auth_remote_status
<1> HIDE DEF s, open
<1>8. ASSUME NEW f \in s.files
      PROVE  w[f[2]] > 0 \/ f \in l
  <2>1. f \in auth.files
    BY <1>3 DEF Held
  <2>2. f[2] \in Users /\ (f = hash_file("local", f[2]) \/ f = hash_file("remote", f[2]))
    BY <1>5, <2>1, FileUser
  <2>3. backend.awaits[f[2]] > 0 \/ f \in backend.leaked
    BY <2>1 DEF Expected, HashFilesExplained
  <2>4. CASE auto \/ open
    BY <2>3, <2>4
  <2>5. CASE ~(auto \/ open)
    <3>1. f[2] # user
      BY <1>3, <2>2, <2>5
    <3>2. w[f[2]] = backend.awaits[f[2]]
      BY <1>4, <2>2, <2>5, <3>1, OthersAwait
    <3> QED
      BY <2>3, <3>2
  <2> QED
    BY <2>4, <2>5
<1>9. s.status = "in_progress" => a = TRUE \/ w[user] > 0
  BY <1>3, <1>7
<1> HIDE DEF w, a, l
<1>10. backend'.awaits = w /\ backend'.auto = a /\ backend'.leaked = l
  BY <1>4, <1>6, BackendParts
<1>11. HashFilesExplained'
  BY <1>6, <1>8, <1>10 DEF HashFilesExplained
<1>12. InProgressIsAnswered'
  BY <1>6, <1>9, <1>10 DEF InProgressIsAnswered
<1>13. TimerKept
  BY <1>3, <1>6 DEF TimerKept, Held
<1> QED
  BY <1>11, <1>12, <1>13 DEF Expected

LEMMA NextExpected ==
  ASSUME IInv, Expected, [SecureNext]_secure_vars
  PROVE  Expected' /\ (auth' # auth => TimerKept)
<1> USE DEF IInv
<1>0. auth \in AuthState
  BY DEF Sound
<1>1. ASSUME NEW ctx \in Contexts, SetContext(ctx)
      PROVE  Expected' /\ TimerKept
  <2>1. ctx \in Context
    BY SecureAssumption DEF SecureAssumption
  <2> QED
    BY <1>1, <2>1, RequestsQuiet, OnlyExpected DEF SetContext
<1>2. ASSUME AuthBegin
      PROVE  Expected' /\ TimerKept
  BY <1>2, RequestsQuiet, OnlyExpected DEF AuthBegin
<1>3. ASSUME NEW b \in BOOLEAN, Lock(b)
      PROVE  Expected' /\ TimerKept
  BY <1>3, RequestsQuiet, OnlyExpected DEF Lock
<1>4. ASSUME AuthOrLock
      PROVE  Expected' /\ TimerKept
  <2> DEFINE no == FALSE
  <2>1. AuthBegin \/ Lock(no)
    BY <1>4 DEF AuthOrLock
  <2>2. no \in BOOLEAN
    OBVIOUS
  <2> HIDE DEF no
  <2> QED
    BY <1>2, <1>3, <2>1, <2>2
<1>5. ASSUME CollectPassword \/ ClearStatus
      PROVE  Expected' /\ TimerKept
  BY <1>5, RequestsQuiet, OnlyExpected DEF CollectPassword, ClearStatus
<1>6. ASSUME RmPlatformUser \/ WindowCloses
      PROVE  Expected' /\ TimerKept
  BY <1>0, <1>6, QuietFields, OnlyExpected DEF RmPlatformUser, WindowCloses
<1>7. ASSUME NEW user \in Users, RemoteLogin(user)
      PROVE  Expected' /\ TimerKept
  <2>1. PICK o \in auth_remote_login(auth, user) : Attempt(o, o.state, user)
    BY <1>7 DEF RemoteLogin
  <2> DEFINE s == o.state
  <2>2. Attempted(auth, user, o) /\ Quiet(o.state, s)
    BY RemoteLoginSession, QuietReflexive
  <2>3. Attempt(o, s, user)
    BY <2>1
  <2> HIDE DEF s
  <2> QED
    BY <2>2, <2>3, AttemptExpected
<1>8. ASSUME KeyEsc
      PROVE  Expected' /\ TimerKept
  <2> DEFINE hides == ~auth.ctx.cannot_cancel
             t == auth_status(auth, "user_cancel", hides)
  <2>1. Closed(auth) /\ hides \in BOOLEAN /\ "user_cancel" # "ok"
    BY <1>8 DEF KeyEsc, input_check_secure_mode, Closed
  <2>2. Only(input_clear_passwd(t))
    BY <1>8 DEF KeyEsc
  <2> HIDE DEF hides
  <2>3. Session(auth, t) /\ Held(auth, t) /\ t.status # "in_progress"
    BY <2>1, StatusSession, StatusHeld
  <2> HIDE DEF t
  <2>4. Quiet(t, input_clear_passwd(t)) /\ Quiet(auth, t)
    BY <2>3, ClearQuiet DEF Session, Sound, Quiet
  <2>5. Quiet(auth, input_clear_passwd(t))
    BY <2>4, QuietTransitive
  <2> QED
    BY <2>2, <2>5, OnlyExpected
<1>9. ASSUME NEW direction \in {-1, 1}, KeyTab(direction)
      PROVE  Expected' /\ TimerKept
  BY <1>9, KeysQuiet, OnlyExpected DEF KeyTab
<1>10. ASSUME KeyBackspace \/ KeyChar
       PROVE  Expected' /\ TimerKept
  <2>1. PICK s \in auth_backspace(auth) \cup auth_collect_key(auth) : Only(s)
    BY <1>10 DEF KeyBackspace, KeyChar
  <2> QED
    BY <2>1, KeysQuiet, OnlyExpected
<1>11. ASSUME KeyEnter
       PROVE  Expected' /\ TimerKept
  <2>1. PICK o \in auth_end(auth) : Attempt(o, input_clear_passwd(o.state), auth.name)
    BY <1>11 DEF KeyEnter
  <2> DEFINE s == input_clear_passwd(o.state)
             user == auth.name
  <2>2. Attempted(auth, user, o)
    BY EndSession
  <2>3. Quiet(o.state, s)
    BY <2>2, ClearQuiet DEF Attempted, Session, Sound
  <2>4. Attempt(o, s, user)
    BY <2>1
  <2> HIDE DEF s, user
  <2> QED
    BY <2>2, <2>3, <2>4, AttemptExpected
<1>12. ASSUME NEW vm, NEW by_key, SwitchTo(vm, by_key)
       PROVE  Expected' /\ auth' = auth
  BY <1>12 DEF SwitchTo, Expected, HashFilesExplained, InProgressIsAnswered
<1>13. ASSUME revert_to_auth
       PROVE  Expected' /\ TimerKept
  <2> DEFINE s == [auth EXCEPT !.revert = auth.secure]
  <2>1. s.files = auth.files /\ s.status = auth.status /\ s.secure = auth.secure
        /\ s.revert = auth.secure
    BY <1>0 DEF AuthState
  <2>2. auth' = s /\ backend' = backend
    BY <1>13 DEF revert_to_auth
  <2> HIDE DEF s
  <2> QED
    BY <2>1, <2>2 DEF Expected, HashFilesExplained, InProgressIsAnswered, TimerKept
<1>14. ASSUME UNCHANGED secure_vars
       PROVE  Expected' /\ auth' = auth
  BY <1>14 DEF secure_vars, Expected, HashFilesExplained, InProgressIsAnswered
<1> HIDE DEF IInv
<1> QED
  BY <1>1, <1>2, <1>3, <1>4, <1>5, <1>6, <1>7, <1>8, <1>9, <1>10, <1>11, <1>12, <1>13,
     <1>14, AnswerExpected DEF SecureNext

LEMMA AlwaysExpected == SecureSpec => [](IInv /\ Expected)
<1>1. SecureInit => Expected
  <2> SUFFICES ASSUME SecureInit PROVE Expected
    OBVIOUS
  <2>1. auth.files = {} /\ auth.status = "none"
    BY DEF SecureInit
  <2> QED
    BY <2>1 DEF Expected, HashFilesExplained, InProgressIsAnswered
<1>2. IInv /\ Expected /\ [SecureNext]_secure_vars => Expected'
  BY NextExpected
<1> QED
  BY <1>1, <1>2, Invariant, PTL DEF SecureSpec

-----------------------------------------------------------------------------
(* The results.                                                            *)

\* The state has its type, for any users, contexts, answers and number of logins:
\* no count of logins goes below zero, whatever the order of requests and answers.
THEOREM TypeCorrect == SecureSpec => []SecureTypeOK
<1>1. IInv => SecureTypeOK
  BY DEF IInv, Sound, SecureTypeOK, Screens
<1> QED
  BY <1>1, Invariant, PTL

\* The escape key and the lock read the flags of a context that is there: no answer,
\* cancel or removal takes the context and leaves secure mode on.
THEOREM ContextInSecureMode == SecureSpec => []SecureHasContext
<1>1. IInv => SecureHasContext
  BY DEF IInv, Sound, SecureHasContext
<1> QED
  BY <1>1, Invariant, PTL

\* What was typed in a session is cleared with it, on every way out: success, cancel,
\* and an answer that comes while the next user types.
THEOREM TypedIsForgotten == SecureSpec => []PasswordsForgotten
<1>1. IInv => PasswordsForgotten
  BY DEF IInv, Sound, PasswordsForgotten
<1> QED
  BY <1>1, Invariant, PTL

\* Success is told only when the session is over, whatever context a client sets and
\* whatever answers come later.
THEOREM SuccessEndsSession == SecureSpec => []OkMeansDone
<1>1. IInv => OkMeansDone
  BY DEF IInv, Sound, OkMeansDone
<1> QED
  BY <1>1, Invariant, PTL

\* The hash of a password stays in a file only while the backend has still to answer
\* for its user, or after a write that failed: every way an attempt can end removes
\* it, for any order of attempts, answers and answers to nothing.
THEOREM HashesAreRemoved == SecureSpec => []HashFilesExplained
<1>1. Expected => HashFilesExplained
  BY DEF Expected
<1> QED
  BY <1>1, AlwaysExpected, PTL

\* Who sees "in progress" will hear more: a login that is counted, or one that the
\* backend has started by itself, is still open.
THEOREM InProgressIsHeard == SecureSpec => []InProgressIsAnswered
<1>1. Expected => InProgressIsAnswered
  BY DEF Expected
<1> QED
  BY <1>1, AlwaysExpected, PTL

\* No request, key or answer stops the timer that brings a locked screen back while
\* the session lasts; the timer itself sets the next one.
THEOREM LockTimerRuns == SecureSpec => LockHolds
<1>1. IInv /\ Expected /\ [SecureNext]_secure_vars =>
        [auth.secure /\ auth.revert /\ auth'.secure => auth'.revert]_secure_vars
  <2> SUFFICES ASSUME IInv, Expected, [SecureNext]_secure_vars
               PROVE  TimerKept
    BY DEF TimerKept
  <2>1. CASE auth' = auth
    BY <2>1 DEF TimerKept
  <2>2. CASE auth' # auth
    BY <2>2, NextExpected
  <2> QED
    BY <2>1, <2>2
<1> QED
  BY <1>1, AlwaysExpected, PTL DEF SecureSpec, LockHolds

=============================================================================
