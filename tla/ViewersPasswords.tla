-------------------------- MODULE ViewersPasswords --------------------------
(***************************************************************************)
(* ton_wallet.cpp: the passwords Wallet remembers to decrypt the texts of  *)
(* transactions.  A decrypt whose password is wrong waits, without a       *)
(* request, for the user to type another one; a password that proved good  *)
(* is forgotten a while later.  Everything runs in the main thread; what   *)
(* interleaves are the answers of the library with what the user types,    *)
(* deletes and changes, and with the timer.                                *)
(***************************************************************************)
EXTENDS Naturals, FiniteSets, Functions

CONSTANTS
    Keys,       \* public keys
    Bytes,      \* passwords a user may type
    Empty,      \* the empty password
    Calls,      \* calls of Wallet::decrypt
    MaxTyped    \* bound: passwords the user types unasked, or changes

ASSUME EmptyAssumption == Empty \notin Bytes
ASSUME MaxTypedAssumption == MaxTyped \in Nat

VARIABLES
    listed,     \* the public keys of Wallet::_list
    right,      \* the password that opens each key
    passwords,  \* _viewersPasswords
    timer,      \* _viewersPasswordsExpireTimer is active
    calls,      \* the calls of decrypt; those waiting are _viewersPasswordsWaiters
    typed,      \* history: counts up to MaxTyped
    erased      \* history: keys whose password was erased under a decrypt

vars == <<listed, right, passwords, timer, calls, typed, erased>>

\* expires is zero, a time to come or a time that has passed.
ViewersPassword ==
    [bytes : Bytes \cup {Empty}, generation : Nat,
     expires : {"zero", "later", "passed"}]

\* What the library answers to msg.decrypt: texts, KEY_DECRYPT, another error.
Answers == {"pending", "ok", "incorrect", "error"}

Call ==
    [at : {"none", "out", "waiting", "answered", "dropped"}, key : Keys,
     bytes : Bytes \cup {Empty}, generation : Nat, answer : Answers]

TypeOK ==
    /\ listed \subseteq Keys
    /\ right \in [Keys -> Bytes]
    /\ DOMAIN passwords \subseteq Keys
    /\ \A k \in DOMAIN passwords : passwords[k] \in ViewersPassword
    /\ timer \in BOOLEAN
    /\ calls \in [Calls -> Call]
    /\ \A c \in Calls : /\ calls[c].at = "out" <=> calls[c].bytes # Empty
                        /\ calls[c].at # "out" => calls[c].answer = "pending"
    /\ typed \in 0..MaxTyped
    /\ erased \subseteq Keys

NoCall(k) ==
    [at |-> "none", key |-> k, bytes |-> Empty, generation |-> 0,
     answer |-> "pending"]

Init ==
    /\ listed = Keys
    /\ right \in [Keys -> Bytes]
    /\ passwords = <<>>
    /\ timer = FALSE
    /\ calls \in [Calls -> {NoCall(k) : k \in Keys}]
    /\ typed = 0
    /\ erased = {}

-----------------------------------------------------------------------------
\* The passwords.

\* flat_map's operator[] makes the entry it does not find.
Fresh == [bytes |-> Empty, generation |-> 1, expires |-> "zero"]
Entry(k) == IF k \in DOMAIN passwords THEN passwords[k] ELSE Fresh

With(k, p) == [j \in DOMAIN passwords \cup {k} |-> IF j = k THEN p ELSE passwords[j]]
Without(S) == Restrict(passwords, DOMAIN passwords \ S)

Waiting(k) == {c \in Calls : calls[c].at = "waiting" /\ calls[c].key = k}
Out(k) == {c \in Calls : calls[c].at = "out" /\ calls[c].key = k}

\* The entries of the keys of S go, and the calls that wait for them.
Erase(S) ==
    /\ passwords' = Without(S)
    /\ calls' = [c \in Calls |->
                   IF c \in UNION {Waiting(k) : k \in S}
                     THEN [NoCall(calls[c].key) EXCEPT !.at = "dropped"]
                     ELSE calls[c]]
    /\ erased' = erased \cup {k \in S : Out(k) # {}}

\* decrypt sends the texts of call c with the password it reads.
Sent(c, p) ==
    [calls[c] EXCEPT !.at = "out", !.bytes = p.bytes,
                     !.generation = p.generation, !.answer = "pending"]

\* A waiter of handleInputKeyError.
Waits(c, p) ==
    [calls[c] EXCEPT !.at = "waiting", !.bytes = Empty,
                     !.generation = p.generation, !.answer = "pending"]

Answered(c) == [NoCall(calls[c].key) EXCEPT !.at = "answered"]

\* decrypt, and decrypt again: with no password known it waits at once.
RunDecrypt(c) ==
    LET k == calls[c].key
        p == Entry(k)
    IN /\ passwords' = With(k, [p EXCEPT !.expires =
                                   IF p.bytes = Empty THEN "zero" ELSE @])
       /\ calls' = [calls EXCEPT ![c] =
                      IF p.bytes = Empty THEN Waits(c, p) ELSE Sent(c, p)]

NotifyPasswordGood(k) ==
    IF k \in DOMAIN passwords /\ passwords[k].expires = "zero"
      THEN /\ passwords' = [passwords EXCEPT ![k].expires = "later"]
           /\ timer' = TRUE
      ELSE UNCHANGED <<passwords, timer>>

-----------------------------------------------------------------------------
\* What the owner of the wallet does.

Decrypt(c) ==
    /\ calls[c].at = "none" /\ calls[c].key \in listed
    /\ RunDecrypt(c)
    /\ UNCHANGED <<listed, right, timer, typed, erased>>

\* Mutant of UpdateViewersPassword: the generation stays.
UpdateViewersPasswordInPlace(k, bytes) ==
    LET p == [Entry(k) EXCEPT !.bytes = bytes]
    IN /\ passwords' = With(k, p)
       /\ calls' = [c \in Calls |->
                      IF c \in Waiting(k) THEN Sent(c, p) ELSE calls[c]]

\* Mutant of UpdateViewersPassword: who waited goes on waiting.
UpdateViewersPasswordAlone(k, bytes) ==
    /\ passwords' = With(k, [Entry(k) EXCEPT !.bytes = bytes,
                                             !.generation = @ + 1])
    /\ UNCHANGED calls

\* Wallet::updateViewersPassword with a password: who waited tries again.
UpdateViewersPassword(k, bytes) ==
    LET p == [Entry(k) EXCEPT !.bytes = bytes, !.generation = @ + 1]
    IN /\ passwords' = With(k, p)
       /\ calls' = [c \in Calls |->
                      IF c \in Waiting(k) THEN Sent(c, p) ELSE calls[c]]

\* The user types a password, because he is asked for it or on his own.
TypePassword(k, bytes) ==
    /\ k \in listed
    /\ \/ /\ typed < MaxTyped
          /\ typed' = typed + 1
       \/ /\ Waiting(k) # {} /\ bytes = right[k]
          /\ UNCHANGED typed
    /\ UpdateViewersPassword(k, bytes)
    /\ UNCHANGED <<listed, right, timer, erased>>

\* Wallet::updateViewersPassword with the empty password.
ClearPassword(k) ==
    /\ k \in DOMAIN passwords
    /\ Erase({k})
    /\ UNCHANGED <<listed, right, timer, typed>>

\* The end of deleteKey, deleteAllKeys, saveKey and changePassword.
KeyDeleted(k) ==
    /\ k \in listed
    /\ listed' = listed \ {k}
    /\ Erase({k})
    /\ UNCHANGED <<right, timer, typed>>

AllKeysDeleted ==
    /\ listed' = {}
    /\ Erase(Keys)
    /\ UNCHANGED <<right, timer, typed>>

KeySaved(k) ==
    /\ k \notin listed
    /\ listed' = listed \cup {k}
    /\ UNCHANGED <<right, passwords, timer, calls, typed, erased>>

PasswordChanged(bytes) ==
    /\ listed # {} /\ typed < MaxTyped
    /\ typed' = typed + 1
    /\ right' = [k \in Keys |-> IF k \in listed THEN bytes ELSE right[k]]
    /\ LET new == [k \in DOMAIN passwords |->
                     [passwords[k] EXCEPT !.bytes = bytes, !.generation = @ + 1]]
       IN /\ passwords' = new
          /\ calls' = [c \in Calls |->
                         IF calls[c].at = "waiting" /\ calls[c].key \in DOMAIN new
                           THEN Sent(c, new[calls[c].key]) ELSE calls[c]]
    /\ UNCHANGED <<listed, timer, erased>>

-----------------------------------------------------------------------------
\* Time and the library.

\* The time a password expires at comes.
Pass(k) ==
    /\ k \in DOMAIN passwords /\ passwords[k].expires = "later"
    /\ passwords' = [passwords EXCEPT ![k].expires = "passed"]
    /\ UNCHANGED <<listed, right, timer, calls, typed, erased>>

Expired == {k \in DOMAIN passwords : passwords[k].expires = "passed"}

\* Mutant of CheckPasswordsExpiration: the timer is not armed again.
CheckPasswordsOnce ==
    /\ timer
    /\ Erase(Expired)
    /\ timer' = FALSE
    /\ UNCHANGED <<listed, right, typed>>

\* _viewersPasswordsExpireTimer: checkPasswordsExpiration.
CheckPasswordsExpiration ==
    /\ timer
    /\ Erase(Expired)
    /\ timer' = (\E k \in DOMAIN passwords : passwords[k].expires = "later")
    /\ UNCHANGED <<listed, right, typed>>

LibDecrypts(c) ==
    /\ calls[c].at = "out" /\ calls[c].answer = "pending"
    /\ \E answer \in {"error",
                      IF calls[c].bytes = right[calls[c].key] THEN "ok"
                                                              ELSE "incorrect"} :
         calls' = [calls EXCEPT ![c].answer = answer]
    /\ UNCHANGED <<listed, right, passwords, timer, typed, erased>>

-----------------------------------------------------------------------------
\* The answers.

Hears(c, answer) == calls[c].at = "out" /\ calls[c].answer = answer

\* Texts, or an error other than of the password, which counts as good.
OnDecrypted(c) ==
    /\ Hears(c, "ok") \/ Hears(c, "error")
    /\ NotifyPasswordGood(calls[c].key)
    /\ calls' = [calls EXCEPT ![c] = Answered(c)]
    /\ UNCHANGED <<listed, right, typed, erased>>

\* handleInputKeyError.  The key may have gone meanwhile ...
OnIncorrectDeleted(c) ==
    /\ Hears(c, "incorrect") /\ calls[c].key \notin listed
    /\ NotifyPasswordGood(calls[c].key)
    /\ calls' = [calls EXCEPT ![c] = Answered(c)]
    /\ UNCHANGED <<listed, right, typed, erased>>

Current(c) ==
    /\ calls[c].key \in DOMAIN passwords
    /\ passwords[calls[c].key].generation = calls[c].generation

\* ... or the password still be the one that failed ...
OnIncorrect(c) ==
    LET k == calls[c].key
    IN /\ Hears(c, "incorrect") /\ k \in listed /\ Current(c)
       /\ passwords' = [passwords EXCEPT ![k].expires = "zero"]
       /\ calls' = [calls EXCEPT ![c] = Waits(c, passwords[k])]
       /\ UNCHANGED <<listed, right, timer, typed, erased>>

\* Mutants of OnIncorrectBefore: the answer is ignored; the list of keys is
\* not looked at.
OnIncorrectIgnored(c) ==
    /\ Hears(c, "incorrect") /\ calls[c].key \in listed /\ ~ Current(c)
    /\ UNCHANGED vars

OnIncorrectUnlisted(c) ==
    /\ Hears(c, "incorrect") /\ ~ Current(c)
    /\ RunDecrypt(c)
    /\ UNCHANGED <<listed, right, timer, typed, erased>>

\* ... or another one be there, or none: try again.
OnIncorrectBefore(c) ==
    /\ Hears(c, "incorrect") /\ calls[c].key \in listed /\ ~ Current(c)
    /\ RunDecrypt(c)
    /\ UNCHANGED <<listed, right, timer, typed, erased>>

-----------------------------------------------------------------------------

Answer(c) ==
    OnDecrypted(c) \/ OnIncorrectDeleted(c) \/ OnIncorrect(c)
        \/ OnIncorrectBefore(c)

Next ==
    \/ \E c \in Calls : Decrypt(c) \/ LibDecrypts(c) \/ Answer(c)
    \/ \E k \in Keys, bytes \in Bytes : TypePassword(k, bytes)
    \/ \E k \in Keys : ClearPassword(k) \/ KeyDeleted(k) \/ KeySaved(k) \/ Pass(k)
    \/ AllKeysDeleted
    \/ \E bytes \in Bytes : PasswordChanged(bytes)
    \/ CheckPasswordsExpiration

Spec == Init /\ [][Next]_vars

\* The library answers, the main thread runs, time passes, and a user who is
\* asked for a password and does nothing else types the right one.
FairSpec ==
    /\ Spec
    /\ \A c \in Calls : WF_vars(LibDecrypts(c)) /\ WF_vars(Answer(c))
    /\ \A k \in Keys :
          /\ WF_vars(Waiting(k) # {} /\ TypePassword(k, right[k]))
          /\ WF_vars(Pass(k))
    /\ WF_vars(CheckPasswordsExpiration)

-----------------------------------------------------------------------------
(* Safety *)

\* prepareInputKey: Assert(i != end(_list->entries)).  Wallet remembers
\* passwords of listed keys only, whatever answer comes after a deletion: so
\* decrypt and trySilentDecrypt, which send what is remembered, find the key.
RemembersListedOnly ==
    /\ DOMAIN passwords \subseteq listed
    /\ \A c \in Calls : calls[c].at = "waiting" => calls[c].key \in listed

\* Who waits for a password waits for one newer than the one remembered: no
\* password was typed since, which the wait would have missed.
WaitsForNewer ==
    \A c \in Calls :
        calls[c].at = "waiting" =>
            /\ calls[c].key \in DOMAIN passwords
            /\ passwords[calls[c].key].generation = calls[c].generation

\* The user is asked for another password only when the one remembered is the
\* one that failed, though it may have changed while the library was busy.
\* The exception is real: a password typed after one was erased starts with
\* the same generation again.
PromptIsTrue ==
    [][\A c \in Calls :
          calls[c].at = "out" /\ calls'[c].at = "waiting" =>
              LET k == calls[c].key IN
                \/ k \in erased
                \/ passwords[k].bytes = calls[c].bytes]_vars

(* Liveness *)

\* A decrypt is answered, unless it was waiting for a password when the
\* password was cleared, expired, or its key deleted.
DecryptEnds ==
    \A c \in Calls :
        calls[c].at = "out" ~> calls[c].at \in {"answered", "dropped"}

\* A password that proved good is not remembered for ever, unless it fails.
GoodPasswordExpires ==
    \A k \in Keys :
        (k \in DOMAIN passwords /\ passwords[k].expires # "zero") ~>
            (k \in DOMAIN passwords => passwords[k].expires = "zero")

=============================================================================
