------------------------------- MODULE Mailing -------------------------------
(***************************************************************************)
(* The accounts of users, created at the first profile request after a     *)
(* login, blocked and deleted by administrators, and the mails sent to     *)
(* them through the e-mail queue.                                          *)
(*                                                                         *)
(* A mail is the user it is for and whether it welcomes a new account; all *)
(* mails carry the user's id.  RabbitMQ keeps a mail until it is acknowl-  *)
(* edged: one whose handler throws, or whose worker stops, comes again.    *)
(***************************************************************************)
EXTENDS Integers, FiniteSets, Steps

CONSTANTS
    Persons,     \* the users Keycloak knows
    Logins,      \* the requests the application can serve at one time
    Senders,     \* the mails the worker can process at one time
    MaxMails,    \* bound: the mails published
    MaxCreations \* bound: the accounts created

ASSUME MailsAssumption == MaxMails \in Nat /\ MaxCreations \in Nat

VARIABLES
    profile,     \* the rows of User: does it exist, may it be mailed, is it blocked
    login,       \* where each request stands
    mails,       \* the queue
    sender,      \* where each handler of a mail stands
    published,   \* how many mails were published,
    creations,   \* and how many accounts created
    (* observations of the run, read by no action *)
    greetings,    \* the welcome mails of each user less the accounts he was given
    refused,     \* mails handed to Resend when their user did not want mails,
    turned       \* and those whose user decided so after the check

mailQueue == <<mails, published>>
mailObserved == <<greetings, refused, turned>>
mailVars == <<profile, login, mailQueue, sender, creations, mailObserved>>

NoAccount == [state |-> "none"]

MailInit ==
    /\ profile = [p \in Persons |-> NoAccount]
    /\ login = [k \in Logins |-> Idle]
    /\ mails = {} /\ sender = [s \in Senders |-> Idle]
    /\ published = 0 /\ creations = 0
    /\ greetings = [p \in Persons |-> 0]
    /\ refused = {} /\ turned = {}

HasAccount(p) == profile[p] # NoAccount
LoginAt(k, p) == login[k].pc = p
LoginGoes(k, state) == login' = [login EXCEPT ![k] = state]

-----------------------------------------------------------------------------
(* Accounts                                                                *)

(* BlockedUserGuard, before every handler: who has no account yet passes.  *)
Admit(k, p) ==
    /\ LoginAt(k, "idle")
    /\ HasAccount(p) => ~profile[p].blocked
    /\ LoginGoes(k, [pc |-> "find", by |-> p])
    /\ UNCHANGED <<profile, mailQueue, sender, creations, mailObserved>>

(* getOrCreateUser: a user who is found is returned as he is, ...          *)
FindUser(k) ==
    /\ LoginAt(k, "find")
    /\ LoginGoes(k, IF HasAccount(login[k].by) THEN Idle ELSE [login[k] EXCEPT !.pc = "create"])
    /\ UNCHANGED <<profile, mailQueue, sender, creations, mailObserved>>

UpsertUser(k) ==                                  \* mutant: the user is upserted
    /\ LoginAt(k, "create")
    /\ creations < MaxCreations /\ creations' = creations + 1
    /\ LET p == login[k].by
       IN  /\ greetings' = [greetings EXCEPT ![p] = @ - (IF HasAccount(p) THEN 0 ELSE 1)]
           /\ profile' = [profile EXCEPT ![p] =
                 [state |-> "live", notify |-> TRUE, blocked |-> FALSE]]
    /\ LoginGoes(k, [login[k] EXCEPT !.pc = "welcome"])
    /\ UNCHANGED <<mailQueue, sender, refused, turned>>

(* ... another is created, unless he was meanwhile (his id is the key), ...*)
CreateUser(k) ==
    /\ LoginAt(k, "create")
    /\ creations < MaxCreations /\ creations' = creations + 1
    /\ LET p == login[k].by
       IN  /\ ~HasAccount(p)
           /\ profile' = [profile EXCEPT ![p] =
                 [state |-> "live", notify |-> TRUE, blocked |-> FALSE]]
           /\ greetings' = [greetings EXCEPT ![p] = @ - 1]
    /\ LoginGoes(k, [login[k] EXCEPT !.pc = "welcome"])
    /\ UNCHANGED <<mailQueue, sender, refused, turned>>

Publishes(p) ==
    /\ published < MaxMails /\ published' = published + 1
    /\ mails' = mails \cup {[id |-> published, to |-> p]}

(* ... and welcomed.  A call that fails ends the request; that of the      *)
(* welcome mail is logged only.                                            *)
SendWelcomeEmail(k) ==
    /\ LoginAt(k, "welcome")
    /\ Publishes(login[k].by)
    /\ greetings' = [greetings EXCEPT ![login[k].by] = @ + 1]
    /\ LoginGoes(k, Idle)
    /\ UNCHANGED <<profile, sender, creations, refused, turned>>

LoginFails(k) ==
    /\ ~LoginAt(k, "idle")
    /\ LoginGoes(k, Idle)
    /\ UNCHANGED <<profile, mailQueue, sender, creations, mailObserved>>

Checked(s, p) == sender[s].pc \in {"send", "sent"} /\ sender[s].mail.to = p

(* updatePreferences finds the user first; the update fails without him.   *)
UpdatePreferences(p, notify) ==
    /\ HasAccount(p) /\ ~profile[p].blocked
    /\ profile' = [profile EXCEPT ![p].notify = notify]
    /\ turned' = turned \cup {sender[s].mail.id : s \in {t \in Senders : Checked(t, p) /\ ~notify}}
    /\ UNCHANGED <<login, mailQueue, sender, creations, greetings, refused>>

(* blockUser and unblockUser                                               *)
BlockUser(p, blocked) ==
    /\ HasAccount(p)
    /\ profile' = [profile EXCEPT ![p].blocked = blocked]
    /\ UNCHANGED <<login, mailQueue, sender, creations, mailObserved>>

(* deleteUser; his subscription is in Billing.                             *)
DeleteAccount(p) ==
    /\ HasAccount(p)
    /\ profile' = [profile EXCEPT ![p] = NoAccount]
    /\ UNCHANGED <<login, mailQueue, sender, creations, mailObserved>>

-----------------------------------------------------------------------------
(* The queue                                                               *)

(* publishSendEmail of the crons, of the consumer of scans and of billing. *)
PublishSendEmail(p) ==
    /\ HasAccount(p)
    /\ Publishes(p)
    /\ UNCHANGED <<profile, login, sender, creations, mailObserved>>

SenderAt(s, p) == sender[s].pc = p
SenderGoes(s, state) == sender' = [sender EXCEPT ![s] = state]

HandleSendEmail(s, mail) ==
    /\ SenderAt(s, "idle")
    /\ mails' = mails \ {mail}
    /\ SenderGoes(s, [pc |-> "check", mail |-> mail])
    /\ UNCHANGED <<profile, login, published, creations, mailObserved>>

CheckExists(s) ==                                 \* mutant: the preference is not looked at
    /\ SenderAt(s, "check")
    /\ LET p == sender[s].mail.to
       IN  SenderGoes(s, IF HasAccount(p) THEN [sender[s] EXCEPT !.pc = "send"] ELSE Idle)
    /\ UNCHANGED <<profile, login, mailQueue, creations, mailObserved>>

(* A user who is gone, or wants no mails, gets none.                       *)
CheckOptOut(s) ==
    /\ SenderAt(s, "check")
    /\ LET p == sender[s].mail.to
       IN  SenderGoes(s, IF HasAccount(p) /\ profile[p].notify
                         THEN [sender[s] EXCEPT !.pc = "send"] ELSE Idle)
    /\ UNCHANGED <<profile, login, mailQueue, creations, mailObserved>>

(* Resend has the mail: the reply comes, or is lost, or the worker stops.  *)
SendMail(s) ==
    /\ SenderAt(s, "send")
    /\ LET mail == sender[s].mail
       IN  refused' = refused \cup {i \in {mail.id} :
               HasAccount(mail.to) /\ ~profile[mail.to].notify}
    /\ SenderGoes(s, [sender[s] EXCEPT !.pc = "sent"])
    /\ UNCHANGED <<profile, login, mailQueue, creations, greetings, turned>>

Acknowledge(s) ==
    /\ SenderAt(s, "sent")
    /\ SenderGoes(s, Idle)
    /\ UNCHANGED <<profile, login, mailQueue, creations, mailObserved>>

(* Thrown again, or unacknowledged: the mail goes back to the queue.       *)
Requeue(s) ==
    /\ ~SenderAt(s, "idle")
    /\ mails' = mails \cup {sender[s].mail}
    /\ SenderGoes(s, Idle)
    /\ UNCHANGED <<profile, login, published, creations, mailObserved>>

(* An hour has passed, or the queue is full.                               *)
ExpireMail(mail) ==
    /\ mails' = mails \ {mail}
    /\ UNCHANGED <<profile, login, published, sender, creations, mailObserved>>

-----------------------------------------------------------------------------

Account(k) ==
    \/ \E p \in Persons : Admit(k, p)
    \/ FindUser(k) \/ CreateUser(k) \/ SendWelcomeEmail(k) \/ LoginFails(k)

Deliver(s) ==
    \/ \E mail \in mails : HandleSendEmail(s, mail)
    \/ CheckOptOut(s) \/ SendMail(s) \/ Acknowledge(s) \/ Requeue(s)

MailNext ==
    \/ \E k \in Logins : Account(k)
    \/ \E p \in Persons :
          \/ \E yes \in BOOLEAN : UpdatePreferences(p, yes) \/ BlockUser(p, yes)
          \/ DeleteAccount(p) \/ PublishSendEmail(p)
    \/ \E s \in Senders : Deliver(s)
    \/ \E mail \in mails : ExpireMail(mail)

MailSpec == MailInit /\ [][MailNext]_mailVars

-----------------------------------------------------------------------------
(* Properties                                                              *)

MailRow == [id: 0 .. MaxMails, to: Persons]
Profile == {NoAccount} \cup [state: {"live"}, notify: BOOLEAN, blocked: BOOLEAN]
LoginState == {Idle} \cup [pc: {"find", "create", "welcome"}, by: Persons]
SenderState == {Idle} \cup [pc: {"check", "send", "sent"}, mail: MailRow]

MailTypeOK ==
    /\ profile \in [Persons -> Profile]
    /\ login \in [Logins -> LoginState]
    /\ mails \subseteq MailRow /\ published \in 0 .. MaxMails
    /\ sender \in [Senders -> SenderState]
    /\ creations \in 0 .. MaxCreations
    /\ greetings \in [Persons -> Int]
    /\ refused \subseteq 0 .. MaxMails /\ turned \subseteq 0 .. MaxMails

(* However many first requests of a user overlap, and although a user who  *)
(* was deleted is created again, each account is welcomed once at most.    *)
WelcomedPerAccount == \A p \in Persons : greetings[p] <= 0

(* "Skips send if user opted out": a mail published before the user opted  *)
(* out, or given back by a handler, is not sent afterwards, unless he did  *)
(* so after this handler had looked.                                       *)
OptOutRespected == refused \subseteq turned
=============================================================================
