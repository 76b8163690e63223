-------------------------------- MODULE Chat --------------------------------
(***************************************************************************)
(* The direct chats of PRO users with the administrator: their creation,   *)
(* their messages, the marks of what was read, the pages a client walks    *)
(* through, and the daily digest of what is unread.                        *)
(*                                                                         *)
(* A request is a process of the main application with one step for each   *)
(* call whose answer may be stale at the next one.  The checks that a chat *)
(* exists and that the caller is a member are made with the step they      *)
(* precede: members and chats never change, but for the deletion of a      *)
(* user.  The marks of a page are written in the background, after the     *)
(* page is returned.  Messages are numbered in the order of createdAt.     *)
(*                                                                         *)
(* The ten minutes during which a message may be changed are left to       *)
(* chance: a change may be refused at any time.  Names, search and the     *)
(* events sent to the rooms are left out.                                  *)
(***************************************************************************)
EXTENDS Pagination, Sequences, Steps

CONSTANTS
    Clients,      \* the PRO users
    Admin,        \* the administrator, member of every chat
    Chats,        \* bound: the chats that can be created
    Requests,     \* the requests the application can serve at one time
    MaxMessages,  \* bound: the messages sent
    MaxJobs,      \* bound: the marks being written at one time
    Limit,        \* the rows of a page
    Orders        \* the orders clients ask for: "asc", "desc"

Null == "null"

ASSUME AdminAssumption == Admin \notin Clients
ASSUME NullAssumption == Null \notin Clients
ASSUME PageAssumption == Limit \in Nat \ {0} /\ MaxMessages \in Nat /\ MaxJobs \in Nat
ASSUME OrdersAssumption == Orders \subseteq {"asc", "desc"}

VARIABLES
    gone,         \* the clients whose account was deleted
    owner,        \* the creator of each chat
    messages,     \* the rows of Message, with the users of their MessageRead rows
    request,      \* where each request stands
    marks,        \* the marks being written in the background
    walk,         \* the pages a client has asked for, and the last one's cursors
    digest,       \* where the cron of the unread digest stands
    (* observations of the run, read by no action *)
    overlapped,   \* the clients for whom two creations overlapped
    rewritten,    \* the messages whose text was written after their deletion
    raced,        \* those that were being edited when they were deleted
    unmarked      \* the marks that failed: <<user, message>>

chatTables == <<gone, owner, messages>>
chatObserved == <<overlapped, rewritten, raced, unmarked>>
chatVars == <<chatTables, request, marks, walk, digest, chatObserved>>

Users == Clients \cup {Admin}
Ids == DOMAIN messages

ChatInit ==
    /\ gone = {} /\ owner = [c \in Chats |-> Null] /\ messages = <<>>
    /\ request = [r \in Requests |-> Idle]
    /\ marks = {} /\ walk = Idle /\ digest = Idle
    /\ overlapped = {} /\ rewritten = {} /\ raced = {} /\ unmarked = {}

Members(c) == IF owner[c] = Null THEN {} ELSE {owner[c], Admin} \ gone
Row(m) == messages[m]
Exists(m) == Row(m).state # "removed"
Kept(m) == Row(m).state = "kept"

RequestAt(r, p) == request[r].pc = p
RequestGoes(r, state) == request' = [request EXCEPT ![r] = state]
RequestEnds(r) == RequestGoes(r, Idle)

-----------------------------------------------------------------------------
(* Chats                                                                   *)

(* Mutant: the chat is made whether or not there is one.                   *)
FindChatNot(r, u) ==
    /\ RequestAt(r, "idle")
    /\ u \in Clients \ gone
    /\ RequestGoes(r, [pc |-> "create", by |-> u])
    /\ overlapped' = overlapped \cup
          {v \in {u} : \E q \in Requests : RequestAt(q, "create") /\ request[q].by = u}
    /\ UNCHANGED <<chatTables, marks, walk, digest, rewritten, raced, unmarked>>

(* createChat looks for a chat with the administrator ...                  *)
FindChat(r, u) ==
    /\ RequestAt(r, "idle")
    /\ u \in Clients \ gone
    /\ \A c \in Chats : owner[c] # u
    /\ RequestGoes(r, [pc |-> "create", by |-> u])
    /\ overlapped' = overlapped \cup
          {v \in {u} : \E q \in Requests : RequestAt(q, "create") /\ request[q].by = u}
    /\ UNCHANGED <<chatTables, marks, walk, digest, rewritten, raced, unmarked>>

CreateChatOfAdmin(r) ==                           \* mutant: the wrong creator
    /\ RequestAt(r, "create")
    /\ request[r].by \notin gone
    /\ \E c \in Chats : owner[c] = Null /\ owner' = [owner EXCEPT ![c] = Admin]
    /\ RequestEnds(r)
    /\ UNCHANGED <<gone, messages, marks, walk, digest, chatObserved>>

(* ... and, if there is none, makes it and its members in a transaction.   *)
CreateChat(r) ==
    /\ RequestAt(r, "create")
    /\ request[r].by \notin gone
    /\ \E c \in Chats : owner[c] = Null /\ owner' = [owner EXCEPT ![c] = request[r].by]
    /\ RequestEnds(r)
    /\ UNCHANGED <<gone, messages, marks, walk, digest, chatObserved>>

-----------------------------------------------------------------------------
(* Messages                                                                *)

(* The message and the chat's updatedAt, in a transaction.                 *)
SendMessage(u, c) ==
    /\ u \in Members(c)
    /\ Len(messages) < MaxMessages
    /\ messages' = Append(messages, [chat |-> c, sender |-> u, state |-> "kept",
                                     readBy |-> {}])
    /\ UNCHANGED <<gone, owner, request, marks, walk, digest, chatObserved>>

(* Mutant: a deleted message can be changed.                               *)
CheckChangeOfAny(r, op, m) ==
    /\ RequestAt(r, "idle")
    /\ Exists(m) /\ Row(m).sender \notin gone
    /\ RequestGoes(r, [pc |-> op, message |-> m])
    /\ UNCHANGED <<chatTables, marks, walk, digest, chatObserved>>

(* updateMessage and deleteMessage read the message, which must be the     *)
(* caller's, of the last ten minutes, and not be deleted ...               *)
CheckChange(r, op, m) ==
    /\ RequestAt(r, "idle")
    /\ Kept(m) /\ Row(m).sender \notin gone
    /\ RequestGoes(r, [pc |-> op, message |-> m])
    /\ UNCHANGED <<chatTables, marks, walk, digest, chatObserved>>

(* ... and then write it.                                                  *)
UpdateMessage(r) ==
    /\ RequestAt(r, "edit")
    /\ LET m == request[r].message
       IN  /\ Exists(m)
           /\ rewritten' = rewritten \cup {i \in {m} : ~Kept(i)}
    /\ RequestEnds(r)
    /\ UNCHANGED <<chatTables, marks, walk, digest, overlapped, raced, unmarked>>

DeleteMessage(r) ==
    /\ RequestAt(r, "delete")
    /\ LET m == request[r].message
       IN  /\ Exists(m)
           /\ messages' = [messages EXCEPT ![m].state = "deleted"]
           /\ raced' = raced \cup {i \in {m} :
                 \E q \in Requests : RequestAt(q, "edit") /\ request[q].message = i}
    /\ RequestEnds(r)
    /\ UNCHANGED <<gone, owner, marks, walk, digest, overlapped, rewritten, unmarked>>

RequestFails(r) ==
    /\ ~RequestAt(r, "idle")
    /\ RequestEnds(r)
    /\ UNCHANGED <<chatTables, marks, walk, digest, chatObserved>>

(* The administrator deletes a user: the memberships and messages of the   *)
(* user go with him, the chats and what he read stay.                      *)
DeleteUser(u) ==
    /\ u \in Clients \ gone
    /\ gone' = gone \cup {u}
    /\ messages' = [m \in Ids |-> IF Row(m).sender = u
                                  THEN [Row(m) EXCEPT !.state = "removed"] ELSE Row(m)]
    /\ UNCHANGED <<owner, request, marks, walk, digest, chatObserved>>

-----------------------------------------------------------------------------
(* Pages, and the marks they leave                                         *)

(* The rows of a chat, deleted messages included.                          *)
Rows(c) == {m \in Ids : Exists(m) /\ Row(m).chat = c}

(* getChatMessages sorts by createdAt and points at rows by id.            *)
PageOf(limit, c, order, asked, cursor) ==
    CursorPage(Rows(c), order, FALSE, limit, asked, cursor)

(* Mutant: the cursor of the next page is the row read to see if there is  *)
(* one.                                                                    *)
PageSkipping(c, order, asked, cursor) ==
    LET page == PageOf(Limit, c, order, asked, cursor)
        read == PageOf(Limit + 1, c, order, asked, cursor).data
    IN  [page EXCEPT !.next = IF page.hasNext THEN Final(read, order) ELSE NoCursor]

Page(c, order, asked, cursor) == PageOf(Limit, c, order, asked, cursor)

Shows(u, page, state) ==
    /\ Cardinality(marks) < MaxJobs
    /\ walk' = state
    /\ marks' = marks \cup {j \in {[pc |-> "find", by |-> u, ids |-> page.data]} :
                               page.data # {}}
    /\ UNCHANGED <<chatTables, request, digest, chatObserved>>

Stage(page) == IF page.hasNext THEN "more" ELSE "end"

FirstPage(u, c, order) ==
    LET page == Page(c, order, "first", NoCursor)
    IN  /\ u \in Members(c)
        /\ Shows(u, page, [pc |-> Stage(page), by |-> u, chat |-> c, order |-> order,
                           shown |-> page.data, twice |-> {}, next |-> page.next,
                           previous |-> page.previous, base |-> Rows(c), cut |-> FALSE])

NextPage ==
    LET page == Page(walk.chat, walk.order, "after", walk.next)
    IN  /\ walk.pc = "more"
        /\ walk.by \in Members(walk.chat)
        /\ Shows(walk.by, page,
                 [pc |-> Stage(page), by |-> walk.by, chat |-> walk.chat, order |-> walk.order,
                  shown |-> walk.shown \cup page.data,
                  twice |-> walk.twice \cup (walk.shown \cap page.data), next |-> page.next,
                  previous |-> page.previous, base |-> walk.base, cut |-> ~Exists(walk.next)])

PreviousPage ==
    LET page == Page(walk.chat, walk.order, "before", walk.previous)
    IN  /\ walk.pc \in {"more", "end"}
        /\ walk.previous # NoCursor
        /\ walk.by \in Members(walk.chat)
        /\ Shows(walk.by, page, [pc |-> "back", by |-> walk.by, chat |-> walk.chat,
                                 order |-> walk.order, shown |-> page.data,
                                 cursor |-> walk.previous])

(* The client says what it has read (MESSAGE_READ and MESSAGES_READ).      *)
SayRead(u, ids) ==
    /\ Cardinality(marks) < MaxJobs
    /\ \A m \in ids : u \in Members(Row(m).chat)
    /\ marks' = marks \cup {[pc |-> "find", by |-> u, ids |-> ids]}
    /\ UNCHANGED <<chatTables, request, walk, digest, chatObserved>>

FindMessagesOwn(j) ==                             \* mutant: the wrong messages are left out
    LET own == {m \in j.ids : Exists(m) /\ Row(m).sender = j.by}
    IN  /\ j.pc = "find"
        /\ marks' = (marks \ {j}) \cup {k \in {[pc |-> "insert", by |-> j.by, ids |-> own]} :
                                           own # {} /\ j.by \notin gone}
        /\ UNCHANGED <<chatTables, request, walk, digest, chatObserved>>

(* markMessagesAsRead finds the messages still there, and not the user's ...*)
FindMessages(j) ==
    LET others == {m \in j.ids : Exists(m) /\ Row(m).sender # j.by}
    IN  /\ j.pc = "find"
        /\ marks' = (marks \ {j}) \cup {k \in {[pc |-> "insert", by |-> j.by, ids |-> others]} :
                                           others # {} /\ j.by \notin gone}
        /\ UNCHANGED <<chatTables, request, walk, digest, chatObserved>>

Inserts(j) == [m \in Ids |-> IF m \in j.ids THEN [Row(m) EXCEPT !.readBy = @ \cup {j.by}]
                                             ELSE Row(m)]

(* ... and inserts all the marks, skipping those there are, or none: one   *)
(* message removed meanwhile is enough to refuse them.                     *)
InsertMarks(j) ==
    /\ j.pc = "insert"
    /\ marks' = marks \ {j}
    /\ IF \A m \in j.ids : Exists(m)
       THEN messages' = Inserts(j) /\ UNCHANGED unmarked
       ELSE unmarked' = unmarked \cup ({j.by} \X j.ids) /\ UNCHANGED messages
    /\ UNCHANGED <<gone, owner, request, walk, digest, overlapped, rewritten, raced>>

(* A failure is logged and forgotten.                                      *)
MarkFails(j) ==
    /\ marks' = marks \ {j}
    /\ unmarked' = unmarked \cup ({j.by} \X j.ids)
    /\ UNCHANGED <<chatTables, request, walk, digest, overlapped, rewritten, raced>>

-----------------------------------------------------------------------------
(* The unread digest                                                       *)

IsUnread(m, u) == Kept(m) /\ Row(m).sender # u /\ u \notin Row(m).readBy

(* getUserChats counts the messages of a chat a member has not read ...    *)
UnreadCount(c, u) == Cardinality({m \in Ids : Row(m).chat = c /\ IsUnread(m, u)})

(* ... and the digest does so for all members in one query, joining the    *)
(* messages with the members of their chat.                                *)
UnreadCounts ==
    [p \in {q \in Chats \X Users : q[2] \in Members(q[1])} |->
        Cardinality({m \in Ids : Kept(m) /\ Row(m).chat = p[1] /\ Row(m).sender # p[2]
                                 /\ ~(p[2] \in Row(m).readBy)})]

(* The newest kept message of a chat, which alone makes its members        *)
(* candidates.                                                             *)
IsNewest(m) == Kept(m) /\ \A k \in Ids : Kept(k) /\ Row(k).chat = Row(m).chat => k <= m

FindMembers ==
    /\ digest.pc = "idle"
    /\ LET pairs == {p \in Ids \X Users : /\ IsNewest(p[1]) /\ IsUnread(p[1], p[2])
                                         /\ p[2] \in Members(Row(p[1]).chat)}
       IN  /\ pairs # {}
           /\ digest' = [pc |-> "count", pairs |-> pairs]
    /\ UNCHANGED <<chatTables, request, marks, walk, chatObserved>>

(* The users of the pairs with more than n unread messages in the chat.    *)
UnreadOver(n) ==
    {u \in Users : \E p \in digest.pairs :
        /\ p[2] = u /\ <<Row(p[1]).chat, u>> \in DOMAIN UnreadCounts
        /\ UnreadCounts[<<Row(p[1]).chat, u>>] > n}

CountUnreadMany ==                                \* mutant: one message is not enough
    /\ digest.pc = "count"
    /\ digest' = [pc |-> "send", pairs |-> digest.pairs, users |-> UnreadOver(1)]
    /\ UNCHANGED <<chatTables, request, marks, walk, chatObserved>>

CountUnread ==
    /\ digest.pc = "count"
    /\ digest' = [pc |-> "send", pairs |-> digest.pairs, users |-> UnreadOver(0)]
    /\ UNCHANGED <<chatTables, request, marks, walk, chatObserved>>

(* Each user is mailed, or skipped: deleted, not PRO, not wanting emails,  *)
(* or the email could not be made.                                         *)
SendDigest ==
    /\ digest.pc = "send"
    /\ IF digest.users = {} THEN digest' = Idle
       ELSE \E u \in digest.users :
             digest' = [pc |-> "send", pairs |-> {}, users |-> digest.users \ {u}]
    /\ UNCHANGED <<chatTables, request, marks, walk, chatObserved>>

DigestFails ==
    /\ digest.pc # "idle"
    /\ digest' = Idle
    /\ UNCHANGED <<chatTables, request, marks, walk, chatObserved>>

-----------------------------------------------------------------------------

Creation(r) == (\E u \in Clients : FindChat(r, u)) \/ CreateChat(r) \/ RequestFails(r)

Change(r) ==
    \/ \E m \in Ids, op \in {"edit", "delete"} : CheckChange(r, op, m)
    \/ UpdateMessage(r) \/ DeleteMessage(r)

Send == \E u \in Users, c \in Chats : SendMessage(u, c)

Paging ==
    \/ \E u \in Users, c \in Chats, order \in Orders : FirstPage(u, c, order)
    \/ NextPage \/ PreviousPage

Say == \E u \in Users, m \in Ids : SayRead(u, {m})

Mark(j) == j \in marks /\ (FindMessages(j) \/ InsertMarks(j) \/ MarkFails(j))

Digest == FindMembers \/ CountUnread \/ SendDigest \/ DigestFails

ChatNext ==
    \/ \E r \in Requests : Creation(r) \/ Change(r)
    \/ Send \/ Paging \/ Say
    \/ \E j \in marks : Mark(j)
    \/ Digest
    \/ \E u \in Clients : DeleteUser(u)

ChatSpec == ChatInit /\ [][ChatNext]_chatVars

-----------------------------------------------------------------------------
(* Properties                                                              *)

WalkState(pcs) ==
    [pc: pcs, by: Users, chat: Chats, order: Orders, shown: SUBSET Ids, twice: SUBSET Ids,
     next: Ids \cup {NoCursor}, previous: Ids \cup {NoCursor}, base: SUBSET Ids, cut: BOOLEAN]

ChatTypeOK ==
    /\ gone \in SUBSET Clients
    /\ owner \in [Chats -> Clients \cup {Null}]
    /\ messages \in Seq([chat: Chats, sender: Users, state: {"kept", "deleted", "removed"},
                         readBy: SUBSET Users])
    /\ request \in [Requests -> {Idle} \cup [pc: {"create"}, by: Clients]
                                        \cup [pc: {"edit", "delete"}, message: Ids]]
    /\ marks \in SUBSET [pc: {"find", "insert"}, by: Users, ids: SUBSET Ids]
    /\ \/ walk = Idle
       \/ walk \in WalkState({"more", "end"})
       \/ walk \in [pc: {"back"}, by: Users, chat: Chats, order: Orders, shown: SUBSET Ids,
                    cursor: Ids]
    /\ digest \in {Idle} \cup [pc: {"count"}, pairs: SUBSET (Ids \X Users)]
                  \cup [pc: {"send"}, pairs: SUBSET (Ids \X Users), users: SUBSET Users]
    /\ overlapped \in SUBSET Clients
    /\ rewritten \in SUBSET Ids /\ raced \in SUBSET Ids
    /\ unmarked \in SUBSET (Users \X Ids)

(* "Return existing chat instead of creating duplicate": a client has more *)
(* than one chat only when two of his creations overlapped.                *)
OneChat ==
    \A u \in Clients \ overlapped : Cardinality({c \in Chats : owner[c] = u}) <= 1

(* The content of a deleted message, which "is preserved for audit         *)
(* purposes", is written again by no edit but one that had looked at the   *)
(* message before it was deleted.                                          *)
DeletedTextKept == rewritten \subseteq raced

(* A client that follows the cursors to the last page is shown every       *)
(* message that was there from the first page on, once, whatever is sent,  *)
(* edited or deleted meanwhile; unless the row of a cursor is removed with *)
(* its sender, which ends the walk there.                                  *)
WalkComplete ==
    walk.pc \in {"more", "end"} =>
        /\ walk.twice = {}
        /\ walk.pc = "end" /\ ~walk.cut =>
              {m \in walk.base : Exists(m)} \subseteq walk.shown

(* A message that a page has shown to another than its sender is read by   *)
(* him, or soon to be: its mark is being written, unless that failed.      *)
ShownIsMarked ==
    walk.pc # "idle" /\ walk.by \notin gone =>
        \A m \in {i \in walk.shown : Exists(i) /\ Row(i).sender # walk.by} :
            \/ walk.by \in Row(m).readBy
            \/ <<walk.by, m>> \in unmarked
            \/ \E j \in marks : j.by = walk.by /\ m \in j.ids

(* The digest counts the unread messages as the chat list does, and a      *)
(* member who has not read the newest message of a chat when the digest    *)
(* starts, nor when it has counted, is mailed (or skipped on purpose).     *)
DigestReaches ==
    /\ \A c \in Chats : \A u \in Members(c) : UnreadCounts[<<c, u>>] = UnreadCount(c, u)
    /\ digest.pc = "send" =>
          \A p \in digest.pairs :
              IsUnread(p[1], p[2]) /\ p[2] \notin gone => p[2] \in digest.users

(* "Cursor for pagination (before this cursor)": the page before a cursor  *)
(* shows messages that precede it in the order asked for.                  *)
PageBeforePrecedes ==
    walk.pc = "back" =>
        \A m \in walk.shown : Before(walk.order, m, walk.cursor)
=============================================================================
