----------------------------- MODULE ContentStore ------------------------------
(**********************************************************************************)
(* The content of a call, off chain: sealed for its namespace and uploaded to     *)
(* Walrus when the call is recorded (sdk-ts traces.ts, seal.ts, walrus.ts), read  *)
(* back and decrypted by a program that holds a capability and one client.        *)
(*                                                                                *)
(* Walrus and the Seal key servers are external: a request may fail for good,     *)
(* fail for now, or have its answer lost; a blob that is stored is served only    *)
(* after a while.  Decrypts through one client run at once and share a session    *)
(* key, which costs a signature and expires.  (The dashboard's decryptCallContent *)
(* makes the same calls with a client of its own each time: one reader.)          *)
(**********************************************************************************)
EXTENDS Naturals, Sequences, FiniteSets

CONSTANTS
  Content,        \* contents of calls, each uploaded once
  Reader,         \* reads through the client; bounds their number
  WriteRetries,   \* attempts of an upload (3)
  ReadRetries     \* attempts of a read (6)

ASSUME RetriesArePositive == {WriteRetries, ReadRetries} \subseteq Nat \ {0}

VARIABLES
  uploads,        \* the state of each upload
  walrus,         \* the contents stored, and of those the ones served
  readers,        \* the state of each read
  keys,           \* the session keys minted, oldest first
  cached          \* the key sessionKeyPromise holds, 0 for null

contentVars == <<uploads, walrus, readers, keys, cached>>

ContentInit ==
  /\ uploads = [c \in Content |-> [stage |-> "none", attempt |-> 0]]
  /\ walrus = [stored |-> {}, served |-> {}]
  /\ readers = [r \in Reader |-> [stage |-> "none", content |-> {}, attempt |-> 0, key |-> 0]]
  /\ keys = <<>>
  /\ cached = 0

-----------------------------------------------------------------------------
\* resolvePayload: encrypt, then upload.  An encryption that fails uploads nothing.
ResolvePayload(c) ==
  /\ uploads[c].stage = "none"
  /\ \E stage \in {"writing", "error"} :
       uploads' = [uploads EXCEPT ![c] = [stage |-> stage, attempt |-> 1]]
  /\ UNCHANGED <<walrus, readers, keys, cached>>

Stores(c) == walrus' = [walrus EXCEPT !.stored = @ \cup {c}]

WriteBlob(c) ==
  /\ uploads[c].stage = "writing"
  /\ Stores(c)
  /\ uploads' = [uploads EXCEPT ![c].stage = "done"]
  /\ UNCHANGED <<readers, keys, cached>>

\* Only the relay's own retryable error and "fetch failed" are tried again; a timeout of
\* the write is not.  Either may have stored the blob.
WriteFails(c, retryable) ==
  /\ uploads[c].stage = "writing"
  /\ Stores(c) \/ walrus' = walrus
  /\ uploads' = IF retryable /\ uploads[c].attempt < WriteRetries
                THEN [uploads EXCEPT ![c].attempt = @ + 1]
                ELSE [uploads EXCEPT ![c].stage = "error"]
  /\ UNCHANGED <<readers, keys, cached>>

\* Enough storage nodes have the blob.
Propagate(c) ==
  /\ c \in walrus.stored \ walrus.served
  /\ walrus' = [walrus EXCEPT !.served = @ \cup {c}]
  /\ UNCHANGED <<uploads, readers, keys, cached>>

-----------------------------------------------------------------------------
Fails(r) ==
  /\ readers' = [readers EXCEPT ![r].stage = "error"]
  /\ UNCHANGED <<uploads, walrus>>
Goes(r, stage, key) ==
  /\ readers' = [readers EXCEPT ![r].stage = stage, ![r].key = key]
  /\ UNCHANGED <<uploads, walrus>>

\* A call names a blob once its upload is done.
ReadContent(r, c) ==
  /\ readers[r].stage = "none"
  /\ uploads[c].stage = "done"
  /\ readers' = [readers EXCEPT ![r] = [stage |-> "reading", content |-> {c},
                                        attempt |-> 1, key |-> 0]]
  /\ UNCHANGED <<uploads, walrus, keys, cached>>

ReadBlob(r) ==
  /\ readers[r].stage = "reading"
  /\ readers[r].content \subseteq walrus.served
  /\ Goes(r, "building", 0)
  /\ UNCHANGED <<keys, cached>>

\* A blob not served yet aborts the read, which is tried again; other errors are final.
ReadFails(r, retryable) ==
  /\ readers[r].stage = "reading"
  /\ IF retryable /\ readers[r].attempt < ReadRetries
     THEN readers' = [readers EXCEPT ![r].attempt = @ + 1] /\ UNCHANGED <<uploads, walrus>>
     ELSE Fails(r)
  /\ UNCHANGED <<keys, cached>>

\* decrypt's catch: whatever failed, the key of the moment is dropped.
DecryptFails_KeepsKey(r) == Fails(r) /\ cached' = cached                 \* mutant
DecryptFails(r) == Fails(r) /\ cached' = 0

BuildFails(r) == readers[r].stage = "building" /\ DecryptFails(r) /\ UNCHANGED keys

\* mintSessionKey: what is cached is the promise, at once.
Mint(r) ==
  /\ keys' = Append(keys, [state |-> "minting", expired |-> FALSE])
  /\ cached' = Len(keys) + 1
  /\ Goes(r, "minting", Len(keys) + 1)

\* getSessionKey, up to its await of the cached promise.
GetSessionKey(r) ==
  /\ readers[r].stage = "building"
  /\ IF cached = 0 THEN Mint(r) ELSE Goes(r, "sharing", cached) /\ UNCHANGED <<keys, cached>>

Key(r) == keys[readers[r].key]

\* After the await, a key that failed or has expired is replaced, whatever is cached now.
Shared(r) ==
  /\ readers[r].stage = "sharing"
  /\ Key(r).state # "minting"
  /\ IF Key(r).state = "signed" /\ ~Key(r).expired
     THEN Goes(r, "decrypting", readers[r].key) /\ UNCHANGED <<keys, cached>>
     ELSE Mint(r)

Minted(r) ==
  /\ readers[r].stage = "minting"
  /\ \/ /\ Key(r).state = "signed"
        /\ Goes(r, "decrypting", readers[r].key)
        /\ cached' = cached
     \/ Key(r).state = "failed" /\ DecryptFails(r)
  /\ UNCHANGED keys

\* The wallet signs or declines; the key's time runs out.
KeySettles(k, state) ==
  /\ keys[k].state = "minting"
  /\ keys' = [keys EXCEPT ![k].state = state]
  /\ UNCHANGED <<uploads, walrus, readers, cached>>
KeyExpires(k) ==
  /\ keys[k].state = "signed"
  /\ ~keys[k].expired
  /\ keys' = [keys EXCEPT ![k].expired = TRUE]
  /\ UNCHANGED <<uploads, walrus, readers, cached>>

SealDecrypts(r) ==
  /\ readers[r].stage = "decrypting"
  /\ ~Key(r).expired
  /\ Goes(r, "done", readers[r].key)
  /\ UNCHANGED <<keys, cached>>

\* The key expired on the way or was refused, or the capability was.
SealFails(r) == readers[r].stage = "decrypting" /\ DecryptFails(r) /\ UNCHANGED keys

ContentStep ==
  \/ \E c \in Content : ResolvePayload(c) \/ WriteBlob(c) \/ Propagate(c)
  \/ \E c \in Content, retryable \in BOOLEAN : WriteFails(c, retryable)
  \/ \E r \in Reader, c \in Content : ReadContent(r, c)
  \/ \E r \in Reader, retryable \in BOOLEAN : ReadFails(r, retryable)
  \/ \E r \in Reader : ReadBlob(r) \/ BuildFails(r) \/ GetSessionKey(r) \/ Shared(r) \/ Minted(r)
  \/ \E r \in Reader : SealDecrypts(r) \/ SealFails(r)
  \/ \E k \in DOMAIN keys, state \in {"signed", "failed"} : KeySettles(k, state)
  \/ \E k \in DOMAIN keys : KeyExpires(k)

-----------------------------------------------------------------------------
ContentTypeOK ==
  /\ uploads \in [Content -> [stage : {"none", "writing", "done", "error"},
                              attempt : 0..WriteRetries]]
  /\ walrus.served \subseteq walrus.stored /\ walrus.stored \subseteq Content
  /\ DOMAIN readers = Reader
  /\ \A r \in Reader :
       /\ readers[r].stage \in {"none", "reading", "building", "sharing", "minting", "decrypting",
                                "done", "error"}
       /\ readers[r].attempt \in 0..ReadRetries
       /\ readers[r].key \in 0..Len(keys)
  /\ keys \in Seq([state : {"minting", "signed", "failed"}, expired : BOOLEAN])
  /\ cached \in 0..Len(keys)

\* Reads that run at once are asked for one signature, until a key expires or a read
\* fails (seal.ts 115-121: "collapses concurrent decrypts onto a single mint+sign").  When
\* a key has expired under several of them, each signs again.
OneSignatureServesAll ==
  Len(keys) > 1 => \/ \E k \in DOMAIN keys : keys[k].expired \/ keys[k].state = "failed"
                   \/ \E r \in Reader : readers[r].stage = "error"

\* A key with which a decrypt failed is not handed to a read that starts afterwards
\* (seal.ts 119-121), and a key that is cached serves: it is being minted, was signed, or
\* nobody has noticed yet that it was not.
FailedKeyIsDropped ==
  \A r \in Reader : readers[r].stage = "error" /\ readers[r].key # 0 => cached # readers[r].key

\* A read reports what was uploaded: it needs the upload to have ended well, and an
\* upload that reports its blob has stored it, however many attempts it took.
ContentIsKept ==
  /\ \A c \in Content : uploads[c].stage = "done" => c \in walrus.stored
  /\ \A r \in Reader : readers[r].stage = "done" =>
       \A c \in readers[r].content : uploads[c].stage = "done" /\ c \in walrus.served
=============================================================================
