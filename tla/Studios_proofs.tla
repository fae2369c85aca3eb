--------------------------- MODULE Studios_proofs ---------------------------
(***************************************************************************)
(* Document Studio, for any of its parameters: its documents lose nothing  *)
(* that was written, and its drafts say what is known.                     *)
(***************************************************************************)
EXTENDS Platform_proofs, DocumentDrafts, ImageProviders

(* ----------------- documents and their versions: types ----------------- *)

\* Versions are numbered from 1, by every request at most one further.
Numbers == 1 .. requests + 1
Document ==
    [exists : {TRUE}, text : Text, version : Numbers, folder : Folders \cup {Root},
     change : {"none", "pending", "accepted", "rejected"}]
Saved == [number : Numbers, text : Text]
Parents == [Folders -> Folders \cup {Root, Missing, Deleted}]

\* What a handler may be at, by its next step.
Errands ==
    {NoRequest} \cup [op : {"track", "forget"}]
    \cup [op : {"replace", "put"}, new : Document, saves : BOOLEAN]
    \cup [op : {"save"}, version : Saved]
    \cup [op : {"purge"}, gone : SUBSET Saved, kept : SUBSET Saved]
    \cup [op : {"refill"}, kept : SUBSET Saved]
    \cup [op : {"clear", "return"}, kept : Document]
    \cup [op : {"delete"}, batch : BOOLEAN]
    \cup [op : {"folder"}, of : Folders, to : Folders \cup {Root}, new : BOOLEAN]
    \cup [op : {"remove", "others"}, of : Folders, kept : Parents]
    \cup [op : {"adopt", "unfile"}, of : Folders]

StudioTyped ==
    /\ doc \in {NoDocument} \cup Document
    /\ versions \subseteq Saved /\ parent \in Parents
    /\ handler \in [Handlers -> Errands]
    /\ requests \in 0 .. MaxRequests /\ overlap \in BOOLEAN /\ torn \in BOOLEAN

\* What a handler carries follows from what its next step is.
LEMMA AskedCarries ==
    ASSUME NEW r \in Errands
    PROVE  /\ r = NoRequest <=> r.op = "none"
           /\ r.op \in {"replace", "put"} =>
                 r = [op |-> r.op, new |-> r.new, saves |-> r.saves] /\ r.new \in Document /\ r.saves \in BOOLEAN
           /\ r.op = "save" => r.version \in Saved
           /\ r.op = "purge" => r.gone \subseteq Saved /\ r.kept \subseteq Saved
           /\ r.op = "refill" => r.kept \subseteq Saved
           /\ r.op \in {"clear", "return"} => r = [op |-> r.op, kept |-> r.kept] /\ r.kept \in Document
           /\ r.op = "delete" => r.batch \in BOOLEAN
           /\ r.op = "folder" => r.of \in Folders /\ r.to \in Folders \cup {Root} /\ r.new \in BOOLEAN
           /\ r.op \in {"remove", "others"} =>
                 r = [op |-> r.op, of |-> r.of, kept |-> r.kept] /\ r.of \in Folders /\ r.kept \in Parents
           /\ r.op \in {"adopt", "unfile"} => r = [op |-> r.op, of |-> r.of] /\ r.of \in Folders
<1> USE DEF Errands, NoRequest
<1>1. CASE r \in [op : {"replace", "put"}, new : Document, saves : BOOLEAN]
  BY <1>1
<1>2. CASE r \in [op : {"save"}, version : Saved]
  BY <1>2
<1>3. CASE r \in [op : {"purge"}, gone : SUBSET Saved, kept : SUBSET Saved]
  BY <1>3
<1>4. CASE r \in [op : {"refill"}, kept : SUBSET Saved]
  BY <1>4
<1>5. CASE r \in [op : {"clear", "return"}, kept : Document]
  BY <1>5
<1>6. CASE r \in [op : {"delete"}, batch : BOOLEAN]
  BY <1>6
<1>7. CASE r \in [op : {"folder"}, of : Folders, to : Folders \cup {Root}, new : BOOLEAN]
  BY <1>7
<1>8. CASE r \in [op : {"remove", "others"}, of : Folders, kept : Parents]
  BY <1>8
<1>9. CASE r \in [op : {"adopt", "unfile"}, of : Folders]
  BY <1>9
<1>10. CASE r \in {NoRequest} \cup [op : {"track", "forget"}]
  BY <1>10
<1> QED BY <1>1, <1>2, <1>3, <1>4, <1>5, <1>6, <1>7, <1>8, <1>9, <1>10

\* Every text is one, whatever its number.
LEMMA DocumentFields ==
    ASSUME NEW d \in Document
    PROVE  /\ d.exists = TRUE /\ d.text \in Text /\ d.version \in Numbers
           /\ d.folder \in Folders \cup {Root}
           /\ d.change \in {"none", "pending", "accepted", "rejected"}
           /\ Version(d) \in Saved
BY DEF Document, Saved, Version

\* With more requests there is room for more numbers, and nothing else changes.
LEMMA MoreNumbers ==
    ASSUME requests \in Nat, requests' = requests \/ requests' = requests + 1
    PROVE  /\ Numbers \subseteq Numbers' /\ Document \subseteq Document'
           /\ Saved \subseteq Saved' /\ Errands \subseteq Errands'
<1>1. Numbers \subseteq Numbers'
  <2>1. ASSUME NEW n \in Numbers PROVE n \in 1 .. requests' + 1
    BY DEF Numbers
  <2> QED BY <2>1 DEF Numbers
<1>2. Document \subseteq Document' /\ Saved \subseteq Saved'
  BY <1>1 DEF Document, Saved
<1>3. ASSUME NEW r \in Errands PROVE r \in Errands'
  BY <1>2, <1>3 DEF Errands, Parents, NoRequest
<1> QED BY <1>1, <1>2, <1>3

(* ------------------------------- the types ----------------------------- *)

LEMMA RequestIsTyped ==
    ASSUME StudioTyped, NEW h \in Handlers, NEW r, Begin(h, r), r \in Errands'
    PROVE  StudioTyped'
<1>1. requests' = requests + 1 /\ requests' \in 0 .. MaxRequests /\ requests \in Nat
  BY DocumentStudioAssumption DEF StudioTyped, Begin
<1>2. Document \subseteq Document' /\ Saved \subseteq Saved' /\ Errands \subseteq Errands'
  BY <1>1, MoreNumbers
<1>3. handler' \in [Handlers -> Errands']
  BY <1>2 DEF StudioTyped, Begin
<1>4. overlap' \in BOOLEAN /\ torn' \in BOOLEAN
  BY DEF StudioTyped, Begin
<1> QED BY <1>1, <1>2, <1>3, <1>4 DEF StudioTyped, Begin, Parents

\* A step of a handler, which leaves the number of requests.
LEMMA GoneIsTyped ==
    ASSUME StudioTyped, NEW h \in Handlers, NEW r \in Errands, Goes(h, r),
           doc' \in {NoDocument} \cup Document, versions' \subseteq Saved, parent' \in Parents,
           torn' \in BOOLEAN
    PROVE  StudioTyped'
<1>1. requests' = requests /\ overlap' = overlap /\ requests \in Nat
  BY DocumentStudioAssumption DEF Goes, StudioTyped
<1>2. Document \subseteq Document' /\ Saved \subseteq Saved' /\ Errands \subseteq Errands'
  BY <1>1, MoreNumbers
<1>3. handler' \in [Handlers -> Errands']
  BY <1>2 DEF StudioTyped, Goes
<1> QED BY <1>1, <1>2, <1>3 DEF StudioTyped, Parents

\* What a request makes of the document is a document, with a number more at most.
LEMMA MadeIsDocument ==
    ASSUME StudioTyped, doc.exists, requests' = requests + 1,
           NEW new \in Edited(doc) \cup Decided(doc) \cup Restored(doc) \cup Moved(doc)
    PROVE  new \in Document'
<1>1. requests \in Nat /\ doc \in Document
  BY DocumentStudioAssumption DEF StudioTyped, NoDocument
<1>2. doc = [exists |-> TRUE, text |-> doc.text, version |-> doc.version, folder |-> doc.folder,
             change |-> doc.change]
      /\ doc.text = [body |-> doc.text.body, inserted |-> doc.text.inserted]
      /\ doc.text.body \in Bodies /\ doc.text.inserted \in Nat
  BY <1>1 DEF Document, Text
<1>3. doc.version \in 1 .. requests + 1 /\ doc.version + 1 \in 1 .. (requests + 1) + 1
      /\ doc.version \in 1 .. (requests + 1) + 1
  BY <1>1 DEF Document, Numbers
<1>4. doc.version \in Numbers' /\ doc.version + 1 \in Numbers'
  BY <1>3 DEF Numbers
<1>5. ASSUME NEW t \in Text PROVE Rewritten(doc, t) \in Document'
  BY <1>1, <1>2, <1>4 DEF Rewritten, Document
<1>6. CASE new \in Edited(doc)
  <2>1. PICK b \in Bodies : new = Rewritten(doc, [doc.text EXCEPT !.body = b])
    BY <1>6 DEF Edited
  <2>2. [doc.text EXCEPT !.body = b] \in Text
    BY <1>2 DEF Text
  <2> QED BY <1>5, <2>1, <2>2
<1>7. CASE new \in Decided(doc)
  <2>1. [doc.text EXCEPT !.inserted = @ + 1] \in Text /\ doc.text \in Text
    BY <1>2 DEF Text
  <2>2. ASSUME NEW d \in Document', NEW c \in {"none", "pending", "accepted", "rejected"}
        PROVE  [d EXCEPT !.change = c] \in Document'
    BY DEF Document
  <2> QED BY <1>5, <1>7, <2>1, <2>2 DEF Decided
<1>8. CASE new \in Restored(doc)
  BY <1>5, <1>8 DEF Restored, StudioTyped, Saved
<1>9. CASE new \in Moved(doc)
  <2>1. PICK f \in {doc.folder, Root} \cup {g \in Folders : InUse(g)} :
           new = [doc EXCEPT !.folder = f]
    BY <1>9 DEF Moved
  <2>2. f \in Folders \cup {Root}
    BY <1>1, <2>1 DEF Document
  <2> QED BY <1>1, <1>2, <1>4, <2>1, <2>2 DEF Document
<1> QED BY <1>6, <1>7, <1>8, <1>9

LEMMA RequestsAreTyped ==
    ASSUME StudioTyped, NEW h \in Handlers, StudioRequest(h)
    PROVE  StudioTyped'
<1> DEFINE Rewrites(d) == Edited(d) \cup Decided(d) \cup Restored(d)
<1>1. CASE AskReplace(h)
  <2>1. PICK new \in Rewrites(doc) : Begin(h, [op |-> "replace", new |-> new, saves |-> TRUE])
    BY <1>1 DEF AskReplace
  <2>2. new \in Document'
    BY <1>1, <2>1, MadeIsDocument DEF AskReplace, Begin
  <2>3. [op |-> "replace", new |-> new, saves |-> TRUE] \in Errands'
    BY <2>2 DEF Errands
  <2> QED BY <2>1, <2>3, RequestIsTyped
<1>2. CASE AskMove(h)
  <2>1. PICK new \in Moved(doc), saves \in BOOLEAN :
           Begin(h, [op |-> "replace", new |-> new, saves |-> saves])
    BY <1>2 DEF AskMove
  <2>2. new \in Document'
    BY <1>2, <2>1, MadeIsDocument DEF AskMove, Begin
  <2>3. [op |-> "replace", new |-> new, saves |-> saves] \in Errands'
    BY <2>2 DEF Errands
  <2> QED BY <2>1, <2>3, RequestIsTyped
<1>3. CASE AskTrack(h) \/ AskDelete(h)
  <2>1. PICK r \in [op : {"track"}] \cup [op : {"delete"}, batch : BOOLEAN] : Begin(h, r)
    BY <1>3 DEF AskTrack, AskDelete
  <2>2. r \in Errands'
    BY DEF Errands
  <2> QED BY <2>1, <2>2, RequestIsTyped
<1> requests \in Nat
  BY DocumentStudioAssumption DEF StudioTyped
<1>4. CASE AskDuplicate(h)
  <2> DEFINE S == {w.number : w \in versions}
             new(v) == [v EXCEPT !.number = Max(S) + 1]
  <2>1. PICK v \in versions : Begin(h, [op |-> "save", version |-> new(v)])
    BY <1>4 DEF AskDuplicate
  <2>2. S \in SUBSET (0 .. requests + 1) /\ S # {} /\ S \subseteq 1 .. requests + 1
    BY <2>1 DEF StudioTyped, Saved, Numbers
  <2>3. Max(S) \in 1 .. requests + 1
    <3> HIDE DEF S
    <3>1. requests + 1 \in Nat
      BY DEF StudioTyped
    <3>2. Max(S) \in S
      BY <2>2, <3>1, HasMaximum
    <3> QED BY <2>2, <3>2
  <2>4. Max(S) + 1 \in Numbers'
    <3> HIDE DEF S
    <3>1. requests' = requests + 1
      BY <2>1 DEF Begin
    <3>2. Max(S) + 1 \in 1 .. (requests + 1) + 1
      BY <2>3
    <3> QED BY <3>1, <3>2 DEF Numbers
  <2>5. new(v) \in Saved'
    <3> HIDE DEF S
    <3> QED BY <2>1, <2>4 DEF StudioTyped, Saved
  <2>6. [op |-> "save", version |-> new(v)] \in Errands'
    <3> HIDE DEF new
    <3> QED BY <2>5 DEF Errands
  <2> QED BY <2>1, <2>6, RequestIsTyped
<1>5. CASE AskPurge(h) \/ AskSweep(h)
  <2>1. PICK gone \in SUBSET versions, kept \in SUBSET versions :
           Begin(h, [op |-> "purge", gone |-> gone, kept |-> kept])
    BY <1>5 DEF AskPurge, AskSweep
  <2>2. Saved \subseteq Saved'
    BY <2>1, MoreNumbers DEF Begin
  <2>3. [op |-> "purge", gone |-> gone, kept |-> kept] \in Errands'
    BY <2>2 DEF Errands, StudioTyped
  <2> QED BY <2>1, <2>3, RequestIsTyped
<1>6. CASE AskClear(h)
  <2>1. Begin(h, [op |-> "clear", kept |-> doc]) /\ doc \in Document
    BY <1>6 DEF AskClear, StudioTyped, NoDocument
  <2>2. [op |-> "clear", kept |-> doc] \in Errands'
    BY <2>1, MoreNumbers DEF Begin, Errands
  <2> QED BY <2>1, <2>2, RequestIsTyped
<1>7. CASE AskNewFolder(h) \/ AskMoveFolder(h) \/ AskRename(h)
  <2>1. PICK f \in Folders, p \in Folders \cup {Root}, new \in BOOLEAN :
           Begin(h, [op |-> "folder", of |-> f, to |-> p, new |-> new])
    <3>1. \A f \in Folders : InUse(f) => parent[f] \in Folders \cup {Root}
      BY DEF StudioTyped, Parents, InUse
    <3> QED BY <1>7, <3>1 DEF AskNewFolder, AskMoveFolder, AskRename
  <2>2. [op |-> "folder", of |-> f, to |-> p, new |-> new] \in Errands'
    BY DEF Errands
  <2> QED BY <2>1, <2>2, RequestIsTyped
<1>8. CASE AskDeleteFolder(h)
  <2>1. PICK f \in Folders : Begin(h, [op |-> "remove", of |-> f, kept |-> parent])
    BY <1>8 DEF AskDeleteFolder
  <2>2. [op |-> "remove", of |-> f, kept |-> parent] \in Errands'
    BY DEF Errands, StudioTyped, Parents
  <2> QED BY <2>1, <2>2, RequestIsTyped
<1> QED BY <1>1, <1>2, <1>3, <1>4, <1>5, <1>6, <1>7, <1>8 DEF StudioRequest

\* What follows a put is a save of the document's version, or nothing.
LEMMA ThenIsAsked ==
    ASSUME NEW d \in Document, NEW saves \in BOOLEAN
    PROVE  Then(saves, d) \in Errands
BY DocumentFields DEF Then, Errands

LEMMA StepsAreTyped ==
    ASSUME StudioTyped, NEW h \in Handlers, StudioStep(h)
    PROVE  StudioTyped'
<1> DEFINE r == handler[h]
<1>1. r \in Errands /\ parent \in Parents /\ versions \subseteq Saved /\ torn \in BOOLEAN
      /\ doc \in {NoDocument} \cup Document /\ NoRequest \in Errands
  BY DEF StudioTyped, Errands
<1> HIDE DEF r
<1>2. CASE Find(h)
  <2> USE <1>2 DEF r, Find
  <2>1. CASE r.op = "track" /\ doc.exists
    <3>1. doc \in Document
      BY <1>1, <2>1 DEF NoDocument
    <3> HIDE DEF Find
    <3>2. [doc EXCEPT !.change = "pending"] \in Document
      BY <3>1 DEF Document
    <3>3. [op |-> "put", new |-> [doc EXCEPT !.change = "pending"], saves |-> FALSE] \in Errands
      BY <3>2 DEF Errands
    <3> QED BY <1>1, <2>1, <3>3, GoneIsTyped DEF Find
  <2>2. CASE r.op = "replace" /\ doc.exists
    <3>1. r = [op |-> r.op, new |-> r.new, saves |-> r.saves] /\ r.new \in Document
          /\ r.saves \in BOOLEAN
      BY <1>1, <2>2, AskedCarries
    <3>2. [r EXCEPT !.op = "put"] \in Errands
      BY <3>1 DEF Errands
    <3> QED BY <1>1, <2>2, <3>2, GoneIsTyped
  <2>3. CASE ~doc.exists
    <3>1. Goes(h, NoRequest)
          \/ (r.new \in Document /\ r.saves \in BOOLEAN /\ Goes(h, Then(r.saves, r.new)))
      BY <1>1, <2>3, AskedCarries
    <3> QED BY <1>1, <3>1, ThenIsAsked, GoneIsTyped
  <2> QED BY <2>1, <2>2, <2>3
<1>3. CASE PutDocument(h)
  <2>1. r.op = "put" /\ r.new \in Document /\ r.saves \in BOOLEAN
    BY <1>1, <1>3, AskedCarries DEF PutDocument, r
  <2> QED BY <1>1, <1>3, <2>1, ThenIsAsked, GoneIsTyped DEF PutDocument, r
<1>4. CASE SaveVersion(h)
  <2>1. r.version \in Saved
    BY <1>1, <1>4, AskedCarries DEF SaveVersion, r
  <2> QED BY <1>1, <1>4, <2>1, GoneIsTyped DEF SaveVersion, r
<1>5. CASE Purge(h)
  <2>1. r.kept \subseteq Saved
    BY <1>1, <1>5, AskedCarries DEF Purge, r
  <2>2. [op |-> "refill", kept |-> r.kept] \in Errands
    BY <2>1 DEF Errands
  <2> QED BY <1>1, <1>5, <2>2, GoneIsTyped DEF Purge, r
<1>6. CASE FillAgain(h)
  <2>1. r.kept \subseteq Saved
    BY <1>1, <1>6, AskedCarries DEF FillAgain, r
  <2> QED BY <1>1, <1>6, <2>1, GoneIsTyped DEF FillAgain, r
<1>7. CASE Clear(h)
  <2>1. r = [op |-> r.op, kept |-> r.kept] /\ r.kept \in Document
    BY <1>1, <1>7, AskedCarries DEF Clear, r
  <2>2. [r EXCEPT !.op = "return"] \in Errands
    BY <2>1 DEF Errands
  <2> QED BY <1>1, <1>7, <2>2, GoneIsTyped DEF Clear, r
<1>8. CASE Return(h)
  <2>1. r.kept \in Document
    BY <1>1, <1>8, AskedCarries DEF Return, r
  <2> QED BY <1>1, <1>8, <2>1, GoneIsTyped DEF Return, r
<1>9. CASE Delete(h)
  <2>1. [op |-> "forget"] \in Errands
    BY DEF Errands
  <2> QED BY <1>1, <1>9, <2>1, GoneIsTyped DEF Delete
<1>10. CASE Forget(h)
  BY <1>1, <1>10, GoneIsTyped DEF Forget
<1>11. CASE PutFolder(h)
  <2>1. r.of \in Folders /\ r.to \in Folders \cup {Root}
    BY <1>1, <1>11, AskedCarries DEF PutFolder, r
  <2>2. parent' \in Parents
    BY <1>1, <1>11, <2>1 DEF PutFolder, r, Parents
  <2> QED BY <1>1, <1>11, <2>2, GoneIsTyped DEF PutFolder
<1>12. CASE RemoveFolder(h)
  <2>1. r = [op |-> r.op, of |-> r.of, kept |-> r.kept] /\ r.of \in Folders /\ r.kept \in Parents
    BY <1>1, <1>12, AskedCarries DEF RemoveFolder, r
  <2>2. [r EXCEPT !.op = "others"] \in Errands
    BY <2>1 DEF Errands
  <2>3. parent' \in Parents
    BY <1>1, <1>12 DEF RemoveFolder, Parents
  <2> QED BY <1>1, <1>12, <2>2, <2>3, GoneIsTyped DEF RemoveFolder, r
<1>13. CASE PutOthers(h)
  <2>1. r.of \in Folders /\ r.kept \in Parents
    BY <1>1, <1>13, AskedCarries DEF PutOthers, r
  <2>2. [op |-> "adopt", of |-> r.of] \in Errands
    BY <2>1 DEF Errands
  <2>3. parent' \in Parents
    BY <1>1, <1>13, <2>1 DEF PutOthers, r, Parents
  <2> QED BY <1>1, <1>13, <2>2, <2>3, GoneIsTyped DEF PutOthers, r
<1>14. CASE Adopt(h)
  <2>1. r = [op |-> r.op, of |-> r.of] /\ r.of \in Folders
    BY <1>1, <1>14, AskedCarries DEF Adopt, r
  <2>2. [r EXCEPT !.op = "unfile"] \in Errands
    BY <2>1 DEF Errands
  <2>3. parent' \in Parents
    BY <1>1, <1>14 DEF Adopt, Parents
  <2> QED BY <1>1, <1>14, <2>2, <2>3, GoneIsTyped DEF Adopt, r
<1>15. CASE Unfile(h)
  <2>1. doc' \in {NoDocument} \cup Document
    BY <1>1, <1>15 DEF Unfile, Document, NoDocument
  <2> QED BY <1>1, <1>15, <2>1, GoneIsTyped DEF Unfile
<1> QED BY <1>2, <1>3, <1>4, <1>5, <1>6, <1>7, <1>8, <1>9, <1>10, <1>11, <1>12, <1>13, <1>14, <1>15
        DEF StudioStep

LEMMA TypesAreKept ==
    ASSUME StudioTyped, [StudioNext]_studioVars
    PROVE  StudioTyped'
<1>1. CASE StudioRestart
  <2>1. handler' \in [Handlers -> Errands]
    BY <1>1 DEF StudioRestart, Errands
  <2>2. requests' = requests /\ requests \in Nat
    BY <1>1, DocumentStudioAssumption DEF StudioRestart, StudioTyped
  <2>3. Document \subseteq Document' /\ Saved \subseteq Saved' /\ Errands \subseteq Errands'
    BY <2>2, MoreNumbers
  <2> QED BY <1>1, <2>1, <2>3 DEF StudioRestart, StudioTyped, Parents
<1>2. CASE UNCHANGED studioVars
  BY <1>2 DEF studioVars, StudioTyped, Errands, Saved, Document, Parents, Numbers
<1> QED BY <1>1, <1>2, RequestsAreTyped, StepsAreTyped DEF StudioNext

LEMMA StudioStartsTyped ==
    ASSUME StudioInit
    PROVE  StudioTyped
<1>1. PICK b \in Bodies :
         doc = [exists |-> TRUE, text |-> [body |-> b, inserted |-> 0], version |-> 1,
                folder |-> Root, change |-> "none"]
  BY DEF StudioInit
<1>2. requests = 0 /\ requests \in 0 .. MaxRequests /\ 1 \in Numbers
  BY DocumentStudioAssumption DEF StudioInit, Numbers
<1>3. [body |-> b, inserted |-> 0] \in Text
  BY DEF Text
<1>4. doc \in Document
  BY <1>1, <1>2, <1>3 DEF Document
<1>5. versions \subseteq Saved
  BY <1>4, DocumentFields DEF StudioInit
<1>6. handler \in [Handlers -> Errands] /\ parent \in Parents /\ overlap \in BOOLEAN /\ torn \in BOOLEAN
  BY DEF StudioInit, Errands, Parents
<1> QED BY <1>2, <1>4, <1>5, <1>6 DEF StudioTyped

(* ------------------- every text that was shown is kept ------------------ *)

Op(h) == handler[h].op

\* What a handler will put back, without saving a version of it, has been shown.
Carried ==
    /\ doc.exists => doc.text \in shown
    /\ \A h \in Handlers :
          /\ Op(h) \in {"replace", "put"} /\ ~handler[h].saves => handler[h].new.text \in shown
          /\ Op(h) \in {"clear", "return"} => handler[h].kept.text \in shown

\* A text is among the versions or was deleted by the user, or a handler is about to
\* put it back among them.
Restorable(t) ==
    \/ \E v \in versions : v.text = t
    \/ t \in purged
    \/ \E h \in Handlers : Op(h) = "save" /\ handler[h].version.text = t
    \/ \E h \in Handlers : Op(h) = "refill" /\ \E v \in handler[h].kept : v.text = t

\* Of the handlers that sweep the table there is one, and it has read all that is in it.
SweepsAlone ==
    /\ \A h \in Handlers : Op(h) = "purge" => versions \subseteq handler[h].gone \cup handler[h].kept
    /\ \A g, h \in Handlers : Op(g) \in Sweeping /\ Op(h) \in Sweeping => g = h

TextsKept == Carried /\ (~torn => SweepsAlone /\ \A t \in shown : Restorable(t))

LEMMA RequestsKeepTexts ==
    ASSUME StudioTyped, TextsKept, NEW h \in Handlers, NEW r, Begin(h, r),
           r.op \notin {"put", "return", "refill"},
           r.op = "replace" /\ ~r.saves => r.new.text \in shown,
           r.op = "clear" => r.kept.text \in shown,
           r.op = "purge" => versions \subseteq r.gone \cup r.kept
    PROVE  TextsKept'
<1>1. /\ handler[h].op = "none"
      /\ handler'[h] = r /\ \A g \in Handlers \ {h} : handler'[g] = handler[g]
      /\ torn' = (torn \/ (r.op \in Sweeping /\ SweptByOther(h)))
      /\ UNCHANGED <<doc, versions, parent, shown, purged>>
  BY DEF Begin, StudioTyped, NoRequest
<1>2. Carried'
  BY <1>1 DEF TextsKept, Carried, Op
<1>3. ~torn' => SweepsAlone'
  BY <1>1 DEF TextsKept, SweepsAlone, Op, Sweeping, SweptByOther
<1>4. ASSUME ~torn', NEW t \in shown PROVE Restorable(t)'
  <2>1. Restorable(t)
    BY <1>1, <1>4 DEF TextsKept
  <2> QED BY <1>1, <2>1 DEF Restorable, Op
<1> QED BY <1>1, <1>2, <1>3, <1>4 DEF TextsKept

LEMMA AsksKeepTexts ==
    ASSUME StudioTyped, TextsKept, NEW h \in Handlers, StudioRequest(h)
    PROVE  TextsKept'
<1>1. CASE AskReplace(h)
  <2>1. PICK new : Begin(h, [op |-> "replace", new |-> new, saves |-> TRUE])
    BY <1>1 DEF AskReplace
  <2> QED BY <2>1, RequestsKeepTexts
<1>2. CASE AskMove(h)
  <2>1. PICK new \in Moved(doc), saves \in BOOLEAN :
           Begin(h, [op |-> "replace", new |-> new, saves |-> saves])
    BY <1>2 DEF AskMove
  <2>2. doc \in Document
    BY <1>2 DEF AskMove, StudioTyped, NoDocument
  <2>3. new.text = doc.text
    BY <2>1, <2>2 DEF Moved, Document
  <2>4. new.text \in shown
    BY <1>2, <2>3 DEF AskMove, TextsKept, Carried
  <2> QED BY <2>1, <2>4, RequestsKeepTexts
<1>3. CASE AskTrack(h) \/ AskDelete(h) \/ AskDuplicate(h)
  <2>1. AskTrack(h) => TextsKept'
    BY RequestsKeepTexts DEF AskTrack
  <2>2. ASSUME NEW batch, Begin(h, [op |-> "delete", batch |-> batch]) PROVE TextsKept'
    BY <2>2, RequestsKeepTexts
  <2>3. ASSUME NEW v, Begin(h, [op |-> "save", version |-> v]) PROVE TextsKept'
    BY <2>3, RequestsKeepTexts
  <2> QED BY <1>3, <2>1, <2>2, <2>3 DEF AskDelete, AskDuplicate
<1>4. CASE AskPurge(h) \/ AskSweep(h)
  <2>1. PICK gone, kept :
           Begin(h, [op |-> "purge", gone |-> gone, kept |-> kept]) /\ versions \subseteq gone \cup kept
    BY <1>4 DEF AskPurge, AskSweep
  <2> QED BY <2>1, RequestsKeepTexts
<1>5. CASE AskClear(h)
  BY <1>5, RequestsKeepTexts DEF AskClear, TextsKept, Carried
<1>6. CASE AskNewFolder(h) \/ AskMoveFolder(h) \/ AskRename(h) \/ AskDeleteFolder(h)
  <2>1. ASSUME NEW f, NEW p, NEW new, Begin(h, [op |-> "folder", of |-> f, to |-> p, new |-> new])
        PROVE  TextsKept'
    BY <2>1, RequestsKeepTexts
  <2>2. ASSUME NEW f, Begin(h, [op |-> "remove", of |-> f, kept |-> parent]) PROVE TextsKept'
    BY <2>2, RequestsKeepTexts
  <2> QED BY <1>6, <2>1, <2>2 DEF AskNewFolder, AskMoveFolder, AskRename, AskDeleteFolder
<1> QED BY <1>1, <1>2, <1>3, <1>4, <1>5, <1>6 DEF StudioRequest

\* A handler at work on folders, or that leaves texts and versions as they are.
LEMMA OthersKeepTexts ==
    ASSUME StudioTyped, TextsKept, NEW h \in Handlers, NEW r, Goes(h, r),
           UNCHANGED <<versions, shown, purged, torn>>,
           doc'.exists => doc'.text \in shown,
           Op(h) \notin {"save", "refill"},
           r.op \notin {"clear", "return", "purge", "refill"},
           r.op \in {"replace", "put"} /\ ~r.saves => r.new.text \in shown
    PROVE  TextsKept'
<1>1. handler'[h] = r /\ \A g \in Handlers \ {h} : handler'[g] = handler[g]
  BY DEF Goes, StudioTyped
<1>2. Carried'
  BY <1>1 DEF TextsKept, Carried, Op
<1>3. ~torn' => SweepsAlone'
  BY <1>1 DEF TextsKept, SweepsAlone, Op, Sweeping
<1>4. ASSUME ~torn', NEW t \in shown PROVE Restorable(t)'
  <2>1. Restorable(t)
    BY <1>4 DEF TextsKept
  <2> QED BY <1>1, <2>1 DEF Restorable, Op
<1> QED BY <1>2, <1>3, <1>4 DEF TextsKept

\* What follows a step on folders.
LEMMA FoldersGoOn ==
    ASSUME StudioTyped, NEW h \in Handlers,
           PutFolder(h) \/ RemoveFolder(h) \/ PutOthers(h) \/ Adopt(h) \/ Unfile(h)
    PROVE  \E q : Goes(h, q) /\ q.op \in {"others", "adopt", "unfile", "none"}
<1> DEFINE r == handler[h]
<1>1. r.op \in {"remove", "adopt"} => [r EXCEPT !.op = "others"].op = "others"
                                      /\ [r EXCEPT !.op = "unfile"].op = "unfile"
  <2>1. r.op \in {"remove", "adopt"} =>
           r = [op |-> r.op, of |-> r.of, kept |-> r.kept] \/ r = [op |-> r.op, of |-> r.of]
    BY AskedCarries DEF StudioTyped
  <2> QED BY <2>1
<1>2. CASE RemoveFolder(h) \/ Adopt(h)
  BY <1>1, <1>2 DEF RemoveFolder, Adopt
<1>3. CASE PutFolder(h) \/ PutOthers(h) \/ Unfile(h)
  BY <1>3 DEF PutFolder, PutOthers, Unfile, NoRequest
<1> QED BY <1>2, <1>3

LEMMA StepsKeepTexts ==
    ASSUME StudioTyped, TextsKept, NEW h \in Handlers, StudioStep(h)
    PROVE  TextsKept'
<1> DEFINE r == handler[h]
<1>1. r \in Errands /\ (doc \in Document \/ ~doc.exists)
      /\ \A q : Goes(h, q) =>
            handler'[h] = q /\ \A g \in Handlers \ {h} : handler'[g] = handler[g]
  BY DEF StudioTyped, NoDocument, Goes
<1>2. Carried /\ (~torn => SweepsAlone)
  BY DEF TextsKept
<1>3. CASE Find(h)
  <2>1. CASE doc.exists /\ r.op = "track"
    <3>1. [doc EXCEPT !.change = "pending"].text \in shown
      BY <1>1, <1>2, <2>1 DEF Carried, Document
    <3> QED BY <1>2, <1>3, <2>1, <3>1, OthersKeepTexts DEF Find, Op, Carried
  <2>2. CASE doc.exists /\ r.op = "replace"
    <3>1. r = [op |-> "replace", new |-> r.new, saves |-> r.saves]
      BY <1>1, <2>2, AskedCarries
    <3>2. [r EXCEPT !.op = "put"] = [op |-> "put", new |-> r.new, saves |-> r.saves]
      BY <3>1
    <3>3. Goes(h, [op |-> "put", new |-> r.new, saves |-> r.saves])
      BY <1>3, <2>2, <3>2 DEF Find
    <3> QED BY <1>2, <1>3, <2>2, <3>3, OthersKeepTexts DEF Find, Op, Carried
  <2>3. CASE ~doc.exists
    <3>1. PICK q : Goes(h, q) /\ q.op \in {"none", "save"}
      BY <1>3, <2>3 DEF Find, Then, NoRequest
    <3> QED BY <1>3, <2>3, <3>1, OthersKeepTexts DEF Find, Op
  <2> QED BY <1>3, <2>1, <2>2, <2>3 DEF Find
<1>4. CASE PutDocument(h)
  <2>1. r.new \in Document /\ r.saves \in BOOLEAN
    BY <1>1, <1>4, AskedCarries DEF PutDocument
  <2>2. /\ doc' = r.new /\ shown' = shown \cup {r.new.text}
        /\ handler'[h] = Then(r.saves, r.new) /\ \A g \in Handlers \ {h} : handler'[g] = handler[g]
        /\ UNCHANGED <<versions, torn, purged>> /\ r.op = "put"
    BY <1>1, <1>4 DEF PutDocument
  <2>3. Carried'
    BY <1>2, <2>1, <2>2 DEF Carried, Op, Then, NoRequest
  <2>4. ~torn' => SweepsAlone'
    BY <1>2, <2>2 DEF SweepsAlone, Op, Sweeping, Then, NoRequest
  <2>5. ASSUME ~torn', NEW t \in shown' PROVE Restorable(t)'
    <3>1. CASE t \in shown
      <4>1. Restorable(t)
        BY <2>2, <2>5, <3>1 DEF TextsKept
      <4> QED BY <2>2, <4>1 DEF Restorable, Op
    <3>2. CASE t = r.new.text /\ r.saves
      BY <2>2, <3>2 DEF Restorable, Op, Then, Version
    <3>3. r.saves \/ r.new.text \in shown
      BY <1>2, <2>2 DEF Carried, Op
    <3> QED BY <2>2, <3>1, <3>2, <3>3
  <2> QED BY <2>3, <2>4, <2>5 DEF TextsKept
<1>5. CASE SaveVersion(h)
  <2>1. /\ versions' = versions \cup {r.version} /\ torn' = (torn \/ SweptByOther(h))
        /\ handler'[h] = NoRequest /\ \A g \in Handlers \ {h} : handler'[g] = handler[g]
        /\ UNCHANGED <<doc, shown, purged>> /\ r.op = "save"
    BY <1>1, <1>5 DEF SaveVersion
  <2>2. Carried'
    BY <1>2, <2>1 DEF Carried, Op, NoRequest
  <2>3. ~torn' => SweepsAlone'
    <3>1. ~torn' => ~SweptByOther(h)
      BY <2>1
    <3>2. ASSUME ~torn', NEW g \in Handlers PROVE handler'[g].op \notin Sweeping
      <4>1. CASE g = h
        BY <2>1, <4>1 DEF Sweeping, NoRequest
      <4>2. CASE g # h
        BY <2>1, <3>1, <3>2, <4>2 DEF SweptByOther
      <4> QED BY <4>1, <4>2
    <3> QED BY <3>2 DEF SweepsAlone, Op, Sweeping
  <2>4. ASSUME ~torn', NEW t \in shown PROVE Restorable(t)'
    <3>1. Restorable(t)
      BY <2>1, <2>4 DEF TextsKept
    <3> QED BY <2>1, <3>1 DEF Restorable, Op
  <2> QED BY <2>1, <2>2, <2>3, <2>4 DEF TextsKept
<1>6. CASE Purge(h)
  <2>1. /\ versions' = {} /\ purged' = purged \cup {v.text : v \in r.gone}
        /\ handler'[h] = [op |-> "refill", kept |-> r.kept]
        /\ \A g \in Handlers \ {h} : handler'[g] = handler[g]
        /\ UNCHANGED <<doc, shown, torn>> /\ r.op = "purge"
    BY <1>1, <1>6 DEF Purge
  <2>2. Carried'
    BY <1>2, <2>1 DEF Carried, Op
  <2>3. ~torn' => SweepsAlone'
    BY <1>2, <2>1 DEF SweepsAlone, Op, Sweeping
  <2>4. ASSUME ~torn', NEW t \in shown PROVE Restorable(t)'
    <3>1. Restorable(t) /\ SweepsAlone
      BY <2>1, <2>4 DEF TextsKept
    <3>2. CASE \E v \in versions : v.text = t
      <4>1. PICK v \in r.gone \cup r.kept : v.text = t
        BY <2>1, <3>1, <3>2 DEF SweepsAlone, Op
      <4> QED BY <2>1, <4>1 DEF Restorable, Op
    <3>3. CASE \E g \in Handlers : Op(g) = "refill"
      BY <2>1, <3>1, <3>3 DEF SweepsAlone, Op, Sweeping
    <3> QED BY <2>1, <3>1, <3>2, <3>3 DEF Restorable, Op
  <2> QED BY <2>1, <2>2, <2>3, <2>4 DEF TextsKept
<1>7. CASE FillAgain(h)
  <2>1. /\ versions' = versions \cup r.kept
        /\ handler'[h] = NoRequest /\ \A g \in Handlers \ {h} : handler'[g] = handler[g]
        /\ UNCHANGED <<doc, shown, torn, purged>> /\ r.op = "refill"
    BY <1>1, <1>7 DEF FillAgain
  <2>2. Carried'
    BY <1>2, <2>1 DEF Carried, Op, NoRequest
  <2>3. ~torn' => SweepsAlone'
    BY <1>2, <2>1 DEF SweepsAlone, Op, Sweeping, NoRequest
  <2>4. ASSUME ~torn', NEW t \in shown PROVE Restorable(t)'
    <3>1. Restorable(t)
      BY <2>1, <2>4 DEF TextsKept
    <3> QED BY <2>1, <3>1 DEF Restorable, Op
  <2> QED BY <2>1, <2>2, <2>3, <2>4 DEF TextsKept
<1>8. CASE Clear(h)
  <2>1. r = [op |-> "clear", kept |-> r.kept]
    BY <1>1, <1>8, AskedCarries DEF Clear
  <2>2. [r EXCEPT !.op = "return"] = [op |-> "return", kept |-> r.kept]
    BY <2>1
  <2>3. /\ doc' = NoDocument /\ handler'[h] = [op |-> "return", kept |-> r.kept]
        /\ \A g \in Handlers \ {h} : handler'[g] = handler[g]
        /\ UNCHANGED <<versions, shown, torn, purged>> /\ r.op = "clear"
    BY <1>1, <1>8, <2>2 DEF Clear
  <2>4. Carried'
    BY <1>2, <2>3 DEF Carried, Op, NoDocument
  <2>5. ~torn' => SweepsAlone'
    BY <1>2, <2>3 DEF SweepsAlone, Op, Sweeping
  <2>6. ASSUME ~torn', NEW t \in shown PROVE Restorable(t)'
    <3>1. Restorable(t)
      BY <2>3, <2>6 DEF TextsKept
    <3> QED BY <2>3, <3>1 DEF Restorable, Op
  <2> QED BY <2>3, <2>4, <2>5, <2>6 DEF TextsKept
<1>9. CASE Return(h)
  BY <1>2, <1>9, OthersKeepTexts DEF Return, Op, Carried, NoRequest
<1>10. CASE Delete(h)
  <2>1. PICK q : Goes(h, q) /\ q.op \in {"none", "forget"}
    BY <1>10 DEF Delete, NoRequest
  <2>2. /\ purged \subseteq purged' /\ ~doc'.exists
        /\ handler'[h] = q /\ \A g \in Handlers \ {h} : handler'[g] = handler[g]
        /\ UNCHANGED <<versions, shown, torn>> /\ r.op = "delete"
    BY <1>1, <1>10, <2>1 DEF Delete, NoDocument
  <2>3. Carried'
    BY <1>2, <2>1, <2>2 DEF Carried, Op
  <2>4. ~torn' => SweepsAlone'
    BY <1>2, <2>1, <2>2 DEF SweepsAlone, Op, Sweeping
  <2>5. ASSUME ~torn', NEW t \in shown PROVE Restorable(t)'
    <3>1. Restorable(t)
      BY <2>2, <2>5 DEF TextsKept
    <3> QED BY <2>1, <2>2, <3>1 DEF Restorable, Op
  <2> QED BY <2>2, <2>3, <2>4, <2>5 DEF TextsKept
<1>11. CASE Forget(h)
  <2>1. /\ versions' = {} /\ purged' = purged \cup {v.text : v \in versions}
        /\ handler'[h] = NoRequest /\ \A g \in Handlers \ {h} : handler'[g] = handler[g]
        /\ UNCHANGED <<doc, shown, torn>> /\ r.op = "forget"
    BY <1>1, <1>11 DEF Forget
  <2>2. Carried'
    BY <1>2, <2>1 DEF Carried, Op, NoRequest
  <2>3. ~torn' => SweepsAlone'
    BY <1>2, <2>1 DEF SweepsAlone, Op, Sweeping, NoRequest
  <2>4. ASSUME ~torn', NEW t \in shown PROVE Restorable(t)'
    <3>1. Restorable(t)
      BY <2>1, <2>4 DEF TextsKept
    <3> QED BY <2>1, <3>1 DEF Restorable, Op
  <2> QED BY <2>1, <2>2, <2>3, <2>4 DEF TextsKept
<1>12. CASE PutFolder(h)
  BY <1>2, <1>12, OthersKeepTexts DEF PutFolder, Op, Carried, NoRequest
<1>13. CASE RemoveFolder(h) \/ PutOthers(h) \/ Adopt(h) \/ Unfile(h)
  <2>2. PICK q : Goes(h, q) /\ q.op \in {"others", "adopt", "unfile", "none"}
    BY <1>13, FoldersGoOn
  <2>3. doc'.exists => doc'.text \in shown
    BY <1>1, <1>2, <1>13 DEF RemoveFolder, PutOthers, Adopt, Unfile, Carried, Document
  <2>4. UNCHANGED <<versions, shown, purged, torn>> /\ Op(h) \in {"remove", "others", "adopt", "unfile"}
    BY <1>13 DEF RemoveFolder, PutOthers, Adopt, Unfile, Op
  <2> QED BY <2>2, <2>3, <2>4, OthersKeepTexts
<1> QED BY <1>3, <1>4, <1>5, <1>6, <1>7, <1>8, <1>9, <1>10, <1>11, <1>12, <1>13 DEF StudioStep

LEMMA TextsStayKept ==
    ASSUME StudioTyped, TextsKept, [StudioNext]_studioVars
    PROVE  TextsKept'
<1>1. CASE StudioRestart
  <2>1. /\ \A g \in Handlers : handler'[g].op = "none"
        /\ UNCHANGED <<doc, versions, shown, purged>>
        /\ ~torn' => ~torn /\ \A g \in Handlers : Op(g) \notin {"save", "refill"}
    BY <1>1 DEF StudioRestart, NoRequest, Op
  <2>2. Carried' /\ SweepsAlone'
    BY <2>1 DEF TextsKept, Carried, SweepsAlone, Op, Sweeping
  <2>3. ASSUME ~torn', NEW t \in shown PROVE Restorable(t)'
    <3>1. Restorable(t)
      BY <2>1, <2>3 DEF TextsKept
    <3> QED BY <2>1, <2>3, <3>1 DEF Restorable
  <2> QED BY <2>1, <2>2, <2>3 DEF TextsKept
<1>2. CASE UNCHANGED studioVars
  BY <1>2 DEF studioVars, TextsKept, Carried, SweepsAlone, Restorable, Op
<1> QED BY <1>1, <1>2, AsksKeepTexts, StepsKeepTexts DEF StudioNext

(* ------------------- one request after the other ------------------------ *)

\* Until a request was cut into there was never more than one under way.
Alone ==
    ~overlap => \A g, h \in Handlers : handler[g] # NoRequest /\ handler[h] # NoRequest => g = h

\* A handler begins or goes on.
Moves(h, r) == Begin(h, r) \/ (Goes(h, r) /\ Op(h) # "none")

LEMMA AloneMoves ==
    ASSUME StudioTyped, Alone, NEW h \in Handlers, NEW r, Moves(h, r)
    PROVE  /\ handler'[h] = r /\ Alone'
           /\ ~overlap' => /\ ~overlap
                           /\ \A g \in Handlers \ {h} : handler[g] = NoRequest /\ handler'[g] = NoRequest
                           /\ Begin(h, r) => handler[h] = NoRequest
<1>1. handler' = [handler EXCEPT ![h] = r] /\ handler'[h] = r
      /\ \A g \in Handlers \ {h} : handler'[g] = handler[g]
  BY DEF Moves, Begin, Goes, StudioTyped
<1>2. CASE Begin(h, r)
  <2>1. ~overlap' => ~overlap /\ Only(h) /\ handler[h] = NoRequest
    BY <1>2 DEF Begin
  <2>2. ~overlap' => \A g \in Handlers \ {h} : handler[g] = NoRequest
    BY <2>1 DEF Only
  <2> QED BY <1>1, <2>1, <2>2 DEF Alone
<1>3. CASE Goes(h, r) /\ Op(h) # "none"
  <2>1. overlap' = overlap /\ handler[h] # NoRequest /\ ~(Goes(h, r) /\ Begin(h, r))
    BY <1>3 DEF Goes, Op, NoRequest, Begin
  <2>2. ~overlap => \A g \in Handlers \ {h} : handler[g] = NoRequest
    BY <2>1 DEF Alone
  <2> QED BY <1>1, <1>3, <2>1, <2>2 DEF Alone
<1> QED BY <1>2, <1>3 DEF Moves

\* Every step of a handler is such a move.
LEMMA EveryStepMoves ==
    ASSUME StudioTyped, NEW h \in Handlers, StudioRequest(h) \/ StudioStep(h)
    PROVE  \E r : Moves(h, r)
<1>1. ASSUME StudioRequest(h) PROVE \E r : Begin(h, r)
  BY <1>1 DEF StudioRequest, AskReplace, AskMove, AskTrack, AskDuplicate, AskPurge, AskSweep, AskClear,
       AskDelete, AskNewFolder, AskMoveFolder, AskRename, AskDeleteFolder
<1>2. ASSUME StudioStep(h) PROVE \E r : Goes(h, r) /\ Op(h) # "none"
  <2>1. CASE Find(h) \/ PutDocument(h) \/ SaveVersion(h) \/ Purge(h) \/ FillAgain(h) \/ Clear(h) \/ Return(h)
    BY <2>1 DEF Find, PutDocument, SaveVersion, Purge, FillAgain, Clear, Return, Op
  <2>2. CASE Delete(h) \/ Forget(h) \/ PutFolder(h) \/ RemoveFolder(h) \/ PutOthers(h) \/ Adopt(h) \/ Unfile(h)
    BY <2>2 DEF Delete, Forget, PutFolder, RemoveFolder, PutOthers, Adopt, Unfile, Op
  <2> QED BY <1>2, <2>1, <2>2 DEF StudioStep
<1> QED BY <1>1, <1>2 DEF Moves

LEMMA StaysAlone ==
    ASSUME StudioTyped, Alone, [StudioNext]_studioVars
    PROVE  Alone'
<1>1. CASE StudioRestart
  BY <1>1 DEF StudioRestart, Alone
<1>2. CASE UNCHANGED studioVars
  BY <1>2 DEF studioVars, Alone
<1>3. CASE \E h \in Handlers : StudioRequest(h) \/ StudioStep(h)
  BY <1>3, EveryStepMoves, AloneMoves
<1> QED BY <1>1, <1>2, <1>3 DEF StudioNext

(* ------------------- an insertion is made once -------------------------- *)

\* Texts that a document still to be decided on may be given back, and one decided on.
IsBefore(d) == d.change \in {"none", "pending"}
FitsItself(d) == d.text.inserted <= 1 /\ (IsBefore(d) => d.text.inserted = 0)
Fits(d, v) == v.text.inserted <= 1 /\ (IsBefore(d) => v.text.inserted = 0)
AllFit(D, V) == \A d \in D : FitsItself(d) /\ \A v \in V : Fits(d, v)

\* The documents and versions that are there or will be put back by request r.
DocumentsOf(r) ==
    {d \in {doc} : d.exists}
    \cup (IF r.op \in {"replace", "put"} THEN {r.new} ELSE {})
    \cup (IF r.op \in {"clear", "return"} THEN {r.kept} ELSE {})
VersionsOf(r) ==
    versions \cup (IF r.op = "save" THEN {r.version} ELSE {})
    \cup (IF r.op \in Sweeping THEN r.kept ELSE {})
AtWork == {NoRequest} \cup {handler[h] : h \in Handlers}

Insertions ==
    ~overlap =>
        \A r \in AtWork : /\ AllFit(DocumentsOf(r), VersionsOf(r))
                          /\ r.op = "track" => doc.exists /\ doc.change = "none"

\* It is enough that all that is around after a move was seen to fit.
LEMMA MovesFit ==
    ASSUME StudioTyped, Alone, NEW h \in Handlers, NEW r, Moves(h, r), NEW D, NEW V,
           ~overlap' => AllFit(D, V),
           doc'.exists => doc' \in D, versions' \subseteq V,
           r.op \in {"replace", "put"} => r.new \in D,
           r.op \in {"clear", "return"} => r.kept \in D,
           r.op = "save" => r.version \in V,
           r.op \in Sweeping => r.kept \subseteq V,
           ~overlap' /\ r.op = "track" => doc'.exists /\ doc'.change = "none"
    PROVE  Insertions'
<1> SUFFICES ASSUME ~overlap', NEW q \in AtWork'
             PROVE  /\ AllFit(DocumentsOf(q)', VersionsOf(q)')
                    /\ q.op = "track" => doc'.exists /\ doc'.change = "none"
  BY DEF Insertions, DocumentsOf, VersionsOf, AllFit, Fits, FitsItself, IsBefore
<1>1. q = NoRequest \/ q = r
  BY AloneMoves DEF AtWork
<1>2. DocumentsOf(q)' \subseteq D /\ VersionsOf(q)' \subseteq V
  BY <1>1 DEF DocumentsOf, VersionsOf, NoRequest, Sweeping
<1> QED BY <1>1, <1>2 DEF AllFit, NoRequest

\* A request makes a document that fits what is there, or leaves the document as it is.
LEMMA RequestsFit ==
    ASSUME StudioTyped, Alone, Insertions, NEW h \in Handlers, NEW r, Begin(h, r), doc.exists,
           r.op \in {"replace", "put"} =>
              r.op = "replace" /\ (~overlap => FitsItself(r.new) /\ \A v \in versions : Fits(r.new, v)),
           r.op \in {"clear", "return"} => r.kept = doc,
           r.op = "save" => \E v \in versions : r.version.text = v.text,
           r.op \in Sweeping => r.kept \subseteq versions,
           r.op = "track" => doc.change = "none"
    PROVE  Insertions'
<1> DEFINE D == {doc} \cup (IF r.op = "replace" THEN {r.new} ELSE {})
           V == versions \cup (IF r.op = "save" THEN {r.version} ELSE {})
<1>1. UNCHANGED <<doc, versions>> /\ Moves(h, r)
  BY DEF Begin, Moves
<1>2. ~overlap' => AllFit(D, V)
  <2> SUFFICES ASSUME ~overlap' PROVE AllFit(D, V)
    OBVIOUS
  <2>1. ~overlap
    BY <1>1, AloneMoves
  <2>2. FitsItself(doc) /\ \A v \in versions : Fits(doc, v)
    BY <2>1 DEF Insertions, AtWork, DocumentsOf, VersionsOf, AllFit
  <2>3. r.op = "save" => Fits(doc, r.version)
    BY <2>2 DEF Fits
  <2> QED BY <2>1, <2>2, <2>3 DEF AllFit
<1> HIDE DEF D, V
<1> QED
  <2>1. doc \in D /\ versions \subseteq V /\ (r.op = "save" => r.version \in V)
        /\ (r.op = "replace" => r.new \in D)
    BY DEF D, V
  <2> QED BY <1>1, <1>2, <2>1, MovesFit

LEMMA AsksFit ==
    ASSUME StudioTyped, Alone, Insertions, NEW h \in Handlers, StudioRequest(h)
    PROVE  Insertions'
<1>1. ~overlap /\ doc.exists => FitsItself(doc) /\ \A v \in versions : Fits(doc, v)
  BY DEF Insertions, AtWork, DocumentsOf, VersionsOf, AllFit
<1>2. doc.exists => doc \in Document /\ doc.text \in Text /\ doc.text.inserted \in Nat
  <2>1. doc.exists => doc \in Document
    BY DEF StudioTyped, NoDocument
  <2>2. doc \in Document => doc.text \in Text
    BY DEF Document
  <2> QED BY <2>1, <2>2 DEF Text
<1>3. \A v \in versions : v.text \in Text /\ v.text.inserted \in Nat
  BY DEF StudioTyped, Saved, Text
<1>4. CASE AskReplace(h)
  <2>1. PICK new \in Edited(doc) \cup Decided(doc) \cup Restored(doc) :
           Begin(h, [op |-> "replace", new |-> new, saves |-> TRUE])
    BY <1>4 DEF AskReplace
  <2>2. ASSUME ~overlap, NEW t \in Text, t.inserted <= 1, IsBefore(doc) => t.inserted = 0
        PROVE  LET d == Rewritten(doc, t)
               IN d.change = doc.change /\ FitsItself(d) /\ \A v \in versions : Fits(d, v)
    <3>1. doc = [exists |-> doc.exists, text |-> doc.text, version |-> doc.version,
                 folder |-> doc.folder, change |-> doc.change]
      BY <1>2, <1>4 DEF AskReplace, Document
    <3>2. Rewritten(doc, t).change = doc.change /\ Rewritten(doc, t).text = t
      BY <3>1 DEF Rewritten
    <3> QED BY <1>1, <1>4, <2>2, <3>2 DEF AskReplace, FitsItself, Fits, IsBefore
  <2>3. ASSUME ~overlap PROVE FitsItself(new) /\ \A v \in versions : Fits(new, v)
    <3>0. doc.exists /\ FitsItself(doc) /\ \A v \in versions : Fits(doc, v)
      BY <1>1, <1>4, <2>3 DEF AskReplace
    <3>1. CASE new \in Edited(doc)
      <4>1. PICK b \in Bodies : new = Rewritten(doc, [doc.text EXCEPT !.body = b])
        BY <3>1 DEF Edited
      <4>2. [doc.text EXCEPT !.body = b] \in Text
            /\ [doc.text EXCEPT !.body = b].inserted = doc.text.inserted
        BY <1>2, <3>0 DEF Text
      <4> QED BY <2>2, <2>3, <3>0, <4>1, <4>2 DEF FitsItself
    <3>2. CASE new \in Restored(doc)
      <4>1. PICK v \in versions : new = Rewritten(doc, v.text)
        BY <3>2 DEF Restored
      <4> QED BY <1>3, <2>2, <2>3, <3>0, <4>1 DEF Fits
    <3>3. CASE new \in Decided(doc)
      <4>1. doc.change = "pending" /\ doc.text.inserted = 0 /\ IsBefore(doc)
        BY <3>0, <3>3 DEF Decided, FitsItself, IsBefore
      <4>2. doc = [exists |-> doc.exists, text |-> doc.text, version |-> doc.version,
                   folder |-> doc.folder, change |-> doc.change]
        BY <1>2, <3>0 DEF Document
      <4>3. new.text.inserted \in {0, 1} /\ new.change \in {"accepted", "rejected"}
        <5>1. [doc.text EXCEPT !.inserted = @ + 1].inserted = 1
          BY <1>2, <3>0, <4>1 DEF Text
        <5> DEFINE after(t, c) == [Rewritten(doc, t) EXCEPT !.change = c]
                   inserted == [doc.text EXCEPT !.inserted = @ + 1]
        <5>2. ASSUME NEW t, NEW c PROVE after(t, c).text = t /\ after(t, c).change = c
          BY <4>2 DEF Rewritten
        <5>3. new = after(inserted, "accepted") \/ new = after(doc.text, "rejected")
          BY <3>3, <4>1 DEF Decided
        <5> HIDE DEF after, inserted
        <5>4. inserted.inserted = 1
          BY <5>1 DEF inserted
        <5> QED BY <4>1, <5>2, <5>3, <5>4
      <4> QED BY <3>0, <4>1, <4>3 DEF FitsItself, Fits, IsBefore
    <3> QED BY <2>1, <3>1, <3>2, <3>3
  <2> QED BY <1>4, <2>1, <2>3, RequestsFit DEF AskReplace, Sweeping
<1>5. CASE AskMove(h)
  <2>1. PICK new \in Moved(doc), saves \in BOOLEAN :
           Begin(h, [op |-> "replace", new |-> new, saves |-> saves])
    BY <1>5 DEF AskMove
  <2>2. new.text = doc.text /\ new.change = doc.change
    BY <1>2, <1>5, <2>1 DEF AskMove, Moved, Document
  <2>3. ~overlap => FitsItself(new) /\ \A v \in versions : Fits(new, v)
    BY <1>1, <1>5, <2>2 DEF AskMove, FitsItself, Fits, IsBefore
  <2> QED BY <1>5, <2>1, <2>3, RequestsFit DEF AskMove, Sweeping
<1>6. CASE AskTrack(h)
  BY <1>6, RequestsFit DEF AskTrack, Sweeping
<1>7. CASE AskDelete(h)
  BY <1>7, RequestsFit DEF AskDelete, Sweeping
<1>8. CASE AskClear(h)
  BY <1>8, RequestsFit DEF AskClear, Sweeping
<1>9. CASE AskDuplicate(h)
  <2>1. PICK v \in versions :
           Begin(h, [op |-> "save", version |->
                        [v EXCEPT !.number = Max({w.number : w \in versions}) + 1]])
    BY <1>9 DEF AskDuplicate
  <2>2. ASSUME NEW n PROVE [v EXCEPT !.number = n].text = v.text
    BY <2>1 DEF StudioTyped, Saved
  <2>3. PICK n : Begin(h, [op |-> "save", version |-> [v EXCEPT !.number = n]])
    BY <2>1
  <2> QED BY <1>9, <2>2, <2>3, RequestsFit DEF AskDuplicate, Sweeping
<1>10. CASE AskPurge(h)
  BY <1>10, RequestsFit DEF AskPurge, Sweeping
\* The others are asked whether there is the document or not.
<1> DEFINE D == {d \in {doc} : d.exists}
<1>11. ~overlap => AllFit(D, versions)
  BY <1>1 DEF AllFit
<1>12. CASE AskSweep(h)
  <2>1. Begin(h, [op |-> "purge", gone |-> {}, kept |-> versions]) /\ UNCHANGED <<doc, versions>>
    BY <1>12 DEF AskSweep, Begin
  <2>2. Moves(h, [op |-> "purge", gone |-> {}, kept |-> versions])
    BY <2>1 DEF Moves
  <2>3. ~overlap' => AllFit(D, versions)
    BY <1>11, <2>2, AloneMoves
  <2> QED BY <2>1, <2>2, <2>3, MovesFit
<1>13. CASE AskNewFolder(h) \/ AskMoveFolder(h) \/ AskRename(h) \/ AskDeleteFolder(h)
  <2>1. ASSUME NEW r, r.op \in {"folder", "remove"}, Begin(h, r)
        PROVE  Insertions'
    <3>1. Moves(h, r) /\ UNCHANGED <<doc, versions>>
      BY <2>1 DEF Moves, Begin
    <3>2. ~overlap' => AllFit(D, versions)
      BY <1>11, <3>1, AloneMoves
    <3> QED BY <2>1, <3>1, <3>2, MovesFit DEF Sweeping
  <2>2. ASSUME NEW f, NEW p, NEW new, Begin(h, [op |-> "folder", of |-> f, to |-> p, new |-> new])
        PROVE  Insertions'
    BY <2>1, <2>2
  <2>3. ASSUME NEW f, Begin(h, [op |-> "remove", of |-> f, kept |-> parent]) PROVE Insertions'
    BY <2>1, <2>3
  <2> QED BY <1>13, <2>2, <2>3 DEF AskNewFolder, AskMoveFolder, AskRename, AskDeleteFolder
<1> QED BY <1>4, <1>5, <1>6, <1>7, <1>8, <1>9, <1>10, <1>12, <1>13 DEF StudioRequest

LEMMA StepsFit ==
    ASSUME StudioTyped, Alone, Insertions, NEW h \in Handlers, StudioStep(h)
    PROVE  Insertions'
<1> DEFINE r == handler[h]
           D == DocumentsOf(r)
           V == VersionsOf(r)
<1>1. ~overlap => AllFit(D, V) /\ (r.op = "track" => doc.exists /\ doc.change = "none")
  BY DEF Insertions, AtWork
<1>2. /\ doc.exists => doc \in D
      /\ versions \subseteq V
      /\ r.op \in {"replace", "put"} => r.new \in D
      /\ r.op \in {"clear", "return"} => r.kept \in D
      /\ r.op = "save" => r.version \in V
      /\ r.op \in Sweeping => r.kept \subseteq V
  BY DEF DocumentsOf, VersionsOf
<1>3. r \in Errands
  BY DEF StudioTyped
<1> HIDE DEF D, V
<1>4. ASSUME NEW q, Goes(h, q), r.op # "none" PROVE Moves(h, q) /\ (~overlap' => ~overlap)
  BY <1>4 DEF Moves, Goes, Op
<1>5. CASE Find(h)
  <2>1. UNCHANGED <<doc, versions>> /\ r.op \in {"replace", "track"}
    BY <1>5 DEF Find
  <2>2. CASE r.op = "track" /\ doc.exists
    <3> DEFINE new == [doc EXCEPT !.change = "pending"]
    <3>1. Goes(h, [op |-> "put", new |-> new, saves |-> FALSE])
      BY <1>5, <2>2 DEF Find
    <3>2. new.text = doc.text /\ new.change = "pending"
      BY <2>2 DEF StudioTyped, Document, NoDocument
    <3>3. ~overlap => AllFit(D \cup {new}, V)
      BY <1>1, <1>2, <2>2, <3>2 DEF AllFit, FitsItself, Fits, IsBefore
    <3> HIDE DEF new
    <3>4. Moves(h, [op |-> "put", new |-> new, saves |-> FALSE]) /\ (~overlap' => ~overlap)
      BY <1>4, <2>1, <3>1
    <3>5. doc'.exists => doc' \in D \cup {new}
      BY <1>2, <2>1
    <3> QED BY <1>2, <2>1, <3>3, <3>4, <3>5, MovesFit DEF Sweeping
  <2>3. CASE r.op = "replace" /\ doc.exists
    <3>1. r = [op |-> "replace", new |-> r.new, saves |-> r.saves]
      BY <1>3, <2>3, AskedCarries
    <3>2. [r EXCEPT !.op = "put"] = [op |-> "put", new |-> r.new, saves |-> r.saves]
      BY <3>1
    <3>3. Goes(h, [op |-> "put", new |-> r.new, saves |-> r.saves])
      BY <1>5, <2>3, <3>2 DEF Find
    <3> QED BY <1>1, <1>2, <1>4, <2>1, <2>3, <3>3, MovesFit DEF Sweeping
  <2>4. CASE ~doc.exists /\ r.op = "replace" /\ r.saves
    <3>1. Goes(h, [op |-> "save", version |-> Version(r.new)])
      BY <1>5, <2>4 DEF Find, Then
    <3>2. AllFit({}, V \cup {Version(r.new)})
      BY DEF AllFit
    <3>3. Moves(h, [op |-> "save", version |-> Version(r.new)])
      BY <1>4, <2>1, <3>1
    <3>4. versions' \subseteq V \cup {Version(r.new)}
      BY <1>2, <2>1
    <3> QED BY <2>1, <2>4, <3>2, <3>3, <3>4, MovesFit DEF Sweeping
  <2>5. CASE ~doc.exists /\ (r.op = "track" \/ ~r.saves)
    <3>1. Goes(h, NoRequest)
      BY <1>5, <2>5 DEF Find, Then
    <3> QED BY <1>1, <1>2, <1>4, <2>1, <2>5, <3>1, MovesFit DEF Sweeping, NoRequest
  <2> QED BY <2>1, <2>2, <2>3, <2>4, <2>5
<1>6. CASE PutDocument(h)
  <2> DEFINE new == r.new
             W == V \cup {Version(new)}
  <2>1. doc' = new /\ versions' = versions /\ r.op = "put" /\ Goes(h, Then(r.saves, new))
    BY <1>6 DEF PutDocument
  <2>2. FitsItself(new) => Fits(new, Version(new))
    BY DEF FitsItself, Fits, Version
  <2>3. ~overlap => AllFit({new}, W)
    BY <1>1, <1>2, <2>1, <2>2 DEF AllFit
  <2>4. Moves(h, Then(r.saves, new)) /\ (~overlap' => ~overlap)
    BY <1>4, <2>1
  <2>5. doc' \in {new} /\ versions' \subseteq W /\ Version(new) \in W
    BY <1>2, <2>1
  <2> HIDE DEF new, W
  <2>6. /\ Then(r.saves, new).op \in {"save", "none"}
        /\ Then(r.saves, new).op = "save" => Then(r.saves, new).version = Version(new)
    BY DEF Then, NoRequest
  <2> QED BY <2>3, <2>4, <2>5, <2>6, MovesFit DEF Sweeping
<1>7. CASE SaveVersion(h)
  <2>1. UNCHANGED doc /\ versions' = versions \cup {r.version} /\ r.op = "save" /\ Goes(h, NoRequest)
    BY <1>7 DEF SaveVersion
  <2> QED BY <1>1, <1>2, <1>4, <2>1, MovesFit DEF Sweeping, NoRequest
<1>8. CASE Purge(h)
  <2>1. UNCHANGED doc /\ versions' = {} /\ r.op = "purge" /\ Goes(h, [op |-> "refill", kept |-> r.kept])
    BY <1>8 DEF Purge
  <2> QED BY <1>1, <1>2, <1>4, <2>1, MovesFit DEF Sweeping
<1>9. CASE FillAgain(h)
  <2>1. UNCHANGED doc /\ versions' = versions \cup r.kept /\ r.op = "refill" /\ Goes(h, NoRequest)
    BY <1>9 DEF FillAgain
  <2> QED BY <1>1, <1>2, <1>4, <2>1, MovesFit DEF Sweeping, NoRequest
<1>10. CASE Clear(h)
  <2>1. r = [op |-> "clear", kept |-> r.kept]
    BY <1>3, <1>10, AskedCarries DEF Clear
  <2>2. [r EXCEPT !.op = "return"] = [op |-> "return", kept |-> r.kept]
    BY <2>1
  <2>3. /\ UNCHANGED versions /\ ~doc'.exists /\ r.op = "clear"
        /\ Goes(h, [op |-> "return", kept |-> r.kept])
    BY <1>10, <2>2 DEF Clear, NoDocument
  <2> QED BY <1>1, <1>2, <1>4, <2>3, MovesFit DEF Sweeping
<1>11. CASE Return(h)
  <2>1. UNCHANGED versions /\ doc' = r.kept /\ r.op = "return" /\ Goes(h, NoRequest)
    BY <1>11 DEF Return
  <2> QED BY <1>1, <1>2, <1>4, <2>1, MovesFit DEF Sweeping, NoRequest
<1>12. CASE Delete(h)
  <2>1. PICK q : Goes(h, q) /\ q.op \in {"none", "forget"}
    BY <1>12 DEF Delete, NoRequest
  <2>2. UNCHANGED versions /\ ~doc'.exists /\ r.op = "delete"
    BY <1>12 DEF Delete, NoDocument
  <2> QED BY <1>1, <1>2, <1>4, <2>1, <2>2, MovesFit DEF Sweeping
<1>13. CASE Forget(h)
  <2>1. UNCHANGED doc /\ versions' = {} /\ r.op = "forget" /\ Goes(h, NoRequest)
    BY <1>13 DEF Forget
  <2> QED BY <1>1, <1>2, <1>4, <2>1, MovesFit DEF Sweeping, NoRequest
<1>14. CASE PutFolder(h) \/ RemoveFolder(h) \/ PutOthers(h) \/ Adopt(h)
  <2>2. PICK q : Goes(h, q) /\ q.op \in {"others", "adopt", "unfile", "none"}
    BY <1>14, FoldersGoOn
  <2>3. UNCHANGED <<doc, versions>> /\ r.op # "none"
    BY <1>14 DEF PutFolder, RemoveFolder, PutOthers, Adopt
  <2> QED BY <1>1, <1>2, <1>4, <2>2, <2>3, MovesFit DEF Sweeping
<1>15. CASE Unfile(h)
  <2>1. UNCHANGED versions /\ r.op = "unfile" /\ Goes(h, NoRequest)
    BY <1>15 DEF Unfile
  <2>2. ~overlap /\ doc.exists => FitsItself(doc) /\ \A v \in V : Fits(doc, v)
    BY <1>1, <1>2 DEF AllFit
  <2>3. doc'.exists => doc.exists /\ doc'.text = doc.text /\ doc'.change = doc.change
    BY <1>15 DEF Unfile, StudioTyped, Document, NoDocument
  <2>4. ~overlap => AllFit({d \in {doc'} : d.exists}, V)
    BY <2>2, <2>3 DEF AllFit, FitsItself, Fits, IsBefore
  <2> QED BY <1>2, <1>4, <2>1, <2>4, MovesFit DEF Sweeping, NoRequest
<1> QED BY <1>5, <1>6, <1>7, <1>8, <1>9, <1>10, <1>11, <1>12, <1>13, <1>14, <1>15 DEF StudioStep

LEMMA AllStayFit ==
    ASSUME StudioTyped, Alone, Insertions, [StudioNext]_studioVars
    PROVE  Insertions'
<1>1. CASE StudioRestart
  BY <1>1 DEF StudioRestart, Insertions
<1>2. CASE UNCHANGED studioVars
  BY <1>2 DEF studioVars, Insertions, AtWork, DocumentsOf, VersionsOf
<1> QED BY <1>1, <1>2, AsksFit, StepsFit DEF StudioNext

(* ------------------ a deleted document leaves nothing ------------------- *)

\* Without the document there is no version and nobody will put one back, but for the
\* handler that is about to delete them, or to put the document back.
Forgotten ==
    ~overlap =>
        /\ ~doc.exists => \/ versions = {} /\ \A r \in AtWork : r.op \in Sweeping => r.kept = {}
                          \/ \E r \in AtWork : r.op \in {"forget", "return"}
        /\ \A r \in AtWork : r.op \in {"replace", "track", "put", "save", "clear", "delete"} => doc.exists

LEMMA MovesForget ==
    ASSUME StudioTyped, Alone, NEW h \in Handlers, NEW r, Moves(h, r),
           ~overlap' /\ ~doc'.exists => \/ versions' = {} /\ (r.op \in Sweeping => r.kept = {})
                                        \/ r.op \in {"forget", "return"},
           ~overlap' /\ r.op \in {"replace", "track", "put", "save", "clear", "delete"} => doc'.exists
    PROVE  Forgotten'
<1> SUFFICES ASSUME ~overlap' PROVE Forgotten'
  BY DEF Forgotten
<1>1. AtWork' \subseteq {NoRequest, r} /\ r \in AtWork'
  BY AloneMoves DEF AtWork
<1> QED BY <1>1 DEF Forgotten, Sweeping, NoRequest

LEMMA AllIsForgotten ==
    ASSUME StudioTyped, Alone, Forgotten, [StudioNext]_studioVars
    PROVE  Forgotten'
<1>1. CASE StudioRestart
  BY <1>1 DEF StudioRestart, Forgotten
<1>2. CASE UNCHANGED studioVars
  BY <1>2 DEF studioVars, Forgotten, AtWork
<1>3. ASSUME NEW h \in Handlers, StudioRequest(h) PROVE Forgotten'
  <2>1. ASSUME NEW r, Begin(h, r), doc.exists PROVE Forgotten'
    BY <2>1, MovesForget DEF Moves, Begin
  <2>2. ASSUME NEW r, Begin(h, r), r.op \in {"purge", "folder", "remove"},
               r.op = "purge" => r.kept \subseteq versions
        PROVE  Forgotten'
    <3>1. Moves(h, r) /\ UNCHANGED <<doc, versions>>
      BY <2>2 DEF Moves, Begin
    <3>2. ASSUME ~overlap', ~doc'.exists PROVE versions' = {} /\ (r.op = "purge" => r.kept = {})
      <4>1. ~overlap /\ \A q \in AtWork : q = NoRequest
        BY <2>2, <3>1, <3>2, AloneMoves DEF AtWork
      <4> QED BY <2>2, <3>1, <3>2, <4>1 DEF Forgotten, NoRequest
    <3> QED BY <2>2, <3>1, <3>2, MovesForget DEF Sweeping
  <2>3. CASE AskReplace(h) \/ AskMove(h) \/ AskTrack(h) \/ AskDuplicate(h) \/ AskPurge(h)
             \/ AskClear(h) \/ AskDelete(h)
    BY <2>1, <2>3 DEF AskReplace, AskMove, AskTrack, AskDuplicate, AskPurge, AskClear, AskDelete
  <2>4. CASE AskSweep(h)
    BY <2>2, <2>4 DEF AskSweep
  <2>5. CASE AskNewFolder(h) \/ AskMoveFolder(h) \/ AskRename(h) \/ AskDeleteFolder(h)
    <3>1. ASSUME NEW f, NEW p, NEW new, Begin(h, [op |-> "folder", of |-> f, to |-> p, new |-> new])
          PROVE  Forgotten'
      BY <2>2, <3>1
    <3>2. ASSUME NEW f, Begin(h, [op |-> "remove", of |-> f, kept |-> parent]) PROVE Forgotten'
      BY <2>2, <3>2
    <3> QED BY <2>5, <3>1, <3>2 DEF AskNewFolder, AskMoveFolder, AskRename, AskDeleteFolder
  <2> QED BY <1>3, <2>3, <2>4, <2>5 DEF StudioRequest
<1>4. ASSUME NEW h \in Handlers, StudioStep(h) PROVE Forgotten'
  <2> DEFINE r == handler[h]
  <2>1. ~overlap => /\ r.op \in {"replace", "track", "put", "save", "clear", "delete"} => doc.exists
                    /\ ~doc.exists => \/ versions = {} /\ (r.op \in Sweeping => r.kept = {})
                                      \/ r.op \in {"forget", "return"}
    <3>1. ASSUME ~overlap, r # NoRequest PROVE AtWork \subseteq {NoRequest, r}
      BY <3>1 DEF Alone, AtWork
    <3>2. r \in AtWork /\ r # NoRequest
      <4>1. \E q : Begin(h, q) \/ (Goes(h, q) /\ r.op # "none")
        BY <1>4, EveryStepMoves DEF Moves, Op
      <4>2. r # NoRequest
        BY <1>4 DEF StudioStep, Find, PutDocument, SaveVersion, Purge, FillAgain, Clear, Return, Delete, Forget,
             PutFolder, RemoveFolder, PutOthers, Adopt, Unfile, NoRequest, Op
      <4> QED BY <4>2 DEF AtWork
    <3> QED BY <3>1, <3>2 DEF Forgotten, NoRequest
  <2>2. r \in Errands
    BY DEF StudioTyped
  <2>3. ASSUME NEW q, Goes(h, q), r.op # "none" PROVE Moves(h, q) /\ (~overlap' => ~overlap)
    BY <2>3 DEF Moves, Goes, Op
  <2>4. CASE Find(h)
    <3>1. UNCHANGED <<doc, versions>> /\ r.op \in {"replace", "track"}
      BY <2>4 DEF Find
    <3>2. PICK q : Goes(h, q)
      BY <2>4 DEF Find
    <3> QED BY <2>1, <2>3, <3>1, <3>2, MovesForget
  <2>5. CASE PutDocument(h)
    <3>1. r.new \in Document
      BY <2>2, <2>5, AskedCarries DEF PutDocument
    <3>2. doc'.exists /\ r.op = "put" /\ \E q : Goes(h, q)
      BY <2>5, <3>1 DEF PutDocument, Document
    <3> QED BY <2>3, <3>2, MovesForget
  <2>6. CASE SaveVersion(h)
    <3>1. UNCHANGED doc /\ r.op = "save" /\ Goes(h, NoRequest)
      BY <2>6 DEF SaveVersion
    <3> QED BY <2>1, <2>3, <3>1, MovesForget
  <2>7. CASE Purge(h)
    <3>1. UNCHANGED doc /\ versions' = {} /\ r.op = "purge" /\ Goes(h, [op |-> "refill", kept |-> r.kept])
      BY <2>7 DEF Purge
    <3> QED BY <2>1, <2>3, <3>1, MovesForget DEF Sweeping
  <2>8. CASE FillAgain(h)
    <3>1. UNCHANGED doc /\ versions' = versions \cup r.kept /\ r.op = "refill" /\ Goes(h, NoRequest)
      BY <2>8 DEF FillAgain
    <3> QED BY <2>1, <2>3, <3>1, MovesForget DEF Sweeping, NoRequest
  <2>9. CASE Clear(h)
    <3>1. r = [op |-> "clear", kept |-> r.kept]
      BY <2>2, <2>9, AskedCarries DEF Clear
    <3>2. [r EXCEPT !.op = "return"].op = "return"
      BY <3>1
    <3>3. r.op = "clear" /\ Goes(h, [r EXCEPT !.op = "return"])
      BY <2>9 DEF Clear
    <3> QED BY <2>3, <3>2, <3>3, MovesForget
  <2>10. CASE Return(h)
    <3>1. r.kept \in Document
      BY <2>2, <2>10, AskedCarries DEF Return
    <3>2. doc'.exists /\ r.op = "return" /\ Goes(h, NoRequest)
      BY <2>10, <3>1 DEF Return, Document
    <3> QED BY <2>3, <3>2, MovesForget
  <2>11. CASE Delete(h)
    <3>1. r.op = "delete" /\ (doc.exists => Goes(h, [op |-> "forget"])) /\ \E q : Goes(h, q)
      BY <2>11 DEF Delete
    <3>2. CASE doc.exists
      BY <2>3, <3>1, <3>2, MovesForget
    <3>3. CASE ~doc.exists
      <4>1. PICK q : Goes(h, q)
        BY <3>1
      <4>2. ~(~overlap')
        BY <2>1, <2>3, <3>1, <3>3, <4>1
      <4> QED BY <2>3, <3>1, <4>1, <4>2, MovesForget
    <3> QED BY <3>2, <3>3
  <2>12. CASE Forget(h)
    <3>1. versions' = {} /\ r.op = "forget" /\ Goes(h, NoRequest)
      BY <2>12 DEF Forget
    <3> QED BY <2>3, <3>1, MovesForget DEF NoRequest, Sweeping
  <2>13. CASE PutFolder(h) \/ RemoveFolder(h) \/ PutOthers(h) \/ Adopt(h) \/ Unfile(h)
    <3>1. PICK q : Goes(h, q) /\ q.op \in {"others", "adopt", "unfile", "none"}
      BY <2>2, <2>13, FoldersGoOn
    <3>2. UNCHANGED versions /\ r.op \in {"folder", "remove", "others", "adopt", "unfile"}
          /\ (doc'.exists <=> doc.exists)
      BY <2>13 DEF PutFolder, RemoveFolder, PutOthers, Adopt, Unfile, StudioTyped, Document, NoDocument
    <3> QED BY <2>1, <2>3, <3>1, <3>2, MovesForget DEF Sweeping
  <2> QED BY <1>4, <2>4, <2>5, <2>6, <2>7, <2>8, <2>9, <2>10, <2>11, <2>12, <2>13 DEF StudioStep
<1> QED BY <1>1, <1>2, <1>3, <1>4 DEF StudioNext

(* --------------------------- folders are a forest ----------------------- *)

Used(up, f) == up[f] \notin {Missing, Deleted}

\* No folder is above itself, and each is at the top, in one that is used, or in folder
\* of, which is being deleted.
NoCycle(up) == \A S \in SUBSET Folders : S # {} => \E f \in S : up[f] \notin S
Within(up, of, f) == f \in Folders => f = of \/ Used(up, f)
SoundTree(up, of) == NoCycle(up) /\ \A f \in Folders : Within(up, of, up[f])

\* So are the document and what request r will put for it.
Filed(up, of, r) == SoundTree(up, of) /\ \A d \in DocumentsOf(r) : Within(up, of, d.folder)

\* The parents when the folders that r read are put back.
Remaining(r) ==
    [g \in Folders |-> IF g # r.of /\ r.kept[g] \notin {Missing, Deleted} THEN r.kept[g] ELSE parent[g]]

\* What a request under way knows of the folders, alone.
Placed(r) ==
    /\ r.op \notin {"others", "adopt", "unfile"} => Filed(parent, Root, r)
    /\ r.op = "folder" => Filed([parent EXCEPT ![r.of] = r.to], Root, r)
    /\ r.op = "remove" => r.kept = parent
    /\ r.op = "others" => Filed(Remaining(r), r.of, r) /\ \A f \in Folders : parent[f] \notin Folders
    /\ r.op \in {"adopt", "unfile"} => Filed(parent, r.of, r)
    /\ r.op = "unfile" => \A f \in Folders : parent[f] # r.of

Forest ==
    ~overlap => \A r \in AtWork : r # NoRequest \/ AtWork = {NoRequest} => Placed(r)

LEMMA FolderNames ==
    Root \notin Folders /\ Missing \notin Folders /\ Deleted \notin Folders
    /\ Root \notin {Missing, Deleted}
BY DocumentStudioAssumption DEF Root, Missing, Deleted

\* Of the only request under way it is enough to look at what it knows.
LEMMA MovesAreFiled ==
    ASSUME StudioTyped, Alone, NEW h \in Handlers, NEW r, Moves(h, r),
           ~overlap' => Placed(r)'
    PROVE  Forest'
<1> SUFFICES ASSUME ~overlap' PROVE Forest'
  BY DEF Forest
<1>1. AtWork' \subseteq {NoRequest, r} /\ r \in AtWork'
  BY AloneMoves DEF AtWork
<1>2. ASSUME NEW q \in AtWork', q # NoRequest \/ AtWork' = {NoRequest} PROVE q = r
  BY <1>1, <1>2
<1> QED BY <1>1, <1>2 DEF Forest

\* The way up from a folder goes on to its end.
LEMMA AboveGoesOn ==
    ASSUME StudioTyped, NEW p \in Folders
    PROVE  /\ p \in Above(p)
           /\ \A g \in Above(p) : parent[g] \in Folders => parent[g] \in Above(p)
           /\ ~InUse(p) => Above(p) = {p}
<1>1. p \in Above(p)
  BY DEF Above
<1>2. ASSUME NEW g \in Above(p), parent[g] \in Folders PROVE parent[g] \in Above(p)
  BY <1>2 DEF Above
<1>3. ASSUME ~InUse(p), NEW q \in Above(p) PROVE q = p
  <2>1. parent[p] \notin Folders
    BY <1>3, FolderNames DEF InUse
  <2>2. \A g \in {p} : parent[g] \in Folders => parent[g] \in {p}
    BY <2>1
  <2> QED BY <2>2 DEF Above
<1> QED BY <1>1, <1>2, <1>3

\* A new folder goes under one that is used, or to the top.
LEMMA NewFolderIsSound ==
    ASSUME StudioTyped, SoundTree(parent, Root), NEW f \in Folders, NEW p \in Folders \cup {Root},
           parent[f] = Missing, p # Root => InUse(p)
    PROVE  /\ SoundTree([parent EXCEPT ![f] = p], Root)
           /\ \A g : Within(parent, Root, g) => Within([parent EXCEPT ![f] = p], Root, g)
<1> DEFINE up == [parent EXCEPT ![f] = p]
<1>1. up[f] = p /\ p # f /\ \A g \in Folders \ {f} : up[g] = parent[g]
  BY FolderNames DEF StudioTyped, Parents, InUse
<1> HIDE DEF up
<1>2. \A g \in Folders : parent[g] # f
  BY FolderNames DEF SoundTree, Within, Used
<1>3. NoCycle(up)
  <2> SUFFICES ASSUME NEW S \in SUBSET Folders, S # {} PROVE \E g \in S : up[g] \notin S
    BY DEF NoCycle
  <2>1. CASE S = {f}
    BY <1>1, <2>1
  <2>2. CASE S # {f}
    <3>1. S \ {f} \in SUBSET Folders /\ S \ {f} # {}
      BY <2>2
    <3>2. PICK g \in S \ {f} : parent[g] \notin S \ {f}
      BY <3>1 DEF SoundTree, NoCycle
    <3>3. up[g] \notin S
      BY <1>1, <1>2, <3>2
    <3> QED BY <3>2, <3>3
  <2> QED BY <2>1, <2>2
<1>4. ASSUME NEW g, Within(parent, Root, g) PROVE Within(up, Root, g)
  <2>1. g \in Folders => Used(parent, g) /\ g # f
    BY <1>4, FolderNames DEF Within, Used
  <2> QED BY <1>1, <2>1 DEF Within, Used
<1>5. ASSUME NEW g \in Folders PROVE Within(up, Root, up[g])
  <2>1. Within(parent, Root, up[g])
    BY <1>1 DEF SoundTree, Within, Used, InUse
  <2> QED BY <1>4, <2>1
<1>6. SoundTree(up, Root) /\ \A g : Within(parent, Root, g) => Within(up, Root, g)
  BY <1>3, <1>4, <1>5 DEF SoundTree
<1> QED BY <1>6 DEF up

\* A folder that is moved goes where the way up passes by it not, and ends at the top.
LEMMA MovedFolderIsSound ==
    ASSUME StudioTyped, SoundTree(parent, Root), NEW f \in Folders, NEW p \in Folders \cup {Root},
           InUse(f), p # Root => f \notin Above(p) /\ \E g \in Above(p) : parent[g] = Root
    PROVE  /\ SoundTree([parent EXCEPT ![f] = p], Root)
           /\ \A g : Within(parent, Root, g) => Within([parent EXCEPT ![f] = p], Root, g)
<1> DEFINE up == [parent EXCEPT ![f] = p]
<1>1. up[f] = p /\ \A g \in Folders \ {f} : up[g] = parent[g]
  BY DEF StudioTyped, Parents
<1>2. p # Root => InUse(p) /\ p # f
  <2>1. CASE p = Root
    BY <2>1
  <2>2. CASE p \in Folders
    BY <2>2, AboveGoesOn, FolderNames DEF InUse
  <2> QED BY <2>1, <2>2
<1> HIDE DEF up
<1>3. NoCycle(up)
  <2> SUFFICES ASSUME NEW S \in SUBSET Folders, S # {}, \A g \in S : up[g] \in S PROVE FALSE
    BY DEF NoCycle
  <2>1. CASE f \notin S
    <3>1. \A g \in S : parent[g] \in S
      BY <1>1, <2>1
    <3> QED BY <3>1 DEF SoundTree, NoCycle
  <2>2. CASE f \in S
    <3>1. p \in S /\ p \in Folders /\ p # Root
      BY <1>1, <2>2, FolderNames
    <3>2. p \in Above(p) /\ \A g \in Above(p) : parent[g] \in Folders => parent[g] \in Above(p)
      BY <3>1, AboveGoesOn
    <3> DEFINE T == Above(p) \cap S
    <3>3. T \in SUBSET Folders /\ T # {}
      BY <3>1, <3>2
    <3>4. \A g \in T : parent[g] \in T
      BY <1>1, <3>1, <3>2
    <3> HIDE DEF T
    <3> QED BY <3>3, <3>4 DEF SoundTree, NoCycle
  <2> QED BY <2>1, <2>2
<1>4. ASSUME NEW g, Within(parent, Root, g) PROVE Within(up, Root, g)
  <2>1. p \notin {Missing, Deleted}
    BY FolderNames
  <2> QED BY <1>1, <1>4, <2>1 DEF Within, Used
<1>5. ASSUME NEW g \in Folders PROVE Within(up, Root, up[g])
  <2>1. Within(parent, Root, up[g])
    BY <1>1, <1>2, FolderNames DEF SoundTree, Within, Used, InUse
  <2> QED BY <1>4, <2>1
<1>6. SoundTree(up, Root) /\ \A g : Within(parent, Root, g) => Within(up, Root, g)
  BY <1>3, <1>4, <1>5 DEF SoundTree
<1> QED BY <1>6 DEF up

\* Before the move of the only request it knows of the folders what it should.
LEMMA PlacedBefore ==
    ASSUME StudioTyped, Alone, Forest, NEW h \in Handlers, NEW r, Moves(h, r), ~overlap'
    PROVE  Placed(handler[h]) /\ ~overlap
<1>1. ~overlap /\ \A g \in Handlers \ {h} : handler[g] = NoRequest
  BY AloneMoves
<1>2. handler[h] \in AtWork
  BY DEF AtWork
<1>3. CASE Begin(h, r)
  <2>1. handler[h] = NoRequest
    BY <1>3 DEF Begin
  <2>2. AtWork = {NoRequest}
    BY <1>1, <2>1 DEF AtWork
  <2> QED BY <1>1, <1>2, <2>2 DEF Forest
<1>4. CASE Goes(h, r) /\ Op(h) # "none"
  <2>1. handler[h] # NoRequest
    BY <1>4 DEF Op, NoRequest
  <2> QED BY <1>1, <1>2, <2>1 DEF Forest
<1> QED BY <1>3, <1>4 DEF Moves

LEMMA RequestsAreFiled ==
    ASSUME StudioTyped, Alone, Forest, NEW h \in Handlers, NEW r, Begin(h, r),
           r.op \in {"replace", "track", "save", "purge", "clear", "delete"},
           r.op = "replace" => doc.exists /\ r.new.folder \in {doc.folder, Root} \cup {f \in Folders : InUse(f)},
           r.op = "clear" => doc.exists /\ r.kept = doc
    PROVE  Forest'
<1>1. Moves(h, r) /\ UNCHANGED <<doc, parent>> /\ handler[h] = NoRequest
  BY DEF Moves, Begin
<1> SUFFICES ASSUME ~overlap' PROVE Placed(r)'
  BY <1>1, MovesAreFiled
<1>2. Filed(parent, Root, NoRequest)
  <2>1. Placed(NoRequest) /\ NoRequest.op = "none"
    BY <1>1, PlacedBefore DEF NoRequest
  <2> QED BY <2>1 DEF Placed
<1>3. ASSUME NEW d \in DocumentsOf(r)' PROVE Within(parent, Root, d.folder)
  <2>1. d.folder \in {doc.folder, Root} \cup {f \in Folders : InUse(f)} /\ doc.exists
    BY <1>1, <1>3 DEF DocumentsOf
  <2>2. Within(parent, Root, doc.folder)
    BY <1>2, <2>1 DEF Filed, DocumentsOf
  <2> QED BY <2>1, <2>2, FolderNames DEF Within, Used, InUse
<1>4. Filed(parent, Root, r)'
  BY <1>1, <1>2, <1>3 DEF Filed, SoundTree, NoCycle, Within, Used
<1> QED BY <1>4 DEF Placed

LEMMA FolderRequestsAreFiled ==
    ASSUME StudioTyped, Alone, Forest, NEW h \in Handlers, NEW f \in Folders, NEW p \in Folders \cup {Root},
           NEW new, Begin(h, [op |-> "folder", of |-> f, to |-> p, new |-> new]),
           SoundTree(parent, Root) => /\ SoundTree([parent EXCEPT ![f] = p], Root)
                                      /\ \A g : Within(parent, Root, g) => Within([parent EXCEPT ![f] = p], Root, g)
    PROVE  Forest'
<1> DEFINE r == [op |-> "folder", of |-> f, to |-> p, new |-> new]
           up == [parent EXCEPT ![f] = p]
<1>1. Moves(h, r) /\ UNCHANGED <<doc, parent>> /\ handler[h] = NoRequest
  BY DEF Moves, Begin
<1> SUFFICES ASSUME ~overlap' PROVE Placed(r)'
  BY <1>1, MovesAreFiled
<1>2. Filed(parent, Root, NoRequest)
  <2>1. Placed(NoRequest) /\ NoRequest.op = "none"
    BY <1>1, PlacedBefore DEF NoRequest
  <2> QED BY <2>1 DEF Placed
<1>3. r.op = "folder" /\ r.of = f /\ r.to = p /\ DocumentsOf(r)' = DocumentsOf(NoRequest)
  BY <1>1 DEF DocumentsOf, NoRequest
<1> HIDE DEF r
<1>4. Filed(parent, Root, r)' /\ Filed(up, Root, r)'
  <2>1. SoundTree(up, Root) /\ \A d \in DocumentsOf(NoRequest) : Within(up, Root, d.folder)
    BY <1>2 DEF Filed
  <2> HIDE DEF up
  <2>2. up' = up
    BY <1>1 DEF up
  <2> QED BY <1>1, <1>2, <1>3, <2>1, <2>2 DEF Filed, SoundTree, NoCycle, Within, Used
<1> QED BY <1>3, <1>4 DEF Placed

LEMMA AsksAreFiled ==
    ASSUME StudioTyped, Alone, Forest, NEW h \in Handlers, StudioRequest(h)
    PROVE  Forest'
<1>1. doc.exists => doc = [exists |-> doc.exists, text |-> doc.text, version |-> doc.version,
                           folder |-> doc.folder, change |-> doc.change]
  <2>1. doc.exists => doc \in Document
    BY DEF StudioTyped, NoDocument
  <2> QED BY <2>1 DEF Document
<1>2. CASE AskReplace(h)
  <2>1. PICK new \in Edited(doc) \cup Decided(doc) \cup Restored(doc) :
           Begin(h, [op |-> "replace", new |-> new, saves |-> TRUE])
    BY <1>2 DEF AskReplace
  <2>2. ASSUME NEW t PROVE Rewritten(doc, t).folder = doc.folder
                           /\ \A c : [Rewritten(doc, t) EXCEPT !.change = c].folder = doc.folder
    BY <1>1, <1>2 DEF AskReplace, Rewritten
  <2>3. (\E t : new = Rewritten(doc, t)) \/ (\E t, c : new = [Rewritten(doc, t) EXCEPT !.change = c])
    <3>1. new \in Edited(doc) \cup Restored(doc) => \E t : new = Rewritten(doc, t)
      BY DEF Edited, Restored
    <3>2. new \in Decided(doc) => \E t, c : new = [Rewritten(doc, t) EXCEPT !.change = c]
      BY DEF Decided
    <3> QED BY <2>1, <3>1, <3>2
  <2>4. new.folder = doc.folder
    <3>1. CASE \E t : new = Rewritten(doc, t)
      BY <2>2, <3>1
    <3>2. CASE \E t, c : new = [Rewritten(doc, t) EXCEPT !.change = c]
      <4>1. PICK t, c : new = [Rewritten(doc, t) EXCEPT !.change = c]
        BY <3>2
      <4> QED BY <2>2, <4>1
    <3> QED BY <2>3, <3>1, <3>2
  <2> QED BY <1>2, <2>1, <2>4, RequestsAreFiled DEF AskReplace
<1>3. CASE AskMove(h)
  <2>1. PICK new \in Moved(doc), saves \in BOOLEAN :
           Begin(h, [op |-> "replace", new |-> new, saves |-> saves])
    BY <1>3 DEF AskMove
  <2>2. new.folder \in {doc.folder, Root} \cup {f \in Folders : InUse(f)}
    BY <1>1, <1>3, <2>1 DEF AskMove, Moved
  <2> QED BY <1>3, <2>1, <2>2, RequestsAreFiled DEF AskMove
<1>4. CASE AskTrack(h)
  BY <1>4, RequestsAreFiled DEF AskTrack
<1>5. CASE AskDuplicate(h)
  <2>1. PICK v : Begin(h, [op |-> "save", version |-> v])
    BY <1>5 DEF AskDuplicate
  <2> QED BY <2>1, RequestsAreFiled
<1>6. CASE AskPurge(h) \/ AskSweep(h)
  <2>1. PICK gone, kept : Begin(h, [op |-> "purge", gone |-> gone, kept |-> kept])
    BY <1>6 DEF AskPurge, AskSweep
  <2> QED BY <2>1, RequestsAreFiled
<1>7. CASE AskClear(h)
  BY <1>7, RequestsAreFiled DEF AskClear
<1>8. CASE AskDelete(h)
  BY <1>8, RequestsAreFiled DEF AskDelete
<1>9. CASE AskNewFolder(h)
  <2>1. PICK f \in Folders, p \in Folders \cup {Root} :
           /\ parent[f] = Missing /\ (p # Root => InUse(p))
           /\ Begin(h, [op |-> "folder", of |-> f, to |-> p, new |-> TRUE])
    BY <1>9 DEF AskNewFolder
  <2> QED BY <2>1, NewFolderIsSound, FolderRequestsAreFiled
<1>10. CASE AskMoveFolder(h)
  <2>1. PICK f \in Folders, p \in Folders \cup {Root} :
           /\ InUse(f) /\ (p # Root => f \notin Above(p) /\ \E g \in Above(p) : parent[g] = Root)
           /\ Begin(h, [op |-> "folder", of |-> f, to |-> p, new |-> FALSE])
    BY <1>10 DEF AskMoveFolder
  <2> QED BY <2>1, MovedFolderIsSound, FolderRequestsAreFiled
<1>11. CASE AskRename(h)
  <2>1. PICK f \in Folders :
           InUse(f) /\ Begin(h, [op |-> "folder", of |-> f, to |-> parent[f], new |-> FALSE])
    BY <1>11 DEF AskRename
  <2>2. [parent EXCEPT ![f] = parent[f]] = parent /\ parent[f] \in Folders \cup {Root}
    BY <2>1 DEF StudioTyped, Parents, InUse
  <2> QED BY <2>1, <2>2, FolderRequestsAreFiled
<1>12. CASE AskDeleteFolder(h)
  <2>1. PICK f \in Folders : Begin(h, [op |-> "remove", of |-> f, kept |-> parent])
    BY <1>12 DEF AskDeleteFolder
  <2> DEFINE r == [op |-> "remove", of |-> f, kept |-> parent]
  <2>2. Moves(h, r) /\ UNCHANGED <<doc, parent>> /\ handler[h] = NoRequest
    BY <2>1 DEF Moves, Begin
  <2> SUFFICES ASSUME ~overlap' PROVE Placed(r)'
    BY <2>2, MovesAreFiled
  <2>3. Filed(parent, Root, NoRequest)
    <3>1. Placed(NoRequest) /\ NoRequest.op = "none"
      BY <2>2, PlacedBefore DEF NoRequest
    <3> QED BY <3>1 DEF Placed
  <2>4. r.op = "remove" /\ r.kept = parent /\ DocumentsOf(r)' = DocumentsOf(NoRequest)
    BY <2>2 DEF DocumentsOf, NoRequest
  <2> HIDE DEF r
  <2>5. Filed(parent, Root, r)'
    BY <2>2, <2>3, <2>4 DEF Filed, SoundTree, NoCycle, Within, Used
  <2>6. r' = r
    BY <2>2 DEF r
  <2> QED BY <2>2, <2>4, <2>5, <2>6 DEF Placed
<1> QED BY <1>2, <1>3, <1>4, <1>5, <1>6, <1>7, <1>8, <1>9, <1>10, <1>11, <1>12 DEF StudioRequest

LEMMA DocumentStepsAreFiled ==
    ASSUME StudioTyped, Alone, Forest, NEW h \in Handlers, NEW q, Goes(h, q), UNCHANGED parent,
           Op(h) \in {"replace", "track", "put", "save", "purge", "refill", "clear", "return", "delete",
                      "forget"},
           q.op \in {"put", "save", "none", "refill", "return", "forget"},
           \A d \in DocumentsOf(q)' : \E e \in DocumentsOf(handler[h]) : e.folder = d.folder
    PROVE  Forest'
<1>1. Moves(h, q)
  BY DEF Moves
<1> SUFFICES ASSUME ~overlap' PROVE Placed(q)'
  BY <1>1, MovesAreFiled
<1>2. Filed(parent, Root, handler[h])
  BY <1>1, PlacedBefore DEF Placed, Op
<1>3. \A d \in DocumentsOf(q)' : Within(parent, Root, d.folder)
  BY <1>2 DEF Filed
<1>4. Filed(parent, Root, q)'
  BY <1>2, <1>3 DEF Filed, SoundTree, NoCycle, Within, Used
<1> QED BY <1>4 DEF Placed

\* A step on folders ends with the folders as they were found to be.
LEMMA FolderStepsAreFiled ==
    ASSUME StudioTyped, Alone, NEW h \in Handlers, NEW q, Goes(h, q), Op(h) # "none", NEW up, NEW of,
           ~overlap' => SoundTree(up, of) /\ \A d \in DocumentsOf(q)' : Within(up, of, d.folder),
           \/ q.op = "others" /\ Remaining(q)' = up /\ q.of = of
           \/ parent' = up /\ q.op \in {"adopt", "unfile"} /\ q.of = of
           \/ parent' = up /\ q.op = "none" /\ of = Root,
           q.op = "others" => \A f \in Folders : parent'[f] \notin Folders,
           ~overlap' /\ q.op = "unfile" => \A f \in Folders : parent'[f] # q.of
    PROVE  Forest'
<1>1. Moves(h, q)
  BY DEF Moves
<1> SUFFICES ASSUME ~overlap' PROVE Placed(q)'
  BY <1>1, MovesAreFiled
<1>2. SoundTree(up, of) /\ \A d \in DocumentsOf(q)' : Within(up, of, d.folder)
  OBVIOUS
<1>3. CASE q.op = "others" /\ Remaining(q)' = up /\ q.of = of
  <2>1. Filed(Remaining(q), q.of, q)'
    BY <1>2, <1>3 DEF Filed, SoundTree, NoCycle, Within, Used
  <2> QED BY <1>3, <2>1 DEF Placed
<1>4. CASE parent' = up /\ q.op \in {"adopt", "unfile"} /\ q.of = of
  <2>1. Filed(parent, q.of, q)'
    BY <1>2, <1>4 DEF Filed, SoundTree, NoCycle, Within, Used
  <2> QED BY <1>4, <2>1 DEF Placed
<1>5. CASE parent' = up /\ q.op = "none" /\ of = Root
  <2>1. Filed(parent, Root, q)'
    BY <1>2, <1>5 DEF Filed, SoundTree, NoCycle, Within, Used
  <2> QED BY <1>5, <2>1 DEF Placed
<1> QED BY <1>3, <1>4, <1>5

LEMMA StepsAreFiled ==
    ASSUME StudioTyped, Alone, Forest, NEW h \in Handlers, StudioStep(h)
    PROVE  Forest'
<1> DEFINE r == handler[h]
           D == {d \in {doc} : d.exists}
<1>1. r \in Errands /\ parent \in [Folders -> Folders \cup {Root, Missing, Deleted}]
      /\ (doc \in Document \/ ~doc.exists) /\ ~NoDocument.exists
  BY DEF StudioTyped, Parents, NoDocument
<1>2. DocumentsOf(r) = D \cup (IF r.op \in {"replace", "put"} THEN {r.new} ELSE {})
                         \cup (IF r.op \in {"clear", "return"} THEN {r.kept} ELSE {})
  BY DEF DocumentsOf
<1>3. ASSUME NEW q, Goes(h, q), r.op # "none", ~overlap' PROVE Placed(r)
  BY <1>3, PlacedBefore DEF Moves, Op
<1>4. CASE Find(h)
  <2>1. UNCHANGED <<doc, parent>> /\ r.op \in {"replace", "track"}
    BY <1>4 DEF Find
  <2>2. CASE r.op = "track" /\ doc.exists
    <3>1. PICK q : Goes(h, q) /\ q.op = "put" /\ q.new = [doc EXCEPT !.change = "pending"]
      BY <1>4, <2>2 DEF Find
    <3>2. [doc EXCEPT !.change = "pending"].folder = doc.folder
      BY <1>1, <2>2 DEF Document
    <3>3. \A d \in DocumentsOf(q)' : d.folder = doc.folder
      BY <2>1, <3>1, <3>2 DEF DocumentsOf
    <3>4. doc \in DocumentsOf(r)
      BY <2>2 DEF DocumentsOf
    <3> QED BY <2>1, <3>1, <3>3, <3>4, DocumentStepsAreFiled DEF Op
  <2>3. CASE r.op = "replace" /\ doc.exists
    <3>1. r = [op |-> "replace", new |-> r.new, saves |-> r.saves]
      BY <1>1, <2>3, AskedCarries
    <3>2. [r EXCEPT !.op = "put"] = [op |-> "put", new |-> r.new, saves |-> r.saves]
      BY <3>1
    <3>3. PICK q : Goes(h, q) /\ q.op = "put" /\ q.new = r.new
      BY <1>4, <2>3, <3>2 DEF Find
    <3>4. DocumentsOf(q)' \subseteq DocumentsOf(r)
      BY <2>1, <2>3, <3>3 DEF DocumentsOf
    <3> QED BY <2>1, <3>3, <3>4, DocumentStepsAreFiled DEF Op
  <2>4. CASE ~doc.exists
    <3>1. PICK q : Goes(h, q) /\ q.op \in {"save", "none"}
      BY <1>4, <2>4 DEF Find, Then, NoRequest
    <3>2. DocumentsOf(q)' = {}
      BY <2>1, <2>4, <3>1 DEF DocumentsOf
    <3> QED BY <2>1, <3>1, <3>2, DocumentStepsAreFiled DEF Op
  <2> QED BY <2>1, <2>2, <2>3, <2>4
<1>5. CASE PutDocument(h)
  <2>1. doc' = r.new /\ UNCHANGED parent /\ r.op = "put" /\ Goes(h, Then(r.saves, r.new))
    BY <1>5 DEF PutDocument
  <2>2. PICK q : Goes(h, q) /\ q.op \in {"save", "none"}
    BY <2>1 DEF Then, NoRequest
  <2>3. DocumentsOf(q)' \subseteq {r.new} /\ r.new \in DocumentsOf(r)
    BY <2>1, <2>2 DEF DocumentsOf
  <2> QED BY <2>1, <2>2, <2>3, DocumentStepsAreFiled DEF Op
<1>6. CASE SaveVersion(h) \/ Purge(h) \/ FillAgain(h) \/ Forget(h)
  <2>1. PICK q : Goes(h, q) /\ q.op \in {"refill", "none"}
    BY <1>6 DEF SaveVersion, Purge, FillAgain, Forget, NoRequest
  <2>2. UNCHANGED <<doc, parent>> /\ r.op \in {"save", "purge", "refill", "forget"}
    BY <1>6 DEF SaveVersion, Purge, FillAgain, Forget
  <2>3. DocumentsOf(q)' \subseteq DocumentsOf(r)
    BY <2>1, <2>2 DEF DocumentsOf
  <2> QED BY <2>1, <2>2, <2>3, DocumentStepsAreFiled DEF Op
<1>7. CASE Clear(h)
  <2>1. r = [op |-> "clear", kept |-> r.kept]
    BY <1>1, <1>7, AskedCarries DEF Clear
  <2>2. [r EXCEPT !.op = "return"] = [op |-> "return", kept |-> r.kept]
    BY <2>1
  <2>3. PICK q : Goes(h, q) /\ q.op = "return" /\ q.kept = r.kept
    BY <1>7, <2>2 DEF Clear
  <2>4. UNCHANGED parent /\ ~doc'.exists /\ r.op = "clear"
    BY <1>1, <1>7 DEF Clear
  <2>5. DocumentsOf(q)' \subseteq DocumentsOf(r)
    BY <2>3, <2>4 DEF DocumentsOf
  <2> QED BY <2>3, <2>4, <2>5, DocumentStepsAreFiled DEF Op
<1>8. CASE Return(h) \/ Delete(h)
  <2>1. PICK q : Goes(h, q) /\ q.op \in {"forget", "none"}
    BY <1>8 DEF Return, Delete, NoRequest
  <2>2. UNCHANGED parent /\ r.op \in {"return", "delete"} /\ ((doc' = r.kept /\ r.op = "return") \/ ~doc'.exists)
    BY <1>1, <1>8 DEF Return, Delete
  <2>3. DocumentsOf(q)' \subseteq DocumentsOf(r)
    BY <2>1, <2>2 DEF DocumentsOf
  <2> QED BY <2>1, <2>2, <2>3, DocumentStepsAreFiled DEF Op
<1>9. CASE PutFolder(h)
  <2>1. Goes(h, NoRequest) /\ UNCHANGED doc /\ r.op = "folder"
        /\ (parent' = parent \/ parent' = [parent EXCEPT ![r.of] = r.to])
    BY <1>9 DEF PutFolder
  <2>2. DocumentsOf(NoRequest)' = D /\ DocumentsOf(r) = D /\ NoRequest.op = "none"
    BY <2>1 DEF DocumentsOf, NoRequest
  <2>3. ~overlap' => Filed(parent, Root, r) /\ Filed([parent EXCEPT ![r.of] = r.to], Root, r)
    BY <1>3, <2>1 DEF Placed
  <2> HIDE DEF D, r
  <2>4. ~overlap' => SoundTree(parent', Root) /\ \A d \in D : Within(parent', Root, d.folder)
    BY <2>1, <2>2, <2>3 DEF Filed
  <2>5. Op(h) # "none"
    BY <2>1 DEF Op, r
  <2> QED BY <2>1, <2>2, <2>4, <2>5, FolderStepsAreFiled
<1>10. CASE RemoveFolder(h)
  <2>1. r = [op |-> "remove", of |-> r.of, kept |-> r.kept] /\ r.of \in Folders
    BY <1>1, <1>10, AskedCarries DEF RemoveFolder
  <2>2. PICK of, q : of = r.of /\ q = [op |-> "others", of |-> of, kept |-> r.kept]
    OBVIOUS
  <2>3. [r EXCEPT !.op = "others"] = q
    BY <2>1, <2>2
  <2>4. /\ Goes(h, q) /\ UNCHANGED doc /\ r.op = "remove" /\ q.op = "others" /\ q.of = of
        /\ q.kept = r.kept /\ Op(h) # "none"
        /\ parent' = [g \in Folders |-> IF InUse(g) THEN Deleted ELSE parent[g]]
    BY <1>10, <2>2, <2>3 DEF RemoveFolder, Op
  <2>5. DocumentsOf(q)' = D /\ DocumentsOf(r) = D
    BY <2>4 DEF DocumentsOf
  <2>6. PICK up : up = Remaining(q)'
    OBVIOUS
  <2> HIDE DEF D, r
  <2>7. ASSUME ~overlap' PROVE SoundTree(up, of) /\ \A d \in D : Within(up, of, d.folder)
    <3>1. q.kept = parent /\ Filed(parent, Root, r)
      BY <1>3, <2>4, <2>7 DEF Placed
    <3>2. \A g \in Folders : up[g] = IF g # of /\ InUse(g) THEN parent[g]
                                     ELSE IF InUse(g) THEN Deleted ELSE parent[g]
      BY <2>4, <2>6, <3>1 DEF Remaining, InUse
    <3>3. NoCycle(up)
      <4> SUFFICES ASSUME NEW S \in SUBSET Folders, S # {} PROVE \E f \in S : up[f] \notin S
        BY DEF NoCycle
      <4>1. PICK f \in S : parent[f] \notin S
        BY <3>1 DEF Filed, SoundTree, NoCycle
      <4>2. up[f] = parent[f] \/ up[f] = Deleted
        BY <3>2
      <4> QED BY <4>1, <4>2, FolderNames
    <3>4. ASSUME NEW g, Within(parent, Root, g) PROVE Within(up, of, g)
      BY <3>2, <3>4, FolderNames DEF Within, Used, InUse
    <3>5. \A f \in Folders : up[f] = Deleted \/ up[f] = parent[f]
      BY <3>2
    <3>6. \A f \in Folders : Within(up, of, up[f])
      BY <3>1, <3>4, <3>5, FolderNames DEF Filed, SoundTree, Within
    <3>7. \A d \in D : Within(up, of, d.folder)
      BY <2>5, <3>1, <3>4 DEF Filed
    <3> QED BY <3>3, <3>6, <3>7 DEF SoundTree
  <2>8. \A f \in Folders : parent'[f] \notin Folders
    BY <1>1, <2>4, FolderNames DEF InUse
  <2> QED BY <2>4, <2>5, <2>6, <2>7, <2>8, FolderStepsAreFiled
<1>11. CASE PutOthers(h)
  <2>1. PICK of, q : of = r.of /\ q = [op |-> "adopt", of |-> of]
    OBVIOUS
  <2>2. /\ Goes(h, q) /\ UNCHANGED doc /\ r.op = "others" /\ q.op = "adopt" /\ q.of = of /\ Op(h) # "none"
        /\ parent' = Remaining(r)
    BY <1>11, <2>1 DEF PutOthers, Remaining, Op
  <2>3. DocumentsOf(q)' = D /\ DocumentsOf(r) = D
    BY <2>2 DEF DocumentsOf
  <2>4. ~overlap' => Filed(Remaining(r), of, r)
    BY <1>3, <2>1, <2>2 DEF Placed
  <2> HIDE DEF D, r
  <2>5. PICK up : up = parent'
    OBVIOUS
  <2>6. ~overlap' => SoundTree(up, of) /\ \A d \in D : Within(up, of, d.folder)
    BY <2>2, <2>3, <2>4, <2>5 DEF Filed
  <2> QED BY <2>2, <2>3, <2>5, <2>6, FolderStepsAreFiled
<1>12. CASE Adopt(h)
  <2>1. r = [op |-> "adopt", of |-> r.of] /\ r.of \in Folders
    BY <1>1, <1>12, AskedCarries DEF Adopt
  <2>2. PICK of, q : of = r.of /\ q = [op |-> "unfile", of |-> of]
    OBVIOUS
  <2>3. [r EXCEPT !.op = "unfile"] = q
    BY <2>1, <2>2
  <2>4. /\ Goes(h, q) /\ UNCHANGED doc /\ r.op = "adopt" /\ q.op = "unfile" /\ q.of = of /\ Op(h) # "none"
        /\ parent' = [g \in Folders |-> IF parent[g] = of THEN Root ELSE parent[g]]
    BY <1>12, <2>2, <2>3 DEF Adopt, Op
  <2>5. DocumentsOf(q)' = D /\ DocumentsOf(r) = D
    BY <2>4 DEF DocumentsOf
  <2>6. ~overlap' => Filed(parent, of, r)
    BY <1>3, <2>2, <2>4 DEF Placed
  <2>7. PICK up : up = parent'
    OBVIOUS
  <2>8. \A f \in Folders : up[f] \in {Root, parent[f]} /\ up[f] # of
    BY <2>1, <2>2, <2>4, <2>7, FolderNames
  <2> HIDE DEF D, r
  <2>9. ASSUME ~overlap' PROVE SoundTree(up, of) /\ \A d \in D : Within(up, of, d.folder)
    <3>1. NoCycle(up)
      BY <2>6, <2>8, <2>9, FolderNames DEF Filed, SoundTree, NoCycle
    <3>2. ASSUME NEW g, Within(parent, of, g) PROVE Within(up, of, g)
      BY <2>8, <3>2, FolderNames DEF Within, Used
    <3>3. \A f \in Folders : Within(up, of, up[f])
      BY <2>6, <2>8, <2>9, <3>2, FolderNames DEF Filed, SoundTree, Within
    <3> QED BY <2>5, <2>6, <2>9, <3>1, <3>2, <3>3 DEF Filed, SoundTree
  <2> QED BY <2>4, <2>5, <2>7, <2>8, <2>9, FolderStepsAreFiled
<1>13. CASE Unfile(h)
  <2>1. /\ Goes(h, NoRequest) /\ UNCHANGED parent /\ r.op = "unfile"
        /\ doc' = IF doc.exists /\ doc.folder = r.of THEN [doc EXCEPT !.folder = Root] ELSE doc
    BY <1>13 DEF Unfile
  <2>2. DocumentsOf(NoRequest)' = {d \in {doc'} : d.exists} /\ DocumentsOf(r) = D /\ NoRequest.op = "none"
        /\ Op(h) # "none"
    BY <2>1 DEF DocumentsOf, NoRequest, Op
  <2>3. ~overlap' => Filed(parent, r.of, r) /\ \A f \in Folders : parent[f] # r.of
    BY <1>3, <2>1 DEF Placed
  <2>4. doc'.exists => doc.exists /\ (doc'.folder = Root \/ (doc'.folder = doc.folder /\ doc.folder # r.of))
    BY <1>1, <2>1 DEF Document
  <2> HIDE DEF r
  <2>5. ASSUME ~overlap' PROVE SoundTree(parent, Root) /\ \A d \in {d \in {doc'} : d.exists} : Within(parent, Root, d.folder)
    <3>1. SoundTree(parent, Root)
      BY <2>3, <2>5 DEF Filed, SoundTree, Within
    <3>2. doc'.exists => Within(parent, Root, doc'.folder)
      BY <2>2, <2>3, <2>4, <2>5, FolderNames DEF Filed, Within
    <3> QED BY <3>1, <3>2
  <2> QED BY <2>1, <2>2, <2>5, FolderStepsAreFiled
<1> QED BY <1>4, <1>5, <1>6, <1>7, <1>8, <1>9, <1>10, <1>11, <1>12, <1>13 DEF StudioStep

LEMMA FoldersStayAForest ==
    ASSUME StudioTyped, Alone, Forest, [StudioNext]_studioVars
    PROVE  Forest'
<1>1. CASE StudioRestart
  BY <1>1 DEF StudioRestart, Forest
<1>2. CASE UNCHANGED studioVars
  <2>1. UNCHANGED <<doc, parent, overlap>> /\ AtWork' = AtWork
    BY <1>2 DEF studioVars, AtWork
  <2>2. ASSUME NEW r, Placed(r) PROVE Placed(r)'
    BY <2>1, <2>2 DEF DocumentsOf, Placed, Filed, SoundTree, NoCycle, Within, Used, Remaining
  <2> QED BY <2>1, <2>2 DEF Forest
<1> QED BY <1>1, <1>2, AsksAreFiled, StepsAreFiled DEF StudioNext

(* ---------------------- nothing written is lost ------------------------- *)

StudioInvariant == StudioTyped /\ TextsKept /\ Alone /\ Insertions /\ Forgotten /\ Forest

LEMMA StudioStarts ==
    ASSUME StudioInit
    PROVE  StudioInvariant
<1>1. StudioTyped
  BY StudioStartsTyped
<1>2. PICK b \in Bodies :
         doc = [exists |-> TRUE, text |-> [body |-> b, inserted |-> 0], version |-> 1,
                folder |-> Root, change |-> "none"]
  BY DEF StudioInit
<1>3. /\ versions = {Version(doc)} /\ shown = {doc.text} /\ Version(doc).text = doc.text
      /\ \A h \in Handlers : handler[h] = NoRequest
      /\ AtWork = {NoRequest} /\ NoRequest.op = "none"
  BY DEF StudioInit, AtWork, NoRequest, Version
<1>4. TextsKept /\ Alone
  <2>1. Alone
    BY <1>3 DEF Alone
  <2>2. \A h \in Handlers : Op(h) = "none"
    BY <1>3 DEF Op
  <2>3. Carried /\ SweepsAlone
    BY <1>3, <2>2 DEF Carried, SweepsAlone, Sweeping
  <2>4. \A t \in shown : Restorable(t)
    BY <1>3 DEF Restorable
  <2> QED BY <2>1, <2>3, <2>4 DEF TextsKept
<1>5. DocumentsOf(NoRequest) = {doc} /\ VersionsOf(NoRequest) = {Version(doc)}
  BY <1>2, <1>3 DEF DocumentsOf, VersionsOf, Sweeping
<1>6. Insertions
  <2>1. doc.text.inserted = 0 /\ Version(doc).text.inserted = 0
    BY <1>2, <1>3
  <2>2. FitsItself(doc) /\ Fits(doc, Version(doc))
    BY <2>1 DEF FitsItself, Fits
  <2> QED BY <1>3, <1>5, <2>2 DEF Insertions, AllFit
<1>7. Forgotten
  BY <1>2, <1>3 DEF Forgotten
<1>8. SoundTree(parent, Root)
  <2>1. \A f \in Folders : parent[f] \in {Root, Missing}
    BY DEF StudioInit
  <2>2. \A f \in Folders : parent[f] \notin Folders
    BY <2>1, FolderNames
  <2> QED BY <2>2 DEF SoundTree, NoCycle, Within
<1>9. Forest
  BY <1>2, <1>3, <1>5, <1>8, FolderNames DEF Forest, Placed, Filed, Within
<1> QED BY <1>1, <1>4, <1>6, <1>7, <1>9 DEF StudioInvariant

LEMMA StudioGoesOn ==
    ASSUME StudioInvariant, [StudioNext]_studioVars
    PROVE  StudioInvariant'
BY TypesAreKept, TextsStayKept, StaysAlone, AllStayFit, AllIsForgotten, FoldersStayAForest
   DEF StudioInvariant

LEMMA StudioImplies ==
    ASSUME StudioInvariant
    PROVE  NothingWrittenIsLost
<1>1. StudioTyped /\ TextsKept /\ Alone /\ Insertions /\ Forgotten /\ Forest
  BY DEF StudioInvariant
<1>2. requests \in Nat /\ Numbers \subseteq 1 .. MaxRequests + 1
  <2>1. requests \in 0 .. MaxRequests /\ MaxRequests \in Nat
    BY <1>1, DocumentStudioAssumption DEF StudioTyped
  <2> QED BY <2>1 DEF Numbers
<1>3. StudioTypeOK
  <2>1. doc.exists => doc \in Document
    BY <1>1 DEF StudioTyped, NoDocument
  <2>2. doc.exists => /\ doc.text \in Text /\ doc.version \in 1 .. MaxRequests + 1
                      /\ doc.folder \in Folders \cup {Root}
                      /\ doc.change \in {"none", "pending", "accepted", "rejected"}
    BY <1>2, <2>1 DEF Document
  <2>3. \A v \in versions : v.number \in 1 .. MaxRequests + 1 /\ v.text \in Text
    BY <1>1, <1>2 DEF StudioTyped, Saved
  <2> QED BY <1>1, <2>2, <2>3 DEF StudioTypeOK, StudioTyped, Parents
<1>4. EveryTextKept
  BY <1>1 DEF TextsKept, Restorable, EveryTextKept, Op
<1>5. InsertedOnce
  BY <1>1 DEF Insertions, InsertedOnce, AtWork, DocumentsOf, AllFit, FitsItself
<1>6. DeletedForgets
  BY <1>1 DEF Forgotten, DeletedForgets, AtWork, NoRequest
<1>7. FoldersAreForest
  <2> SUFFICES ASSUME ~overlap PROVE FoldersAreForest
    BY DEF FoldersAreForest
  <2>1. PICK r \in AtWork : r # NoRequest \/ AtWork = {NoRequest}
    BY DEF AtWork
  <2>2. Placed(r)
    BY <1>1, <2>1 DEF Forest
  <2>3. CASE r.op \in {"others", "adopt", "unfile"}
    <3>1. \E h \in Handlers : handler[h].op \in {"others", "adopt", "unfile"}
      BY <2>1, <2>3 DEF AtWork, NoRequest
    <3>2. NoCycle(parent)
      <4>1. CASE r.op \in {"adopt", "unfile"}
        BY <2>2, <4>1 DEF Placed, Filed, SoundTree
      <4>2. CASE r.op = "others"
        BY <2>2, <4>2 DEF Placed, NoCycle
      <4> QED BY <2>3, <4>1, <4>2
    <3> QED BY <3>1, <3>2 DEF FoldersAreForest, NoCycle
  <2>4. CASE r.op \notin {"others", "adopt", "unfile"}
    <3>1. Filed(parent, Root, r)
      BY <2>2, <2>4 DEF Placed
    <3>2. SoundTree(parent, Root) /\ (doc.exists => Within(parent, Root, doc.folder))
      BY <3>1 DEF Filed, DocumentsOf
    <3>3. \A f \in Folders : parent[f] \in Folders => InUse(parent[f])
      BY <3>2, FolderNames DEF SoundTree, Within, Used, InUse
    <3>4. ASSUME doc.exists, doc.folder # Root PROVE InUse(doc.folder)
      <4>1. doc \in Document
        BY <1>1, <3>4 DEF StudioTyped, NoDocument
      <4>2. doc.folder \in Folders
        BY <3>4, <4>1 DEF Document
      <4> QED BY <3>2, <3>4, <4>2, FolderNames DEF Within, Used, InUse
    <3> QED BY <3>2, <3>3, <3>4 DEF FoldersAreForest, SoundTree, NoCycle
  <2> QED BY <2>3, <2>4
<1> QED BY <1>3, <1>4, <1>5, <1>6, <1>7 DEF NothingWrittenIsLost

\* However many requests are under way at once, whatever each has read, in whichever
\* order they put things back and wherever the server restarts, no text is lost, no
\* insertion made twice, no version left behind and no folder cut off, but for what
\* NothingWrittenIsLost names.
THEOREM StudioKeepsWhatIsWritten == StudioSpec => []NothingWrittenIsLost
<1>1. StudioInit => StudioInvariant
  BY StudioStarts
<1>2. StudioInvariant /\ [StudioNext]_studioVars => StudioInvariant'
  BY StudioGoesOn
<1>3. StudioInvariant => NothingWrittenIsLost
  BY StudioImplies
<1> QED BY <1>1, <1>2, <1>3, PTL DEF StudioSpec

(* --------------------------- drafts: what holds ------------------------- *)

Reasons == {"none", "timeout", "unavailable", "transient", "broken", "malformed"}
Codes == {"request", "timeout", "malformed", "integrity", "unavailable"}
DraftItems ==
    [status : {"skipped"}] \cup [status : {"failed"}, code : Codes]
    \cup [status : {"generated"}, answer : Drafts, why : Reasons,
          provider : SupportedProviders \cup {NoProvider}]

\* Who may be asked, and why.
MayAsk(provider, why) ==
    \/ provider = draft.primary
    \/ draft.allowed /\ provider \in draft.fallback /\ why \in Passing /\ draft.mode # "natural"

\* An item tells of its type; it was skipped only if there was one of that type.
SeenBefore(i) == \E j \in 1 .. i - 1 : draft.types[j] = draft.types[i]
Listed(item, i) ==
    /\ item.status = "skipped" <=> SeenBefore(i)
    /\ item.status = "generated" =>
          /\ item.answer.asTyped /\ OriginsTrue(item.answer) /\ Sound(item.answer)
          /\ MayAsk(item.provider, item.why)

AtItem == Len(items) < Len(draft.types) /\ ~SeenBefore(Len(items) + 1)
Sendings ==
    [stage : {"sending", "pausing"}, provider : SupportedProviders \cup {NoProvider},
     sends : 1 .. MaxSends, repeats : {0, 1}, why : Reasons]
DraftingOn ==
    \/ drafting = Rest /\ items = <<>>
    \/ drafting = [stage |-> "next"]
    \/ /\ drafting \in Sendings /\ MayAsk(drafting.provider, drafting.why) /\ AtItem
       /\ drafting.stage = "pausing" => drafting.sends < MaxSends
    \/ drafting.stage = "ended"

DraftInvariant ==
    /\ draft \in DraftRequests
    /\ items \in Seq(DraftItems) /\ Len(items) <= Len(draft.types)
    /\ \A i \in 1 .. Len(items) : Listed(items[i], i)
    /\ DraftingOn /\ PackIsWhole

LEMMA DraftRequestTypes ==
    ASSUME draft \in DraftRequests
    PROVE  /\ draft.types \in Seq(STRING) /\ Len(draft.types) \in Nat
           /\ draft.primary \in SupportedProviders \cup {NoProvider}
           /\ draft.fallback \subseteq SupportedProviders \cup {NoProvider}
BY DocumentDraftsAssumption

\* The outcomes that Finish gives.
WholeOutcomes == {"complete", "partial_failure", "failed"}

LEMMA NotYetWhole ==
    ASSUME drafting.stage # "ended" \/ drafting.outcome \notin WholeOutcomes
    PROVE  PackIsWhole
BY DEF PackIsWhole, WholeOutcomes

LEMMA NotYetWholeNext ==
    ASSUME drafting'.stage # "ended" \/ drafting'.outcome \notin WholeOutcomes
    PROVE  PackIsWhole'
BY DEF PackIsWhole, WholeOutcomes

LEMMA DraftStarts == DraftInit => DraftInvariant
<1> SUFFICES ASSUME DraftInit PROVE DraftInvariant
    OBVIOUS
<1>1. draft \in DraftRequests /\ drafting = Rest /\ items = <<>> /\ drafting.stage = "rest"
    BY DEF DraftInit, Rest
<1>2. Len(draft.types) \in Nat
    BY <1>1, DraftRequestTypes
<1>3. items \in Seq(DraftItems) /\ Len(items) = 0
    BY <1>1
<1> QED BY <1>1, <1>2, <1>3, NotYetWhole DEF DraftInvariant, DraftingOn

\* An item more.
LEMMA ItemAdded ==
    ASSUME DraftInvariant, UNCHANGED draft, Len(items) < Len(draft.types),
           NEW item \in DraftItems, Listed(item, Len(items) + 1), items' = Append(items, item)
    PROVE  /\ items' \in Seq(DraftItems) /\ Len(items') <= Len(draft.types)
           /\ \A i \in 1 .. Len(items') : Listed(items[i], i)'
<1>1. items \in Seq(DraftItems) /\ Len(items) \in Nat /\ Len(draft.types) \in Nat
    BY DraftRequestTypes DEF DraftInvariant
<1>2. items' \in Seq(DraftItems) /\ Len(items') = Len(items) + 1
      /\ \A i \in 1 .. Len(items) : items'[i] = items[i]
      /\ items'[Len(items) + 1] = item
    BY <1>1
<1>3. ASSUME NEW i \in 1 .. Len(items') PROVE Listed(items[i], i)'
  <2>1. PICK it : it = items'[i] /\ Listed(it, i)
    <3>1. CASE i \in 1 .. Len(items)
      BY <1>2, <3>1 DEF DraftInvariant
    <3>2. CASE i = Len(items) + 1
      BY <1>2, <3>2
    <3> QED BY <1>1, <1>2, <1>3, <3>1, <3>2
  <2>2. Listed(it, i)'
    BY <2>1 DEF Listed, SeenBefore, OriginsTrue, Sound, PlaceholdersWhole, ClaimsSupported,
        Supported, Known, MayAsk
  <2> QED BY <2>1, <2>2 DEF Listed, SeenBefore, OriginsTrue, Sound, PlaceholdersWhole, ClaimsSupported,
        Supported, Known, MayAsk
<1> QED BY <1>1, <1>2, <1>3

\* Nothing more.
LEMMA ItemsKept ==
    ASSUME DraftInvariant, UNCHANGED <<draft, items>>
    PROVE  /\ draft' \in DraftRequests
           /\ items' \in Seq(DraftItems) /\ Len(items') <= Len(draft'.types)
           /\ \A i \in 1 .. Len(items') : Listed(items[i], i)'
BY DEF DraftInvariant, Listed, SeenBefore, OriginsTrue, Sound, PlaceholdersWhole, ClaimsSupported,
    Supported, Known, MayAsk

LEMMA DraftFails ==
    ASSUME DraftInvariant, AtItem, NEW code \in Codes, Fails(code), UNCHANGED draft
    PROVE  DraftInvariant'
<1>1. CASE draft.mode = "pack"
  <2> DEFINE item == [status |-> "failed", code |-> code]
  <2>1. items' = Append(items, item) /\ drafting' = [stage |-> "next"]
    BY <1>1 DEF Fails
  <2>2. item \in DraftItems /\ Listed(item, Len(items) + 1) /\ Len(items) < Len(draft.types)
    BY DEF DraftItems, Listed, AtItem
  <2>3. /\ items' \in Seq(DraftItems) /\ Len(items') <= Len(draft.types)
        /\ \A i \in 1 .. Len(items') : Listed(items[i], i)'
    BY <2>1, <2>2, ItemAdded
  <2>4. PackIsWhole'
    BY <2>1, NotYetWholeNext
  <2> QED BY <2>1, <2>3, <2>4 DEF DraftInvariant, DraftingOn
<1>2. CASE draft.mode # "pack"
  <2>1. drafting' = [stage |-> "ended", outcome |-> code] /\ UNCHANGED items
    BY <1>2 DEF Fails, AnsweredWith
  <2>2. PackIsWhole'
    BY <2>1, NotYetWholeNext DEF Codes, WholeOutcomes
  <2> QED BY <2>1, <2>2, ItemsKept DEF DraftInvariant, DraftingOn
<1> QED BY <1>1, <1>2

\* A provider is asked, for the first time or after another failure.
LEMMA DraftAsked ==
    ASSUME DraftInvariant, AtItem, UNCHANGED <<draft, items>>,
           drafting' \in Sendings, MayAsk(drafting'.provider, drafting'.why),
           drafting'.stage = "pausing" => drafting'.sends < MaxSends
    PROVE  DraftInvariant'
<1>1. PackIsWhole'
    BY NotYetWholeNext DEF Sendings
<1>2. AtItem' /\ MayAsk(drafting.provider, drafting.why)'
    BY DEF AtItem, SeenBefore, MayAsk
<1>3. (drafting \in Sendings)'
    OBVIOUS
<1> QED BY <1>1, <1>2, <1>3, ItemsKept DEF DraftInvariant, DraftingOn

LEMMA DraftGoesOnFailing ==
    ASSUME DraftInvariant, AtItem, NEW why \in Reasons, Failing(why), UNCHANGED draft
    PROVE  DraftInvariant'
<1>1. Code(why) \in Codes /\ "unavailable" \in Codes
    BY DEF Code, Codes
<1>2. MaxSends \in Nat /\ 1 \in 1 .. MaxSends
    BY DocumentDraftsAssumption
<1>3. draft.primary \in SupportedProviders \cup {NoProvider}
      /\ draft.fallback \subseteq SupportedProviders \cup {NoProvider}
    BY DraftRequestTypes DEF DraftInvariant
<1>4. CASE Fails(Code(why)) \/ Fails("unavailable")
    BY <1>1, <1>4, DraftFails
<1>5. CASE drafting' = [Asking(draft.primary, why) EXCEPT !.repeats = 1] /\ UNCHANGED items
  <2>1. drafting' = [stage |-> "sending", provider |-> draft.primary, sends |-> 1, repeats |-> 1, why |-> why]
    BY <1>5 DEF Asking
  <2>2. drafting' \in Sendings
    BY <1>2, <1>3, <2>1 DEF Sendings
  <2> QED BY <1>5, <2>1, <2>2, DraftAsked DEF MayAsk
<1>6. CASE /\ draft.mode # "natural" /\ Fallback # {} /\ why \in Passing
           /\ \E p \in Fallback : drafting' = Asking(p, why) /\ UNCHANGED items
  <2>1. PICK p \in Fallback : drafting' = Asking(p, why) /\ UNCHANGED items
    BY <1>6
  <2>2. p \in draft.fallback /\ draft.allowed
    BY <2>1 DEF Fallback
  <2>3. drafting' = [stage |-> "sending", provider |-> p, sends |-> 1, repeats |-> 0, why |-> why]
    BY <2>1 DEF Asking
  <2>4. drafting' \in Sendings
    BY <1>2, <1>3, <2>2, <2>3 DEF Sendings
  <2> QED BY <1>6, <2>1, <2>2, <2>3, <2>4, DraftAsked DEF MayAsk
<1> QED BY <1>4, <1>5, <1>6 DEF Failing

LEMMA DraftReceives ==
    ASSUME DraftInvariant, Receive, AtItem, MayAsk(drafting.provider, drafting.why),
           drafting \in Sendings
    PROVE  DraftInvariant'
<1>1. PICK answer \in Drafts :
          IF ~answer.asTyped \/ ~OriginsTrue(answer) THEN Failing("malformed")
          ELSE IF ~Sound(answer) THEN Fails("integrity")
          ELSE LET item == [status |-> "generated", answer |-> answer,
                            provider |-> drafting.provider, why |-> drafting.why]
               IN /\ items' = Append(items, item)
                  /\ drafting' = IF draft.mode = "pack" THEN [stage |-> "next"] ELSE AnsweredWith("delivered")
    BY DEF Receive
<1>2. UNCHANGED draft
    BY DEF Receive, Send
<1>3. CASE ~answer.asTyped \/ ~OriginsTrue(answer)
  <2>1. "malformed" \in Reasons /\ Failing("malformed")
    BY <1>1, <1>3 DEF Reasons
  <2> QED BY <1>2, <2>1, DraftGoesOnFailing
<1>4. CASE answer.asTyped /\ OriginsTrue(answer) /\ ~Sound(answer)
  <2>1. "integrity" \in Codes
    BY DEF Codes
  <2> QED BY <1>1, <1>2, <1>4, <2>1, DraftFails
<1>5. CASE answer.asTyped /\ OriginsTrue(answer) /\ Sound(answer)
  <2> DEFINE item == [status |-> "generated", answer |-> answer,
                      provider |-> drafting.provider, why |-> drafting.why]
  <2>1. /\ items' = Append(items, item)
        /\ drafting' = IF draft.mode = "pack" THEN [stage |-> "next"] ELSE AnsweredWith("delivered")
    BY <1>1, <1>5
  <2>2. item \in DraftItems
    BY DEF DraftItems, Sendings
  <2>3. Listed(item, Len(items) + 1) /\ Len(items) < Len(draft.types)
    BY <1>5 DEF Listed, AtItem
  <2>4. /\ items' \in Seq(DraftItems) /\ Len(items') <= Len(draft.types)
        /\ \A i \in 1 .. Len(items') : Listed(items[i], i)'
    BY <1>2, <2>1, <2>2, <2>3, ItemAdded
  <2>5. drafting' = [stage |-> "next"] \/ drafting' = [stage |-> "ended", outcome |-> "delivered"]
    BY <2>1 DEF AnsweredWith
  <2>6. PackIsWhole'
    BY <2>5, NotYetWholeNext DEF WholeOutcomes
  <2>7. DraftingOn'
    BY <2>5 DEF DraftingOn
  <2> QED BY <1>2, <2>4, <2>6, <2>7 DEF DraftInvariant
<1> QED BY <1>3, <1>4, <1>5

LEMMA DraftNextItem ==
    ASSUME DraftInvariant, NextItem
    PROVE  DraftInvariant'
<1>1. UNCHANGED draft /\ Len(items) < Len(draft.types) /\ drafting.stage = "next"
    BY DEF NextItem
<1>2. items \in Seq(DraftItems) /\ Len(items) \in Nat
    BY DEF DraftInvariant
<1>3. Type \in Earlier <=> SeenBefore(Len(items) + 1)
    BY <1>2 DEF Type, Earlier, SeenBefore
<1>4. CASE Type \in Earlier
  <2> DEFINE item == [status |-> "skipped"]
  <2>1. items' = Append(items, item) /\ UNCHANGED drafting
    BY <1>4 DEF NextItem
  <2>2. item \in DraftItems /\ Listed(item, Len(items) + 1)
    BY <1>3, <1>4 DEF DraftItems, Listed
  <2>3. /\ items' \in Seq(DraftItems) /\ Len(items') <= Len(draft.types)
        /\ \A i \in 1 .. Len(items') : Listed(items[i], i)'
    BY <1>1, <2>1, <2>2, ItemAdded
  <2>4. drafting = [stage |-> "next"]
    BY <1>1 DEF DraftInvariant, DraftingOn, Rest, Sendings
  <2>5. PackIsWhole' /\ DraftingOn'
    BY <2>1, <2>4, NotYetWholeNext DEF DraftingOn
  <2> QED BY <1>1, <2>3, <2>5 DEF DraftInvariant
<1>5. CASE Type \notin Earlier /\ draft.objective # "clear"
  <2>1. AtItem /\ Fails("request")
    BY <1>1, <1>3, <1>5 DEF AtItem, NextItem
  <2>2. "request" \in Codes
    BY DEF Codes
  <2> QED BY <1>1, <2>1, <2>2, DraftFails
<1>6. CASE Type \notin Earlier /\ draft.objective = "clear"
  <2>1. AtItem /\ UNCHANGED items /\ drafting' = [stage |-> "sending", provider |-> draft.primary, sends |-> 1,
                                     repeats |-> 0, why |-> "none"]
    BY <1>1, <1>3, <1>6 DEF AtItem, NextItem, Asking
  <2>2. draft.primary \in SupportedProviders \cup {NoProvider} /\ MaxSends \in Nat \ {0}
    BY DraftRequestTypes, DocumentDraftsAssumption DEF DraftInvariant
  <2>3. drafting' \in Sendings
    BY <2>1, <2>2 DEF Sendings, Reasons
  <2> QED BY <1>1, <2>1, <2>3, DraftAsked DEF MayAsk
<1> QED BY <1>4, <1>5, <1>6

\* The first items of every type are as many as there are types.
FirstOnes(types, n) == {i \in 1 .. n : ~\E j \in 1 .. i - 1 : types[j] = types[i]}
LEMMA FirstItems ==
    ASSUME NEW n \in Nat, NEW types
    PROVE  /\ IsFiniteSet(FirstOnes(types, n))
           /\ Cardinality(FirstOnes(types, n)) = Cardinality({types[i] : i \in 1 .. n})
<1> DEFINE First == {i \in 1 .. n : ~\E j \in 1 .. i - 1 : types[j] = types[i]}
           All == {types[i] : i \in 1 .. n}
           f == [i \in First |-> types[i]]
<1>1. IsFiniteSet(First)
  <2>1. IsFiniteSet(1 .. n) /\ First \in SUBSET (1 .. n)
    BY FS_Interval
  <2> QED BY <2>1, FS_Subset
<1>2. f \in [First -> All]
    OBVIOUS
<1>3. \A i, j \in First : f[i] = f[j] => i = j
    OBVIOUS
<1>4. ASSUME NEW t \in All PROVE \E i \in First : f[i] = t
  <2> DEFINE S == {m \in 0 .. n : m < n /\ types[n - m] = t}
  <2>1. PICK k \in 1 .. n : types[k] = t
    BY <1>4
  <2>2. n - k \in S
    BY <2>1
  <2>3. S \in SUBSET (0 .. n) /\ S # {}
    BY <2>2
  <2>4. PICK m : m \in S /\ \A l \in S : l <= m
    BY <2>3, HasMaximum
  <2>5. n - m \in 1 .. n /\ types[n - m] = t
    BY <2>4
  <2>6. ASSUME NEW j \in 1 .. n - m - 1, types[j] = t PROVE FALSE
    <3>1. n - j \in 0 .. n /\ n - j < n /\ n - (n - j) = j
      BY <2>5, <2>6
    <3>2. n - j \in S
      BY <2>6, <3>1
    <3> QED BY <2>4, <2>5, <2>6, <3>2
  <2>7. n - m \in First
    BY <2>5, <2>6
  <2> QED BY <2>5, <2>7
<1>5. f \in Injection(First, All) /\ f \in Surjection(First, All)
    BY <1>2, <1>3, <1>4 DEF Injection, IsInjective, Surjection
<1> HIDE DEF First, All, f
<1>6. Cardinality(All) = Cardinality(First)
    BY <1>1, <1>5, FS_Surjection
<1> QED BY <1>1, <1>6 DEF First, All, FirstOnes

LEMMA DraftFinishes ==
    ASSUME DraftInvariant, Finish
    PROVE  DraftInvariant'
<1> DEFINE n == Len(draft.types)
           First == FirstOnes(draft.types, n)
           With(s) == {i \in DOMAIN items : items[i].status = s}
<1>1. /\ UNCHANGED <<draft, items>> /\ Len(items) = n
      /\ drafting' = AnsweredWith(IF Count("failed") = 0 THEN "complete"
                         ELSE IF Count("generated") > 0 THEN "partial_failure" ELSE "failed")
    BY DEF Finish
<1>2. draft.types \in Seq(STRING) /\ n \in Nat /\ items \in Seq(DraftItems) /\ DOMAIN items = 1 .. n
    BY <1>1, DraftRequestTypes DEF DraftInvariant
<1>3. draft.types \in [1 .. n -> STRING] /\ ToSet(draft.types) = {draft.types[i] : i \in 1 .. n}
    BY <1>2 DEF ToSet
<1>4. IsFiniteSet(First) /\ Cardinality(First) = Cardinality(ToSet(draft.types))
    BY <1>2, <1>3, FirstItems
<1>5. \A i \in 1 .. n : items[i].status \in {"skipped", "failed", "generated"} /\ (items[i].status = "skipped" <=> i \notin First)
  <2>1. \A i \in 1 .. n : items[i] \in DraftItems
    BY <1>2
  <2>2. \A i \in 1 .. n : items[i].status \in {"skipped", "failed", "generated"}
    BY <2>1 DEF DraftItems
  <2>3. \A i \in 1 .. n : items[i].status = "skipped" <=> i \notin First
    BY <1>1 DEF DraftInvariant, Listed, SeenBefore, FirstOnes
  <2> QED BY <2>2, <2>3
<1>6. With("skipped") = (1 .. n) \ First /\ With("generated") \cup With("failed") = First
    BY <1>2, <1>5 DEF FirstOnes
<1>7. ASSUME NEW s PROVE IsFiniteSet(With(s)) /\ Count(s) = Cardinality(With(s)) /\ Count(s) \in Nat
  <2>1. Count(s) = Cardinality(With(s)) /\ With(s) \in SUBSET (1 .. n)
    BY <1>2 DEF Count
  <2>2. IsFiniteSet(1 .. n)
    BY <1>2, FS_Interval
  <2> HIDE DEF n, With
  <2> QED BY <2>1, <2>2, FS_Subset, FS_CardinalityType
<1>8. Count("skipped") = n - Cardinality(ToSet(draft.types))
  <2>1. (1 .. n) \cap First = First
    BY DEF FirstOnes
  <2> HIDE DEF First, n
  <2>3. IsFiniteSet(1 .. n) /\ Cardinality(1 .. n) = n
    BY <1>2, FS_Interval
  <2> DEFINE U == 1 .. n
  <2>4. IsFiniteSet(U) /\ Cardinality(U) = n /\ U \cap First = First
    BY <2>1, <2>3
  <2> HIDE DEF U
  <2>2. Cardinality(U \ First) = n - Cardinality(First)
    BY <2>4, FS_Difference
  <2> QED BY <1>4, <1>6, <1>7, <2>2 DEF U
<1>9. Count("failed") = 0 => Count("generated") = Cardinality(ToSet(draft.types))
  <2> HIDE DEF First, With
  <2>1. ASSUME Count("failed") = 0 PROVE With("failed") = {}
    BY <1>7, <2>1, FS_EmptySet
  <2> QED BY <1>4, <1>6, <1>7, <2>1
<1>10. drafting'.stage = "ended" /\ (drafting'.outcome = "complete" => Count("failed") = 0)
       /\ (drafting'.outcome = "failed" => Count("generated") = 0)
  <2>1. Count("generated") \in Nat
    BY <1>7
  <2> QED BY <1>1, <2>1 DEF AnsweredWith
<1> HIDE DEF First, With
<1>11. PackIsWhole'
  <2>1. Count("skipped")' = Count("skipped") /\ Count("generated")' = Count("generated")
    BY <1>1 DEF Count
  <2> QED BY <1>1, <1>8, <1>9, <1>10, <2>1 DEF PackIsWhole
<1> QED BY <1>1, <1>10, <1>11, ItemsKept DEF DraftInvariant, DraftingOn

LEMMA DraftGoesOn == DraftInvariant /\ [DraftStep]_draftVars => DraftInvariant'
<1> SUFFICES ASSUME DraftInvariant, [DraftStep]_draftVars PROVE DraftInvariant'
    OBVIOUS
<1>1. CASE drafting.stage \in {"sending", "pausing"}
  <2>1. drafting \in Sendings /\ MayAsk(drafting.provider, drafting.why) /\ AtItem
        /\ (drafting.stage = "pausing" => drafting.sends < MaxSends)
    BY <1>1 DEF DraftInvariant, DraftingOn, Rest
  <2>2. MaxSends \in Nat /\ drafting.sends \in 1 .. MaxSends
    BY <2>1, DocumentDraftsAssumption DEF Sendings
  <2>3. CASE SendFails
    <3>1. PICK why \in {"timeout", "broken"} \cup Passing :
             IF Retries THEN drafting' = [drafting EXCEPT !.stage = "pausing"] /\ UNCHANGED items
             ELSE Failing(why)
      BY <2>3 DEF SendFails
    <3>2. UNCHANGED draft /\ why \in Reasons
      BY <2>3, <3>1 DEF SendFails, Send, Passing, Reasons
    <3>3. CASE Retries
      <4>1. drafting' = [drafting EXCEPT !.stage = "pausing"] /\ UNCHANGED items /\ drafting.sends < MaxSends
        BY <3>1, <3>3 DEF Retries
      <4>2. /\ drafting' \in Sendings /\ drafting'.provider = drafting.provider
            /\ drafting'.why = drafting.why /\ drafting'.sends = drafting.sends
        BY <2>1, <4>1 DEF Sendings
      <4> QED BY <2>1, <3>2, <4>1, <4>2, DraftAsked
    <3>4. CASE ~Retries
      BY <2>1, <3>1, <3>2, <3>4, DraftGoesOnFailing
    <3> QED BY <3>3, <3>4
  <2>4. CASE Resend
    <3>1. /\ drafting' = [drafting EXCEPT !.stage = "sending", !.sends = @ + 1]
          /\ UNCHANGED <<draft, items>> /\ drafting.stage = "pausing"
      BY <2>4 DEF Resend
    <3>2. drafting.sends + 1 \in 1 .. MaxSends
      BY <2>1, <2>2, <3>1
    <3>3. /\ drafting' \in Sendings /\ drafting'.provider = drafting.provider
          /\ drafting'.why = drafting.why /\ drafting'.stage = "sending"
      BY <2>1, <3>1, <3>2 DEF Sendings
    <3> QED BY <2>1, <3>1, <3>3, DraftAsked
  <2>5. CASE SendRefused
    <3>1. UNCHANGED draft /\ \E why \in Reasons : Failing(why)
      BY <2>5 DEF SendRefused, Send, Reasons
    <3> QED BY <2>1, <3>1, DraftGoesOnFailing
  <2>6. CASE Overdue
    <3>1. "timeout" \in Reasons /\ Failing("timeout") /\ UNCHANGED draft
      BY <2>6 DEF Overdue, Reasons
    <3> QED BY <2>1, <3>1, DraftGoesOnFailing
  <2>7. CASE Receive
    BY <2>1, <2>7, DraftReceives
  <2>8. CASE UNCHANGED draftVars
    <3>1. UNCHANGED <<draft, items>> /\ drafting' = drafting
      BY <2>8 DEF draftVars
    <3>2. drafting' \in Sendings /\ MayAsk(drafting'.provider, drafting'.why)
          /\ (drafting'.stage = "pausing" => drafting'.sends < MaxSends)
      BY <2>1, <3>1
    <3> QED BY <2>1, <3>1, <3>2, DraftAsked
  <2> QED BY <1>1, <2>3, <2>4, <2>5, <2>6, <2>7, <2>8 DEF DraftStep, CheckDraft, NextItem, Finish, Rest
<1>2. CASE drafting.stage \notin {"sending", "pausing"}
  <2>1. CASE CheckDraft
    <3>1. UNCHANGED <<draft, items>> /\ (drafting' = [stage |-> "next"] \/ drafting' = AnsweredWith(Refusal))
      BY <2>1 DEF CheckDraft
    <3>2. Refusal \notin WholeOutcomes
      BY DEF Refusal, WholeOutcomes
    <3>3. PackIsWhole' /\ DraftingOn'
      BY <3>1, <3>2, NotYetWholeNext DEF AnsweredWith, DraftingOn
    <3> QED BY <3>1, <3>3, ItemsKept DEF DraftInvariant
  <2>2. CASE NextItem
    BY <2>2, DraftNextItem
  <2>3. CASE Finish
    BY <2>3, DraftFinishes
  <2>4. CASE UNCHANGED draftVars
    <3>1. UNCHANGED <<draft, items, drafting>>
      BY <2>4 DEF draftVars
    <3>2. PackIsWhole'
      BY <3>1 DEF DraftInvariant, PackIsWhole, Count
    <3>3. DraftingOn'
      BY <1>2, <3>1 DEF DraftInvariant, DraftingOn, Sendings
    <3> QED BY <3>1, <3>2, <3>3, ItemsKept DEF DraftInvariant
  <2> QED BY <1>2, <2>1, <2>2, <2>3, <2>4 DEF DraftStep, SendFails, Resend, SendRefused, Overdue, Receive, Send
<1> QED BY <1>1, <1>2

LEMMA DraftImplies == DraftInvariant => DraftsAreTrue
<1> SUFFICES ASSUME DraftInvariant PROVE DraftsAreTrue
    OBVIOUS
<1>1. items \in Seq(DraftItems) /\ DOMAIN items = 1 .. Len(items)
    BY DEF DraftInvariant
<1>2. DeliveredIsSupported
  <2> SUFFICES ASSUME NEW i \in DOMAIN items, items[i].status = "generated"
               PROVE  LET answer == items[i].answer
                      IN /\ answer.asTyped
                         /\ \A c \in answer.claims :
                               \/ c.origin = "generated" /\ c.field \notin HighRisk
                               \/ c.value \in Supported /\ (c.origin # "generated" =>
                                      Known(IF c.origin = "user" THEN draft.user ELSE draft.verified, c))
                         /\ \A sentence \in answer.stated : sentence \cap Supported # {}
                         /\ answer.found = answer.declared /\ draft.blank \subseteq answer.declared
      BY DEF DeliveredIsSupported
  <2> DEFINE answer == items[i].answer
  <2>1. answer.asTyped /\ OriginsTrue(answer) /\ Sound(answer)
    BY <1>1 DEF DraftInvariant, Listed
  <2>2. answer \in Drafts
    BY <1>1 DEF DraftItems
  <2>3. ASSUME NEW c \in answer.claims
        PROVE  \/ c.origin = "generated" /\ c.field \notin HighRisk
               \/ c.value \in Supported /\ (c.origin # "generated" =>
                        Known(IF c.origin = "user" THEN draft.user ELSE draft.verified, c))
    <3>1. c.origin \in {"verified", "user", "generated"}
      BY <2>2, DocumentDraftsAssumption
    <3>2. CASE c.origin = "generated"
      BY <2>1, <3>2 DEF Sound, ClaimsSupported
    <3>3. CASE c.origin = "user"
      BY <2>1, <3>3 DEF OriginsTrue, Known, Supported, Range
    <3>4. CASE c.origin = "verified"
      BY <2>1, <3>4 DEF OriginsTrue, Known, Supported, Range
    <3> QED BY <3>1, <3>2, <3>3, <3>4
  <2> QED BY <2>1, <2>3 DEF Sound, ClaimsSupported, PlaceholdersWhole
<1>3. FallbackIsAllowed
  <2>1. \A i \in 1 .. Len(items) : items[i].status = "generated" => MayAsk(items[i].provider, items[i].why)
    BY DEF DraftInvariant, Listed
  <2>2. ASSUME drafting.stage \in {"sending", "pausing"}
        PROVE  drafting.sends <= MaxSends /\ (draft.mode = "natural" => drafting.provider = draft.primary)
    <3>1. drafting \in Sendings /\ MayAsk(drafting.provider, drafting.why)
      BY <2>2 DEF DraftInvariant, DraftingOn, Rest
    <3>2. MaxSends \in Nat /\ drafting.sends \in 1 .. MaxSends
      BY <3>1, DocumentDraftsAssumption DEF Sendings
    <3> QED BY <3>1, <3>2 DEF MayAsk
  <2> QED BY <1>1, <2>1, <2>2 DEF FallbackIsAllowed, MayAsk
<1> QED BY <1>2, <1>3 DEF DraftsAreTrue, DraftInvariant

\* Whatever providers answer, refuse, repeat or fail to say: what is delivered says of
\* identity, money and law only what is known, comes of a provider that was to be
\* asked, and a pack accounts for every type.
THEOREM DraftsSayWhatIsKnown == DraftSpec => []DraftsAreTrue
<1>1. DraftInit => DraftInvariant
  BY DraftStarts
<1>2. DraftInvariant /\ [DraftStep]_draftVars => DraftInvariant'
  BY DraftGoesOn
<1>3. DraftInvariant => DraftsAreTrue
  BY DraftImplies
<1> QED BY <1>1, <1>2, <1>3, PTL DEF DraftSpec

\* Document Studio, its documents and its drafts: the whole of what a run checks.
THEOREM StudioIsTrueAlways == StudioSpec /\ DraftSpec => []StudioIsTrue
BY StudioKeepsWhatIsWritten, DraftsSayWhatIsKnown, PTL DEF StudioIsTrue

(* --------------------- images and their providers ---------------------- *)

\* A request that goes through candidates, one that nobody can do, and all that a
\* request can be.
Routes ==
    [at : {"asking", "waiting", "sleeping", "done", "failed"},
     outcome : {"none", "images", "raised", "unavailable"},
     candidates : SUBSET Providers, direct : BOOLEAN, provider : Providers,
     attempt : 1 .. MaxPerProvider, attempted : SUBSET Providers,
     failures : [Providers -> 0 .. MaxPerProvider], sorts : SUBSET {"fatal", "unexpected"}]
Unserved ==
    [at : {"failed"}, outcome : {"unsupported"}, candidates : {{}}, direct : BOOLEAN,
     attempted : {{}}, sorts : {{}}]
Answered == {NotAsked, Abandoned} \cup Unserved \cup Routes

\* What a route has come by: those it has tried have failed, as often as they were
\* asked, and it has tried the others not yet.
OneByOne(q) ==
    /\ q.provider \in q.candidates /\ q.attempted \subseteq q.candidates
    /\ \A p \in q.attempted \ {q.provider} : q.failures[p] > 0
    /\ \A p \in q.candidates \ (q.attempted \cup {q.provider}) : q.failures[p] = 0
    /\ q.at # "failed" => q.failures[q.provider] = q.attempt - 1
    /\ q.at \in {"waiting", "sleeping", "done"} => q.provider \in q.attempted
\* Why it came to an end.
EndsForAReason(q) ==
    /\ q.at = "done" => q.provider \in able
    /\ q.at = "failed" =>
          \/ q.outcome = "raised" /\ ("fatal" \in q.sorts \/ ~autoFallback \/ q.direct)
          \/ q.outcome = "unavailable" /\ \A p \in q.candidates : q.failures[p] > 0
    /\ "fatal" \in q.sorts => q.at = "failed"
    /\ ~autoFallback /\ "unexpected" \notin q.sorts => q.attempted \subseteq {q.provider}
RouteOK(q) == OneByOne(q) /\ EndsForAReason(q)

\* The first of some candidates is one of them: of the intervals from 0 to their
\* positions, within one of these, the least begins with it.
LEMMA FirstIsOne ==
    ASSUME NEW S \in SUBSET Providers, S # {}
    PROVE  FirstOf(S) \in S
<1>1. PICK s \in S : TRUE
  OBVIOUS
<1> DEFINE n == Position[s]
           U == 0 .. n
           Below == {0 .. Position[p] : p \in {q \in S : Position[q] <= n}}
<1>2. n \in Nat /\ \A p \in S : Position[p] \in Nat
  BY ImageProvidersAssumption
<1>3. IsFiniteSet(U)
  <2> HIDE DEF n
  <2> QED BY <1>2, FS_Interval
<1>4. Below \subseteq FiniteSubsetsOf(U) /\ Below # {}
  <2>1. ASSUME NEW p \in S, Position[p] <= n PROVE 0 .. Position[p] \in FiniteSubsetsOf(U)
    <3>1. 0 .. Position[p] \in SUBSET U
      BY <2>1, <1>2
    <3> QED BY <3>1, <1>3, FS_FiniteSubsetsOfFinite
  <2>2. Position[s] <= n
    BY <1>2
  <2> QED BY <2>1, <2>2
<1>5. IsWellFoundedOn(StrictSubsetOrdering(U), FiniteSubsetsOf(U))
  BY FS_StrictSubsetOrderingWellFounded
<1>6. PICK x \in Below : \A y \in Below : ~ (<<y, x>> \in StrictSubsetOrdering(U))
  <2> HIDE DEF U, Below
  <2> QED BY <1>4, <1>5, WFMin
<1>7. PICK p \in S : x = 0 .. Position[p] /\ Position[p] <= n
  OBVIOUS
<1>8. ASSUME NEW q \in S PROVE Position[p] <= Position[q]
  <2>1. SUFFICES ASSUME Position[q] < Position[p] PROVE FALSE
    BY <1>2
  <2>2. Position[q] <= n
    BY <2>1, <1>2, <1>7
  <2>3. 0 .. Position[q] \in Below
    BY <2>2
  <2>4. /\ 0 .. Position[q] \subseteq 0 .. Position[p] /\ 0 .. Position[p] \subseteq U
        /\ Position[p] \in 0 .. Position[p] /\ Position[p] \notin 0 .. Position[q]
    BY <1>2, <1>7, <2>1
  <2>5. <<0 .. Position[q], 0 .. Position[p]>> \in StrictSubsetOrdering(U)
    <3> HIDE DEF U
    <3>1. 0 .. Position[q] # 0 .. Position[p]
      BY <2>4
    <3>2. 0 .. Position[q] \in SUBSET U /\ 0 .. Position[p] \in SUBSET U
      BY <2>4
    <3> QED BY <2>4, <3>1, <3>2 DEF StrictSubsetOrdering
  <2> QED BY <1>6, <1>7, <2>3, <2>5
<1> QED BY <1>8 DEF FirstOf

\* A route that begins.
LEMMA BegunWell ==
    ASSUME NEW named, NEW candidates \in SUBSET Providers, NEW direct \in BOOLEAN
    PROVE  LET q == Begun(named, candidates, direct)
           IN q \in Unserved \/ (q \in Routes /\ q.at = "asking" /\ q.direct = direct
                                   /\ q.candidates = candidates /\ RouteOK(q))
<1> DEFINE q == Begun(named, candidates, direct)
           S == IF named \in candidates THEN {named} ELSE candidates
<1>1. CASE candidates = {}
  BY <1>1 DEF Begun, Unserved
<1>2. CASE candidates # {}
  <2>1. S \in SUBSET Providers /\ S # {} /\ S \subseteq candidates
    BY <1>2
  <2>2. PICK p : p = FirstOf(S)
    OBVIOUS
  <2>3. p \in candidates
    <3> HIDE DEF S
    <3> QED BY <2>1, <2>2, FirstIsOne
  <2>4. q = [at |-> "asking", outcome |-> "none", candidates |-> candidates, direct |-> direct,
             provider |-> p, attempt |-> 1, attempted |-> {}, failures |-> NoFailures, sorts |-> {}]
    BY <1>2, <2>2 DEF Begun
  <2>5. /\ NoFailures \in [Providers -> 0 .. MaxPerProvider] /\ \A x \in Providers : NoFailures[x] = 0
        /\ 1 \in 1 .. MaxPerProvider
    <3>1. MaxPerProvider \in Nat /\ MaxPerProvider # 0
      BY ImageProvidersAssumption
    <3> QED BY <3>1 DEF NoFailures
  <2> HIDE DEF q
  <2>6. q \in Routes
    BY <2>3, <2>4, <2>5 DEF Routes
  <2>7. RouteOK(q)
    BY <2>3, <2>4, <2>5 DEF RouteOK, OneByOne, EndsForAReason
  <2>8. q.at = "asking" /\ q.direct = direct /\ q.candidates = candidates
    BY <2>4
  <2> QED BY <2>6, <2>7, <2>8 DEF q
<1> QED BY <1>1, <1>2

\* A route of which the provider asked has failed once more, by what it is noted as.
LEMMA NotedWell ==
    ASSUME NEW r \in ImageRequests, NEW fault, fault.sort \in {"again", "next", "unexpected", "fatal"},
           routing[r] \in Routes, RouteOK(routing[r]), routing[r].at = "waiting"
    PROVE  LET q == routing[r]
               n == Noted(r, fault)
           IN /\ n \in Routes /\ n.at = "waiting" /\ n.outcome = q.outcome
              /\ n.candidates = q.candidates /\ n.direct = q.direct /\ n.provider = q.provider
              /\ n.attempt = q.attempt /\ n.attempted = q.attempted
              /\ n.sorts = q.sorts \cup ({fault.sort} \cap Special)
              /\ n.failures[q.provider] = q.attempt /\ \A p \in Providers \ {q.provider} : n.failures[p] = q.failures[p]
<1>1. PICK q \in Routes : q = routing[r]
  OBVIOUS
<1> DEFINE n == Noted(r, fault)
           fails == [q.failures EXCEPT ![q.provider] = @ + 1]
           sorts == q.sorts \cup ({fault.sort} \cap Special)
<1>2. n = [at |-> q.at, outcome |-> q.outcome, candidates |-> q.candidates, direct |-> q.direct,
           provider |-> q.provider, attempt |-> q.attempt, attempted |-> q.attempted,
           failures |-> fails, sorts |-> sorts]
  <2>1. n = [q EXCEPT !.failures[q.provider] = @ + 1, !.sorts = @ \cup ({fault.sort} \cap Special)]
    BY <1>1 DEF Noted
  <2>2. PICK s : s = sorts
    OBVIOUS
  <2>3. n = [q EXCEPT !.failures[q.provider] = @ + 1, !.sorts = s]
    BY <2>1, <2>2
  <2> QED BY <2>2, <2>3 DEF Routes
<1>3. q.provider \in Providers /\ q.failures \in [Providers -> 0 .. MaxPerProvider] /\ q.attempt \in 1 .. MaxPerProvider
  BY DEF Routes
<1>4. q.failures[q.provider] = q.attempt - 1
  BY <1>1 DEF RouteOK, OneByOne
<1>5. MaxPerProvider \in Nat
  BY ImageProvidersAssumption
<1>6. /\ fails \in [Providers -> 0 .. MaxPerProvider] /\ fails[q.provider] = q.attempt
      /\ \A p \in Providers \ {q.provider} : fails[p] = q.failures[p]
  BY <1>3, <1>4, <1>5
<1>7. sorts \in SUBSET {"fatal", "unexpected"}
  BY DEF Routes, Special
<1> HIDE DEF n, fails, sorts
<1>8. n \in Routes
  BY <1>2, <1>6, <1>7 DEF Routes
<1>9. /\ n.at = q.at /\ n.outcome = q.outcome
      /\ n.candidates = q.candidates /\ n.direct = q.direct /\ n.provider = q.provider
      /\ n.attempt = q.attempt /\ n.attempted = q.attempted
      /\ n.sorts = q.sorts \cup ({fault.sort} \cap Special)
      /\ n.failures[q.provider] = q.attempt
      /\ \A p \in Providers \ {q.provider} : n.failures[p] = q.failures[p]
  BY <1>2, <1>6 DEF sorts
<1> QED BY <1>1, <1>8, <1>9 DEF n

\* The provider of a route has failed, what is to follow is not yet known.
Tried(n) ==
    /\ n \in Routes /\ n.at = "waiting" /\ ~n.direct
    /\ n.provider \in n.attempted /\ n.attempted \subseteq n.candidates
    /\ \A p \in n.attempted : n.failures[p] > 0
    /\ \A p \in n.candidates \ n.attempted : n.failures[p] = 0
    /\ n.failures[n.provider] = n.attempt
    /\ ~autoFallback /\ "unexpected" \notin n.sorts => n.attempted \subseteq {n.provider}

LEMMA OnwardWell ==
    ASSUME NEW n, Tried(n), "fatal" \notin n.sorts, autoFallback \/ "unexpected" \in n.sorts
    PROVE  Onward(n) \in Routes /\ RouteOK(Onward(n))
<1> DEFINE m == Onward(n)
<1>1. CASE Left(n) = {}
  <2>1. m = [at |-> "failed", outcome |-> "unavailable", candidates |-> n.candidates,
             direct |-> n.direct, provider |-> n.provider, attempt |-> n.attempt,
             attempted |-> n.attempted, failures |-> n.failures, sorts |-> n.sorts]
    BY <1>1 DEF Onward, Over, Tried, Routes
  <2>2. n.candidates = n.attempted
    BY <1>1 DEF Left, Tried
  <2> HIDE DEF m
  <2>3. m \in Routes
    BY <2>1 DEF Tried, Routes
  <2>4. RouteOK(m)
    BY <2>1, <2>2 DEF RouteOK, OneByOne, EndsForAReason, Tried
  <2> QED BY <2>3, <2>4 DEF m
<1>2. CASE Left(n) # {}
  <2>1. PICK p : p = FirstOf(Left(n))
    OBVIOUS
  <2>2. p \in Left(n) /\ p \in Providers
    <3>1. Left(n) \in SUBSET Providers
      BY DEF Left, Tried, Routes
    <3> QED BY <1>2, <2>1, <3>1, FirstIsOne
  <2>3. m = [at |-> "asking", outcome |-> n.outcome, candidates |-> n.candidates,
             direct |-> n.direct, provider |-> p, attempt |-> 1,
             attempted |-> n.attempted, failures |-> n.failures, sorts |-> n.sorts]
    BY <1>2, <2>1 DEF Onward, Tried, Routes
  <2>4. 1 \in 1 .. MaxPerProvider
    <3>1. MaxPerProvider \in Nat /\ MaxPerProvider # 0
      BY ImageProvidersAssumption
    <3> QED BY <3>1
  <2> HIDE DEF m
  <2>5. m \in Routes
    BY <2>2, <2>3, <2>4 DEF Tried, Routes
  <2>6. OneByOne(m)
    BY <2>2, <2>3 DEF OneByOne, Tried, Left
  <2>7. EndsForAReason(m)
    BY <2>3 DEF EndsForAReason
  <2> QED BY <2>5, <2>6, <2>7 DEF m, RouteOK
<1> QED BY <1>1, <1>2

LEMMA AgainWell ==
    ASSUME NEW n, Tried(n), "fatal" \notin n.sorts, n.attempt < MaxPerProvider,
           NEW at \in {"sleeping", "asking"}
    PROVE  Again(n, at) \in Routes /\ RouteOK(Again(n, at))
<1> DEFINE m == Again(n, at)
<1>1. m = [at |-> at, outcome |-> n.outcome, candidates |-> n.candidates,
           direct |-> n.direct, provider |-> n.provider, attempt |-> n.attempt + 1,
           attempted |-> n.attempted, failures |-> n.failures, sorts |-> n.sorts]
  <2>1. PICK k \in Routes : k = n
    BY DEF Tried
  <2>2. Again(n, at) = [k EXCEPT !.at = at, !.attempt = @ + 1]
    BY <2>1 DEF Again
  <2> QED BY <2>1, <2>2 DEF Routes
<1>2. n.attempt \in 1 .. MaxPerProvider /\ MaxPerProvider \in Nat
  BY ImageProvidersAssumption DEF Tried, Routes
<1>3. n.attempt + 1 \in 1 .. MaxPerProvider /\ n.attempt = (n.attempt + 1) - 1
  BY <1>2
<1> HIDE DEF m
<1>4. m \in Routes
  BY <1>1, <1>3 DEF Tried, Routes
<1>5. OneByOne(m)
  BY <1>1, <1>3 DEF OneByOne, Tried
<1>6. EndsForAReason(m)
  BY <1>1 DEF EndsForAReason, Tried
<1> QED BY <1>4, <1>5, <1>6 DEF m, RouteOK

LEMMA RaisedWell ==
    ASSUME NEW n, Tried(n), "fatal" \in n.sorts \/ ~autoFallback
    PROVE  Over(n, "raised") \in Routes /\ RouteOK(Over(n, "raised"))
<1> DEFINE m == Over(n, "raised")
<1>1. m = [at |-> "failed", outcome |-> "raised", candidates |-> n.candidates,
           direct |-> n.direct, provider |-> n.provider, attempt |-> n.attempt,
           attempted |-> n.attempted, failures |-> n.failures, sorts |-> n.sorts]
  <2>1. PICK k \in Routes : k = n
    BY DEF Tried
  <2>2. Over(n, "raised") = [k EXCEPT !.at = "failed", !.outcome = "raised"]
    BY <2>1 DEF Over
  <2> QED BY <2>1, <2>2 DEF Routes
<1> HIDE DEF m
<1>2. m \in Routes
  BY <1>1 DEF Tried, Routes
<1>3. RouteOK(m)
  BY <1>1 DEF RouteOK, OneByOne, EndsForAReason, Tried
<1> QED BY <1>2, <1>3 DEF m

LEMMA FailedWell ==
    ASSUME NEW r \in ImageRequests, NEW fault \in Errors \cup {NoImages, Unexpected},
           routing[r] \in Routes, RouteOK(routing[r]), routing[r].at = "waiting",
           ~routing[r].direct
    PROVE  LET n == Noted(r, fault)
           IN /\ Tried(n) /\ n.candidates = routing[r].candidates /\ n.direct = routing[r].direct
              /\ "fatal" \in n.sorts <=> fault.sort = "fatal"
              /\ ~autoFallback /\ fault.sort = "unexpected" => "unexpected" \in n.sorts
<1>0. fault.sort \in {"again", "next", "unexpected", "fatal"}
  BY DEF Errors, NoImages, Unexpected
<1>1. PICK q \in Routes : q = routing[r]
  OBVIOUS
<1>2. PICK n : n = Noted(r, fault)
  OBVIOUS
<1>3. /\ n \in Routes /\ n.at = "waiting" /\ n.outcome = q.outcome
      /\ n.candidates = q.candidates /\ n.direct = q.direct /\ n.provider = q.provider
      /\ n.attempt = q.attempt /\ n.attempted = q.attempted
      /\ n.sorts = q.sorts \cup ({fault.sort} \cap Special)
      /\ n.failures[q.provider] = q.attempt
      /\ \A p \in Providers \ {q.provider} : n.failures[p] = q.failures[p]
  BY <1>1, <1>2, <1>0, NotedWell
<1>4. OneByOne(q) /\ EndsForAReason(q) /\ q.at = "waiting" /\ ~q.direct
  BY <1>1 DEF RouteOK
<1>5. q.candidates \subseteq Providers /\ q.attempt \in 1 .. MaxPerProvider
  BY DEF Routes
<1>6. q.attempt > 0
  BY <1>5
<1>7. Tried(n)
  BY <1>3, <1>4, <1>5, <1>6 DEF Tried, OneByOne, EndsForAReason
<1>8. "fatal" \notin q.sorts
  BY <1>4 DEF EndsForAReason
<1> QED BY <1>1, <1>2, <1>3, <1>7, <1>8, <1>0 DEF Special

\* A request that goes on is the one it was, and has no images yet.
SameRequest(q, was) ==
    q.candidates = was.candidates /\ q.direct = was.direct /\ q.at # "done"

LEMMA AfterWell ==
    ASSUME NEW r \in ImageRequests, routing[r] \in Routes, RouteOK(routing[r]),
           routing[r].at = "waiting", ~routing[r].direct
    PROVE  /\ \A fault \in Errors \cup {NoImages} :
                 LET q == AfterFailure(Noted(r, fault), fault)
                 IN q \in Routes /\ RouteOK(q) /\ SameRequest(q, routing[r])
           /\ LET q == AfterBreak(Noted(r, Unexpected))
              IN q \in Routes /\ RouteOK(q) /\ SameRequest(q, routing[r])
<1>1. ASSUME NEW fault \in Errors \cup {NoImages}
      PROVE  LET q == AfterFailure(Noted(r, fault), fault)
             IN q \in Routes /\ RouteOK(q) /\ SameRequest(q, routing[r])
  <2>1. fault \in Errors \cup {NoImages, Unexpected} /\ fault.sort \in {"again", "next", "fatal"}
    BY DEF Errors, NoImages
  <2>2. PICK n : n = Noted(r, fault)
    OBVIOUS
  <2>3. /\ Tried(n) /\ n.candidates = routing[r].candidates /\ n.direct = routing[r].direct
        /\ "fatal" \in n.sorts <=> fault.sort = "fatal"
    BY <2>1, <2>2, FailedWell
  <2>4. PICK q : q = AfterFailure(n, fault)
    OBVIOUS
  <2>5. ASSUME fault.sort = "again" /\ n.attempt < MaxPerProvider
        PROVE  q \in Routes /\ RouteOK(q)
    <3>1. q = Again(n, "sleeping")
      BY <2>4, <2>5 DEF AfterFailure
    <3> QED BY <2>1, <2>3, <2>5, <3>1, AgainWell
  <2>6. ASSUME ~(fault.sort = "again" /\ n.attempt < MaxPerProvider) /\ (~autoFallback \/ fault.sort = "fatal")
        PROVE  q \in Routes /\ RouteOK(q)
    <3>1. q = Over(n, "raised")
      BY <2>4, <2>6 DEF AfterFailure
    <3> QED BY <2>1, <2>3, <2>6, <3>1, RaisedWell
  <2>7. ASSUME ~(fault.sort = "again" /\ n.attempt < MaxPerProvider) /\ autoFallback /\ fault.sort # "fatal"
        PROVE  q \in Routes /\ RouteOK(q)
    <3>1. q = Onward(n)
      BY <2>4, <2>7 DEF AfterFailure
    <3> QED BY <2>1, <2>3, <2>7, <3>1, OnwardWell
  <2>8. q.candidates = n.candidates /\ q.direct = n.direct
    BY <2>3, <2>4 DEF AfterFailure, Again, Over, Onward, Tried, Routes
  <2>9. q.at # "done"
    BY <2>3, <2>4 DEF AfterFailure, Again, Over, Onward, Tried, Routes
  <2> QED BY <2>2, <2>3, <2>4, <2>5, <2>6, <2>7, <2>8, <2>9 DEF SameRequest
<1>2. LET q == AfterBreak(Noted(r, Unexpected))
      IN q \in Routes /\ RouteOK(q) /\ SameRequest(q, routing[r])
  <2>1. Unexpected \in Errors \cup {NoImages, Unexpected} /\ Unexpected.sort = "unexpected"
    BY DEF Unexpected
  <2>2. PICK n : n = Noted(r, Unexpected)
    OBVIOUS
  <2>3. /\ Tried(n) /\ n.candidates = routing[r].candidates /\ n.direct = routing[r].direct
        /\ "fatal" \notin n.sorts
        /\ ~autoFallback => "unexpected" \in n.sorts
    BY <2>1, <2>2, FailedWell
  <2>4. PICK q : q = AfterBreak(n)
    OBVIOUS
  <2>5. ASSUME autoFallback /\ Left(n) # {} /\ n.attempt < MaxPerProvider
        PROVE  q \in Routes /\ RouteOK(q)
    <3>1. q = Again(n, "asking")
      BY <2>4, <2>5 DEF AfterBreak
    <3> QED BY <2>3, <2>5, <3>1, AgainWell
  <2>6. ASSUME ~(autoFallback /\ Left(n) # {} /\ n.attempt < MaxPerProvider)
        PROVE  q \in Routes /\ RouteOK(q)
    <3>1. q = Onward(n)
      BY <2>4, <2>6 DEF AfterBreak
    <3> QED BY <2>3, <3>1, OnwardWell
  <2>7. q.candidates = n.candidates /\ q.direct = n.direct
    BY <2>3, <2>4 DEF AfterBreak, Again, Over, Onward, Tried, Routes
  <2>8. q.at # "done"
    BY <2>3, <2>4 DEF AfterBreak, Again, Over, Onward, Tried, Routes
  <2> QED BY <2>2, <2>3, <2>4, <2>5, <2>6, <2>7, <2>8 DEF SameRequest
<1> QED BY <1>1, <1>2

(* ------------------------- all of the requests ------------------------- *)

RoutingTyped ==
    /\ able \subseteq Providers /\ autoFallback \in BOOLEAN /\ clock \in Nat
    /\ cooldown \in [Providers -> Nat] /\ demanded \in [Providers -> Nat]
    /\ served \in [Providers -> Nat] /\ resting \in [ImageRequests -> SUBSET Providers]
RoutesWell ==
    /\ routing \in [ImageRequests -> Answered]
    /\ \A r \in ImageRequests : routing[r] \in Routes => RouteOK(routing[r])
Counted == \A p \in Providers : served[p] = Cardinality(ServedBy(p))
\* A candidate that was to rest when the request came, and has not failed since, was
\* let off by a later failure.
LetOff ==
    \A r \in ImageRequests : routing[r] \in Routes /\ ~routing[r].direct =>
        \A p \in routing[r].candidates \cap resting[r] : cooldown[p] < demanded[p]
RoutingInvariant == RoutingTyped /\ RoutesWell /\ Counted /\ LetOff

\* Where a request has come to tells what is known of it.
LEMMA AtTells ==
    ASSUME NEW q \in Answered
    PROVE  /\ q.at \in {"asking", "waiting", "sleeping", "done"} => q \in Routes
           /\ q \in Routes => q \notin Unserved /\ q # NotAsked /\ q # Abandoned
<1>1. NotAsked.at = "idle" /\ Abandoned.at = "abandoned"
  BY DEF NotAsked, Abandoned
<1>2. \A k \in Unserved : k.at = "failed" /\ k.outcome = "unsupported"
  BY DEF Unserved
<1>3. \A k \in Routes : /\ k.at \in {"asking", "waiting", "sleeping", "done", "failed"}
                        /\ k.outcome \in {"none", "images", "raised", "unavailable"}
  BY DEF Routes
<1>4. q = NotAsked \/ q = Abandoned \/ q \in Unserved \/ q \in Routes
  BY DEF Answered
<1> QED BY <1>1, <1>2, <1>3, <1>4

\* A step of one request that is not its delivery.
LEMMA OneMoves ==
    ASSUME RoutingInvariant, NEW r \in ImageRequests, NEW m \in Answered,
           routing' = [routing EXCEPT ![r] = m], routing[r].at # "done", m.at # "done",
           m \in Routes => RouteOK(m), UNCHANGED <<able, autoFallback, served>>
    PROVE  RoutesWell' /\ Counted'
<1>1. routing \in [ImageRequests -> Answered]
  BY DEF RoutingInvariant, RoutesWell
<1>2. \A s \in ImageRequests : routing'[s] = IF s = r THEN m ELSE routing[s]
  BY <1>1
<1>3. \A q : RouteOK(q) => RouteOK(q)'
  BY DEF RouteOK, OneByOne, EndsForAReason
<1>4. RoutesWell'
  <2>1. routing' \in [ImageRequests -> Answered]
    <3>1. Answered' = Answered
      BY DEF Answered, Routes, Unserved, NotAsked, Abandoned
    <3> QED BY <1>1
  <2>2. ASSUME NEW s \in ImageRequests, routing'[s] \in Routes PROVE RouteOK(routing[s])'
    <3>1. PICK q : q = routing'[s]
      OBVIOUS
    <3>2. RouteOK(q)
      BY <1>2, <2>2, <3>1 DEF RoutingInvariant, RoutesWell
    <3> QED BY <1>3, <3>1, <3>2
  <2> QED BY <2>1, <2>2 DEF RoutesWell
<1>5. Counted'
  <2>1. ASSUME NEW p \in Providers PROVE ServedBy(p)' = ServedBy(p)
    BY <1>2 DEF ServedBy, Is
  <2> QED BY <2>1 DEF RoutingInvariant, Counted
<1> QED BY <1>4, <1>5

\* It goes on with the candidates it had, and no provider has failed.
LEMMA GoesOnResting ==
    ASSUME RoutingInvariant, NEW r \in ImageRequests, NEW m \in Answered,
           routing' = [routing EXCEPT ![r] = m], UNCHANGED <<clock, able, autoFallback, cooldown, history>>,
           served' \in [Providers -> Nat],
           m \in Routes => /\ routing[r] \in Routes /\ m.direct = routing[r].direct
                           /\ m.candidates = routing[r].candidates
    PROVE  RoutingTyped' /\ LetOff'
<1>1. routing \in [ImageRequests -> Answered]
  BY DEF RoutingInvariant, RoutesWell
<1>2. \A s \in ImageRequests : routing'[s] = IF s = r THEN m ELSE routing[s]
  BY <1>1
<1>3. RoutingTyped'
  BY DEF RoutingInvariant, RoutingTyped, history
<1>4. LetOff'
  BY <1>2 DEF RoutingInvariant, LetOff, history
<1> QED BY <1>3, <1>4

\* It goes on, and its provider may have failed.
LEMMA FailsResting ==
    ASSUME RoutingInvariant, NEW r \in ImageRequests, NEW m \in Answered, NEW p \in Providers,
           NEW fault \in Errors \cup {NoImages, Unexpected}, MarkFailure(p, fault),
           routing' = [routing EXCEPT ![r] = m], UNCHANGED <<clock, able, autoFallback, served>>,
           routing[r] \in Routes, m.direct = routing[r].direct, m.candidates = routing[r].candidates
    PROVE  RoutingTyped' /\ LetOff'
<1>1. CASE fault.sort = "fatal"
  BY <1>1, GoesOnResting DEF MarkFailure, RoutingInvariant, RoutingTyped
<1>2. CASE fault.sort # "fatal"
  <2>1. PICK until : until = clock + (IF fault.after > 0 THEN fault.after ELSE DefaultCooldown)
    OBVIOUS
  <2>2. clock \in Nat /\ DefaultCooldown \in Nat /\ RetryAfter \subseteq Nat
    BY ImageProvidersAssumption DEF RoutingInvariant, RoutingTyped
  <2>3. fault.after \in Nat
    <3>1. fault.after \in RetryAfter \cup {0}
      BY DEF Errors, NoImages, Unexpected
    <3>2. RetryAfter \subseteq Nat /\ 0 \in Nat
      BY <2>2
    <3>3. RetryAfter \cup {0} \subseteq Nat
      BY <3>2
    <3> QED BY <3>1, <3>3
  <2>4. until \in Nat
    <3>1. PICK wait : wait = IF fault.after > 0 THEN fault.after ELSE DefaultCooldown
      OBVIOUS
    <3>2. wait = fault.after \/ wait = DefaultCooldown
      BY <3>1
    <3>3. until = clock + wait
      BY <2>1, <3>1
    <3>4. wait \in Nat
      BY <2>2, <2>3, <3>2
    <3> QED BY <2>2, <3>3, <3>4
  <2>5. /\ cooldown' = [cooldown EXCEPT ![p] = until]
        /\ demanded' = [demanded EXCEPT ![p] = IF until > @ THEN until ELSE @]
        /\ resting' = [s \in ImageRequests |-> resting[s] \ {p}]
    BY <1>2, <2>1 DEF MarkFailure
  <2>6. RoutingTyped'
    <3>1. PICK asked : asked = IF until > demanded[p] THEN until ELSE demanded[p]
      OBVIOUS
    <3>2. asked \in Nat /\ demanded' = [demanded EXCEPT ![p] = asked]
      BY <2>4, <2>5, <3>1 DEF RoutingInvariant, RoutingTyped
    <3>3. cooldown' \in [Providers -> Nat] /\ demanded' \in [Providers -> Nat]
      BY <2>4, <2>5, <3>2 DEF RoutingInvariant, RoutingTyped
    <3>4. resting' \in [ImageRequests -> SUBSET Providers]
      BY <2>5 DEF RoutingInvariant, RoutingTyped
    <3> QED BY <3>3, <3>4 DEF RoutingInvariant, RoutingTyped
  <2>7. routing \in [ImageRequests -> Answered]
    BY DEF RoutingInvariant, RoutesWell
  <2>8. \A s \in ImageRequests : routing'[s] = IF s = r THEN m ELSE routing[s]
    BY <2>7
  <2>9. ASSUME NEW s \in ImageRequests, routing'[s] \in Routes, ~routing'[s].direct,
               NEW x \in routing'[s].candidates \cap resting'[s]
        PROVE  cooldown'[x] < demanded'[x]
    <3>1. x # p /\ x \in resting[s] /\ x \in Providers
      BY <2>5 DEF RoutingInvariant, RoutingTyped
    <3>2. routing[s] \in Routes /\ ~routing[s].direct /\ x \in routing[s].candidates
      BY <2>8, <2>9
    <3>3. cooldown[x] < demanded[x]
      BY <3>1, <3>2 DEF RoutingInvariant, LetOff
    <3>4. cooldown'[x] = cooldown[x] /\ demanded'[x] = demanded[x]
      BY <2>5, <3>1 DEF RoutingInvariant, RoutingTyped
    <3> QED BY <3>3, <3>4
  <2>10. LetOff'
    BY <2>9 DEF LetOff
  <2> QED BY <2>6, <2>10
<1> QED BY <1>1, <1>2

LEMMA RoutingStarts == RoutingInit => RoutingInvariant
<1> SUFFICES ASSUME RoutingInit PROVE RoutingInvariant
  OBVIOUS
<1>1. RoutingTyped
  BY ImageProvidersAssumption DEF RoutingInit, RoutingTyped
<1>2. \A r \in ImageRequests : routing[r] = NotAsked /\ routing[r] \in Answered /\ routing[r] \notin Routes
  <2>1. NotAsked \in Answered
    BY DEF Answered
  <2> QED BY <2>1, AtTells DEF RoutingInit
<1>3. RoutesWell /\ LetOff
  <2>1. routing \in [ImageRequests -> Answered]
    BY <1>2 DEF RoutingInit
  <2> QED BY <1>2, <2>1 DEF RoutesWell, LetOff
<1>4. Counted
  <2>1. ASSUME NEW p \in Providers PROVE ServedBy(p) = {}
    BY <1>2 DEF ServedBy, Is, NotAsked
  <2> QED BY <2>1, FS_EmptySet DEF Counted, RoutingInit
<1> QED BY <1>1, <1>3, <1>4 DEF RoutingInvariant

LEMMA RequestBegins ==
    ASSUME RoutingInvariant, NEW r \in ImageRequests,
           NEW named, NEW candidates \in SUBSET Providers, NEW direct \in BOOLEAN,
           Come(r, Begun(named, candidates, direct)),
           ~direct => \A p \in candidates : cooldown[p] <= clock
    PROVE  RoutingInvariant'
<1>2. PICK m : m = Begun(named, candidates, direct)
  OBVIOUS
<1>3. /\ m \in Unserved \/ (m \in Routes /\ m.at = "asking" /\ m.direct = direct
                              /\ m.candidates = candidates /\ RouteOK(m))
  BY <1>2, BegunWell
<1>4. /\ m \in Answered /\ m.at # "done" /\ (m \in Routes => RouteOK(m))
      /\ m \in Routes => m.direct = direct /\ m.candidates = candidates
  <2>1. m \in Answered
    BY <1>3 DEF Answered
  <2>2. m \in Unserved => m.at = "failed"
    BY DEF Unserved
  <2> QED BY <1>3, <2>1, <2>2, AtTells
<1>5. /\ routing[r] = NotAsked /\ routing' = [routing EXCEPT ![r] = m]
      /\ resting' = [resting EXCEPT ![r] = {p \in Providers : demanded[p] > clock}]
      /\ UNCHANGED <<able, autoFallback, clock, cooldown, served, demanded>>
  BY <1>2 DEF Come
<1>6. RoutesWell' /\ Counted'
  <2>1. routing[r].at # "done"
    BY <1>5 DEF NotAsked
  <2> QED BY <1>4, <1>5, <2>1, OneMoves
<1>7. RoutingTyped'
  BY <1>5 DEF RoutingInvariant, RoutingTyped
<1>8. LetOff'
  <2>1. \A s \in ImageRequests : routing'[s] = IF s = r THEN m ELSE routing[s]
    BY <1>5 DEF RoutingInvariant, RoutesWell
  <2>2. ASSUME NEW s \in ImageRequests, routing'[s] \in Routes, ~routing'[s].direct,
               NEW x \in routing'[s].candidates \cap resting'[s]
        PROVE  cooldown[x] < demanded[x]
    <3>1. CASE s = r
      <4>1. x \in candidates /\ ~direct /\ demanded[x] > clock /\ x \in Providers
        BY <1>4, <1>5, <2>1, <2>2, <3>1 DEF RoutingInvariant, RoutingTyped
      <4>2. cooldown[x] \in Nat /\ demanded[x] \in Nat /\ clock \in Nat
        BY <4>1 DEF RoutingInvariant, RoutingTyped
      <4> QED BY <4>1, <4>2
    <3>2. CASE s # r
      BY <1>5, <2>1, <2>2, <3>2 DEF RoutingInvariant, RoutingTyped, LetOff
    <3> QED BY <3>1, <3>2
  <2> QED BY <1>5, <2>2 DEF LetOff
<1> QED BY <1>6, <1>7, <1>8 DEF RoutingInvariant

LEMMA RequestComes ==
    ASSUME RoutingInvariant, NEW r \in ImageRequests, AskForImages(r) \/ AskDirectly(r)
    PROVE  RoutingInvariant'
<1>1. CASE AskForImages(r)
  <2>1. PICK named \in Providers \cup {Nobody} : Come(r, Begun(named, Candidates, FALSE))
    BY <1>1 DEF AskForImages
  <2>2. Candidates \in SUBSET Providers /\ \A p \in Candidates : cooldown[p] <= clock
    BY DEF Candidates, RoutingInvariant, RoutingTyped
  <2> QED BY <2>1, <2>2, RequestBegins
<1>2. CASE AskDirectly(r)
  <2>1. PICK candidates \in {{}, {Direct}} : Come(r, Begun(Direct, candidates, TRUE))
    BY <1>2 DEF AskDirectly
  <2>2. candidates \in SUBSET Providers
    BY ImageProvidersAssumption
  <2> QED BY <2>1, <2>2, RequestBegins
<1> QED BY <1>1, <1>2

LEMMA ProviderAnswersNot ==
    ASSUME RoutingInvariant, NEW r \in ImageRequests, ProviderFails(r) \/ ProviderBreaks(r)
    PROVE  RoutingInvariant'
<1>1. routing[r] \in Routes /\ RouteOK(routing[r]) /\ routing[r].at = "waiting" /\ ~routing[r].direct
  BY AtTells DEF ProviderFails, ProviderBreaks, RoutingInvariant, RoutesWell
<1>2. routing[r].provider \in Providers
  BY <1>1 DEF Routes
<1>3. PICK m \in Routes, fault \in Errors \cup {NoImages, Unexpected} :
          /\ RouteOK(m) /\ SameRequest(m, routing[r])
          /\ MarkFailure(routing[r].provider, fault) /\ routing' = [routing EXCEPT ![r] = m]
          /\ UNCHANGED <<able, autoFallback, clock, served>>
  <2>1. CASE ProviderFails(r)
    <3>1. PICK fault \in Errors \cup {NoImages} :
              /\ MarkFailure(routing[r].provider, fault)
              /\ routing' = [routing EXCEPT ![r] = AfterFailure(Noted(r, fault), fault)]
      BY <2>1 DEF ProviderFails
    <3>2. PICK m : m = AfterFailure(Noted(r, fault), fault)
      OBVIOUS
    <3>3. m \in Routes /\ RouteOK(m) /\ SameRequest(m, routing[r])
      BY <1>1, <3>2, AfterWell
    <3> QED BY <2>1, <3>1, <3>2, <3>3 DEF ProviderFails
  <2>2. CASE ProviderBreaks(r)
    <3>1. PICK m : m = AfterBreak(Noted(r, Unexpected))
      OBVIOUS
    <3>2. m \in Routes /\ RouteOK(m) /\ SameRequest(m, routing[r])
      BY <1>1, <3>1, AfterWell
    <3> QED BY <2>2, <3>1, <3>2 DEF ProviderBreaks
  <2> QED BY <2>1, <2>2
<1>4. m \in Answered
  BY DEF Answered
<1>5. RoutesWell' /\ Counted'
  BY <1>1, <1>3, <1>4, OneMoves DEF SameRequest
<1>6. RoutingTyped' /\ LetOff'
  BY <1>1, <1>2, <1>3, <1>4, FailsResting DEF SameRequest
<1> QED BY <1>5, <1>6 DEF RoutingInvariant

\* A route with another place and outcome, or other providers asked.
LEMMA RouteMoved ==
    ASSUME NEW q \in Routes, NEW at, NEW outcome
    PROVE  [q EXCEPT !.at = at, !.outcome = outcome] =
           [at |-> at, outcome |-> outcome, candidates |-> q.candidates,
            direct |-> q.direct, provider |-> q.provider, attempt |-> q.attempt,
            attempted |-> q.attempted, failures |-> q.failures, sorts |-> q.sorts]
<1>1. PICK k : k = [q EXCEPT !.at = at]
  OBVIOUS
<1>2. k = [at |-> at, outcome |-> q.outcome, candidates |-> q.candidates,
            direct |-> q.direct, provider |-> q.provider, attempt |-> q.attempt,
            attempted |-> q.attempted, failures |-> q.failures, sorts |-> q.sorts]
  BY <1>1 DEF Routes
<1>3. [k EXCEPT !.outcome = outcome] =
           [at |-> at, outcome |-> outcome, candidates |-> q.candidates,
            direct |-> q.direct, provider |-> q.provider, attempt |-> q.attempt,
            attempted |-> q.attempted, failures |-> q.failures, sorts |-> q.sorts]
  BY <1>2
<1> QED BY <1>1, <1>3
LEMMA RouteAsks ==
    ASSUME NEW q \in Routes, NEW at, NEW asked
    PROVE  [q EXCEPT !.at = at, !.attempted = asked] =
           [at |-> at, outcome |-> q.outcome, candidates |-> q.candidates,
            direct |-> q.direct, provider |-> q.provider, attempt |-> q.attempt,
            attempted |-> asked, failures |-> q.failures, sorts |-> q.sorts]
<1>1. PICK k : k = [q EXCEPT !.at = at]
  OBVIOUS
<1>2. k = [at |-> at, outcome |-> q.outcome, candidates |-> q.candidates,
            direct |-> q.direct, provider |-> q.provider, attempt |-> q.attempt,
            attempted |-> q.attempted, failures |-> q.failures, sorts |-> q.sorts]
  BY <1>1 DEF Routes
<1>3. [k EXCEPT !.attempted = asked] =
           [at |-> at, outcome |-> q.outcome, candidates |-> q.candidates,
            direct |-> q.direct, provider |-> q.provider, attempt |-> q.attempt,
            attempted |-> asked, failures |-> q.failures, sorts |-> q.sorts]
  BY <1>2
<1> QED BY <1>1, <1>3

LEMMA RequestGoesOn ==
    ASSUME RoutingInvariant, NEW r \in ImageRequests,
           AskProvider(r) \/ DirectFails(r) \/ Wake(r) \/ Abandon(r)
    PROVE  RoutingInvariant'
<1>1. PICK q \in Routes : q = routing[r]
  BY AtTells DEF AskProvider, DirectFails, Wake, Abandon, RoutingInvariant, RoutesWell
<1>2. RouteOK(q)
  BY <1>1 DEF RoutingInvariant, RoutesWell
<1>3. PICK m \in Answered :
          /\ routing' = [routing EXCEPT ![r] = m] /\ m.at # "done" /\ q.at # "done"
          /\ m \in Routes => RouteOK(m) /\ m.direct = q.direct /\ m.candidates = q.candidates
  <2>1. CASE AskProvider(r)
    <3> DEFINE m == [q EXCEPT !.at = "waiting", !.attempted = q.attempted \cup {q.provider}]
    <3>1. m = [at |-> "waiting", outcome |-> q.outcome, candidates |-> q.candidates,
               direct |-> q.direct, provider |-> q.provider, attempt |-> q.attempt,
               attempted |-> q.attempted \cup {q.provider}, failures |-> q.failures, sorts |-> q.sorts]
      BY RouteAsks
    <3>2. routing' = [routing EXCEPT ![r] = m] /\ q.at = "asking"
      BY <1>1, <2>1 DEF AskProvider
    <3> HIDE DEF m
    <3>3. m \in Routes
      BY <3>1 DEF Routes
    <3>4. OneByOne(m)
      BY <1>2, <3>1, <3>2 DEF RouteOK, OneByOne
    <3>5. EndsForAReason(m)
      BY <1>2, <3>1, <3>2 DEF RouteOK, EndsForAReason
    <3>6. m \in Answered /\ RouteOK(m)
      BY <3>3, <3>4, <3>5 DEF Answered, RouteOK
    <3>7. m.at # "done" /\ q.at # "done" /\ m.direct = q.direct /\ m.candidates = q.candidates
      BY <3>1, <3>2
    <3> QED BY <3>2, <3>6, <3>7
  <2>2. CASE DirectFails(r)
    <3> DEFINE m == Over(q, "raised")
    <3>1. m = [at |-> "failed", outcome |-> "raised", candidates |-> q.candidates,
               direct |-> q.direct, provider |-> q.provider, attempt |-> q.attempt,
               attempted |-> q.attempted, failures |-> q.failures, sorts |-> q.sorts]
      BY RouteMoved DEF Over
    <3>2. routing' = [routing EXCEPT ![r] = m] /\ q.at = "waiting" /\ q.direct
      BY <1>1, <2>2 DEF DirectFails
    <3> HIDE DEF m
    <3>3. m \in Routes
      BY <3>1 DEF Routes
    <3>4. OneByOne(m)
      BY <1>2, <3>1, <3>2 DEF RouteOK, OneByOne
    <3>5. EndsForAReason(m)
      BY <1>2, <3>1, <3>2 DEF RouteOK, EndsForAReason
    <3>6. m \in Answered /\ RouteOK(m)
      BY <3>3, <3>4, <3>5 DEF Answered, RouteOK
    <3>7. m.at # "done" /\ q.at # "done" /\ m.direct = q.direct /\ m.candidates = q.candidates
      BY <3>1, <3>2
    <3> QED BY <3>2, <3>6, <3>7
  <2>3. CASE Wake(r)
    <3> DEFINE m == [q EXCEPT !.at = "asking"]
    <3>1. m = [at |-> "asking", outcome |-> q.outcome, candidates |-> q.candidates,
               direct |-> q.direct, provider |-> q.provider, attempt |-> q.attempt,
               attempted |-> q.attempted, failures |-> q.failures, sorts |-> q.sorts]
      BY DEF Routes
    <3>2. routing' = [routing EXCEPT ![r] = m] /\ q.at = "sleeping"
      BY <1>1, <2>3 DEF Wake
    <3> HIDE DEF m
    <3>3. m \in Routes
      BY <3>1 DEF Routes
    <3>4. OneByOne(m)
      BY <1>2, <3>1, <3>2 DEF RouteOK, OneByOne
    <3>5. EndsForAReason(m)
      BY <1>2, <3>1, <3>2 DEF RouteOK, EndsForAReason
    <3>6. m \in Answered /\ RouteOK(m)
      BY <3>3, <3>4, <3>5 DEF Answered, RouteOK
    <3>7. m.at # "done" /\ q.at # "done" /\ m.direct = q.direct /\ m.candidates = q.candidates
      BY <3>1, <3>2
    <3> QED BY <3>2, <3>6, <3>7
  <2>4. CASE Abandon(r)
    <3>1. routing' = [routing EXCEPT ![r] = Abandoned] /\ q.at # "done"
      BY <1>1, <2>4 DEF Abandon
    <3>2. Abandoned \in Answered /\ Abandoned.at # "done"
      BY DEF Answered, Abandoned
    <3>3. Abandoned \notin Routes
      BY <3>2, AtTells
    <3> QED BY <3>1, <3>2, <3>3
  <2> QED BY <2>1, <2>2, <2>3, <2>4
<1>4. UNCHANGED <<able, autoFallback, clock, cooldown, served, history>>
  BY DEF AskProvider, DirectFails, Wake, Abandon
<1>5. RoutesWell' /\ Counted'
  BY <1>1, <1>3, <1>4, OneMoves
<1>6. RoutingTyped' /\ LetOff'
  <2>1. served' \in [Providers -> Nat]
    BY <1>4 DEF RoutingInvariant, RoutingTyped
  <2> QED BY <1>1, <1>3, <1>4, <2>1, GoesOnResting
<1> QED BY <1>5, <1>6 DEF RoutingInvariant

\* Images that come are counted, of the provider they came from.
LEMMA RequestIsServed ==
    ASSUME RoutingInvariant, NEW r \in ImageRequests, Deliver(r)
    PROVE  RoutingInvariant'
<1>1. PICK q \in Routes : q = routing[r]
  BY AtTells DEF Deliver, RoutingInvariant, RoutesWell
<1> DEFINE m == [q EXCEPT !.at = "done", !.outcome = "images"]
<1>2. m = [at |-> "done", outcome |-> "images", candidates |-> q.candidates,
           direct |-> q.direct, provider |-> q.provider, attempt |-> q.attempt,
           attempted |-> q.attempted, failures |-> q.failures, sorts |-> q.sorts]
  BY RouteMoved
<1>3. /\ routing' = [routing EXCEPT ![r] = m] /\ q.at = "waiting" /\ q.provider \in able
      /\ served' = [served EXCEPT ![q.provider] = @ + 1]
      /\ UNCHANGED <<able, autoFallback, clock, cooldown, history>>
  BY <1>1 DEF Deliver
<1> HIDE DEF m
<1>4. m \in Routes /\ m \in Answered
  BY <1>2 DEF Routes, Answered
<1>5. RouteOK(q)
  BY <1>1 DEF RoutingInvariant, RoutesWell
<1>6. RouteOK(m)
  <2>1. OneByOne(m)
    BY <1>2, <1>3, <1>5 DEF RouteOK, OneByOne
  <2>2. EndsForAReason(m)
    BY <1>2, <1>3, <1>5 DEF RouteOK, EndsForAReason
  <2> QED BY <2>1, <2>2 DEF RouteOK
<1>7. \A s \in ImageRequests : routing'[s] = IF s = r THEN m ELSE routing[s]
  BY <1>3 DEF RoutingInvariant, RoutesWell
<1>8. RoutesWell'
  <2>1. \A k : RouteOK(k) => RouteOK(k)'
    BY <1>3 DEF RouteOK, OneByOne, EndsForAReason
  <2>2. routing' \in [ImageRequests -> Answered]
    <3>1. Answered' = Answered
      BY DEF Answered, Routes, Unserved, NotAsked, Abandoned
    <3> QED BY <1>3, <1>4, <3>1 DEF RoutingInvariant, RoutesWell
  <2>3. ASSUME NEW s \in ImageRequests, routing'[s] \in Routes PROVE RouteOK(routing[s])'
    <3>1. PICK k : k = routing'[s]
      OBVIOUS
    <3>2. RouteOK(k)
      BY <1>6, <1>7, <2>3, <3>1 DEF RoutingInvariant, RoutesWell
    <3> QED BY <2>1, <3>1, <3>2
  <2> QED BY <2>2, <2>3 DEF RoutesWell
<1>9. q.provider \in Providers /\ served \in [Providers -> Nat]
  BY DEF Routes, RoutingInvariant, RoutingTyped
<1>10. Counted'
  <2> SUFFICES ASSUME NEW p \in Providers PROVE served'[p] = Cardinality(ServedBy(p)')
    BY DEF Counted
  <2>1. served[p] = Cardinality(ServedBy(p))
    BY DEF RoutingInvariant, Counted
  <2>2. CASE p = q.provider
    <3>1. ServedBy(p)' = ServedBy(p) \cup {r}
      BY <1>2, <1>7, <2>2 DEF ServedBy, Is
    <3>2. r \notin ServedBy(p)
      BY <1>1, <1>3 DEF ServedBy, Is
    <3>3. IsFiniteSet(ServedBy(p))
      <4>1. IsFiniteSet(ImageRequests) /\ ServedBy(p) \subseteq ImageRequests
        BY ImageProvidersAssumption DEF ServedBy
      <4> QED BY <4>1, FS_Subset
    <3>4. Cardinality(ServedBy(p) \cup {r}) = Cardinality(ServedBy(p)) + 1
      BY <3>2, <3>3, FS_AddElement
    <3>5. served'[p] = served[p] + 1
      BY <1>3, <1>9, <2>2
    <3> QED BY <2>1, <3>1, <3>4, <3>5
  <2>3. CASE p # q.provider
    <3>1. ServedBy(p)' = ServedBy(p)
      BY <1>1, <1>2, <1>3, <1>7, <2>3 DEF ServedBy, Is
    <3> QED BY <1>3, <1>9, <2>1, <2>3, <3>1
  <2> QED BY <2>2, <2>3
<1>11. RoutingTyped' /\ LetOff'
  <2>1. served' \in [Providers -> Nat]
    BY <1>3, <1>9
  <2>2. m.direct = q.direct /\ m.candidates = q.candidates
    BY <1>2
  <2> QED BY <1>1, <1>3, <1>4, <2>1, <2>2, GoesOnResting
<1> QED BY <1>8, <1>10, <1>11 DEF RoutingInvariant

LEMMA RoutingGoesOn == RoutingInvariant /\ [RoutingNext]_routingVars => RoutingInvariant'
<1> SUFFICES ASSUME RoutingInvariant, [RoutingNext]_routingVars PROVE RoutingInvariant'
  OBVIOUS
<1>1. ASSUME NEW r \in ImageRequests,
             AskForImages(r) \/ AskDirectly(r) \/ RoutingStep(r) \/ Abandon(r)
      PROVE  RoutingInvariant'
  BY <1>1, RequestComes, ProviderAnswersNot, RequestGoesOn, RequestIsServed DEF RoutingStep
<1>2. ASSUME Tick \/ UNCHANGED routingVars PROVE RoutingInvariant'
  <2>1. /\ UNCHANGED <<able, autoFallback, cooldown, served, routing, demanded, resting>>
        /\ clock' = clock \/ clock' = clock + 1
    BY <1>2 DEF Tick, routingVars, history
  <2>2. RoutingTyped' /\ LetOff'
    BY <2>1 DEF RoutingInvariant, RoutingTyped, LetOff
  <2>3. RoutesWell'
    <3>1. \A q : RouteOK(q) => RouteOK(q)'
      BY <2>1 DEF RouteOK, OneByOne, EndsForAReason
    <3>2. \A r \in ImageRequests : routing[r] \in Routes => RouteOK(routing[r])'
      <4>1. ASSUME NEW r \in ImageRequests, routing[r] \in Routes PROVE RouteOK(routing[r])'
        <5>1. PICK q : q = routing[r]
          OBVIOUS
        <5>2. RouteOK(q)
          BY <4>1, <5>1 DEF RoutingInvariant, RoutesWell
        <5>3. q = routing'[r]
          BY <2>1, <5>1
        <5> QED BY <3>1, <5>2, <5>3
      <4> QED BY <4>1
    <3>3. routing' \in [ImageRequests -> Answered']
      <4>1. Answered' = Answered
        BY DEF Answered, Routes, Unserved, NotAsked, Abandoned
      <4> QED BY <2>1, <4>1 DEF RoutingInvariant, RoutesWell
    <3> QED BY <2>1, <3>2, <3>3 DEF RoutesWell
  <2>4. Counted'
    BY <2>1 DEF RoutingInvariant, Counted, ServedBy, Is
  <2> QED BY <2>2, <2>3, <2>4 DEF RoutingInvariant
<1> QED BY <1>1, <1>2 DEF RoutingNext

LEMMA RoutingImplies == RoutingInvariant => ImagesAreOwn /\ FailsForAReason
<1> SUFFICES ASSUME RoutingInvariant PROVE ImagesAreOwn /\ FailsForAReason
  OBVIOUS
<1>1. \A r \in ImageRequests : routing[r] \in Answered /\ (routing[r] \in Routes => RouteOK(routing[r]))
  BY DEF RoutingInvariant, RoutesWell
<1>2. MaxPerProvider \in Nat
  BY ImageProvidersAssumption
<1>3. ASSUME NEW q \in Routes
      PROVE  /\ \A p \in Providers : q.failures[p] \in 0 .. MaxPerProvider
             /\ q.attempt \in 1 .. MaxPerProvider /\ q.candidates \subseteq Providers
             /\ q.provider \in Providers
  BY DEF Routes
<1>4. ImagesAreOwn
  <2>1. ASSUME NEW r \in ImageRequests, Is(r, "done")
        PROVE  LET p == routing[r].provider
               IN /\ p \in routing[r].attempted /\ p \in able
                  /\ \A q \in routing[r].attempted \ {p} :
                        routing[r].failures[q] \in 1 .. MaxPerProvider
                  /\ routing[r].failures[p] < MaxPerProvider
    <3>1. PICK q \in Routes : q = routing[r]
      BY <1>1, <2>1, AtTells DEF Is
    <3>2. RouteOK(q) /\ q.at = "done"
      BY <1>1, <2>1, <3>1 DEF Is
    <3>3. q.provider \in q.attempted /\ q.provider \in able /\ q.attempted \subseteq Providers
      BY <1>3, <3>2 DEF RouteOK, OneByOne, EndsForAReason
    <3>4. q.failures[q.provider] < MaxPerProvider
      <4>1. q.failures[q.provider] = q.attempt - 1
        BY <3>2 DEF RouteOK, OneByOne
      <4> QED BY <1>2, <1>3, <4>1
    <3>5. ASSUME NEW p \in q.attempted \ {q.provider} PROVE q.failures[p] \in 1 .. MaxPerProvider
      <4>1. q.failures[p] > 0
        BY <3>2 DEF RouteOK, OneByOne
      <4>2. q.failures[p] \in 0 .. MaxPerProvider
        BY <1>3, <3>3
      <4> QED BY <1>2, <4>1, <4>2
    <3> QED BY <3>1, <3>3, <3>4, <3>5
  <2> QED BY <2>1 DEF ImagesAreOwn, RoutingInvariant, Counted
<1>5. FailsForAReason
  <2> SUFFICES ASSUME NEW r \in ImageRequests, routing[r] \notin {NotAsked, Abandoned},
                      ~routing[r].direct
      PROVE  /\ Is(r, "failed") =>
                   \/ routing[r].outcome = "unsupported" /\ routing[r].candidates = {}
                   \/ routing[r].outcome = "raised" /\ ("fatal" \in routing[r].sorts \/ ~autoFallback)
                   \/ routing[r].candidates # {} /\ \A p \in routing[r].candidates :
                          routing[r].failures[p] \in 1 .. MaxPerProvider
             /\ "fatal" \in routing[r].sorts => Is(r, "failed")
             /\ ~autoFallback /\ routing[r].attempted # {} =>
                   "unexpected" \in routing[r].sorts \/ Cardinality(routing[r].attempted) = 1
    BY DEF FailsForAReason
  <2>1. CASE routing[r] \in Unserved
    <3>1. /\ routing[r].outcome = "unsupported" /\ routing[r].candidates = {}
          /\ routing[r].attempted = {} /\ routing[r].sorts = {}
      BY <2>1 DEF Unserved
    <3> QED BY <3>1
  <2>2. CASE routing[r] \in Routes
    <3>1. PICK q \in Routes : q = routing[r]
      BY <2>2
    <3>2. OneByOne(q) /\ EndsForAReason(q) /\ ~q.direct
      BY <1>1, <3>1 DEF RouteOK
    <3>3. q.at = "failed" =>
              \/ q.outcome = "raised" /\ ("fatal" \in q.sorts \/ ~autoFallback)
              \/ q.candidates # {} /\ \A p \in q.candidates : q.failures[p] \in 1 .. MaxPerProvider
      <4>1. \A p \in q.candidates : q.failures[p] > 0 => q.failures[p] \in 1 .. MaxPerProvider
        BY <1>2, <1>3
      <4> QED BY <3>2, <4>1 DEF OneByOne, EndsForAReason
    <3>4. "fatal" \in q.sorts => q.at = "failed"
      BY <3>2 DEF EndsForAReason
    <3>5. ~autoFallback /\ q.attempted # {} => "unexpected" \in q.sorts \/ Cardinality(q.attempted) = 1
      <4>1. SUFFICES ASSUME ~autoFallback, q.attempted # {}, "unexpected" \notin q.sorts
                     PROVE  Cardinality(q.attempted) = 1
        OBVIOUS
      <4>2. q.attempted = {q.provider}
        BY <3>2, <4>1 DEF EndsForAReason
      <4> QED BY <4>2, FS_Singleton
    <3> QED BY <3>1, <3>3, <3>4, <3>5 DEF Is
  <2> QED BY <1>1, <2>1, <2>2 DEF Answered
<1> QED BY <1>4, <1>5

\* Whatever providers answer, and whenever: each request keeps to what it was to ask,
\* and what is told of providers is so.
THEOREM RoutingIsTrueAlways == RoutingSpec => RoutingIsTrue
<1>1. RoutingInvariant =>
          \A r \in ImageRequests :
              routing[r].at = "asking" /\ routing'[r].at = "waiting" /\ ~routing[r].direct =>
                  LET p == routing[r].provider
                  IN p \in resting[r] => demanded[p] <= clock \/ cooldown[p] < demanded[p]
  <2> SUFFICES ASSUME RoutingInvariant, NEW r \in ImageRequests, routing[r].at = "asking",
                      ~routing[r].direct, routing[r].provider \in resting[r]
               PROVE  cooldown[routing[r].provider] < demanded[routing[r].provider]
    OBVIOUS
  <2>1. routing[r] \in Routes /\ RouteOK(routing[r])
    BY AtTells DEF RoutingInvariant, RoutesWell
  <2>2. routing[r].provider \in routing[r].candidates
    BY <2>1 DEF RouteOK, OneByOne
  <2> QED BY <2>1, <2>2 DEF RoutingInvariant, LetOff
<1> QED BY <1>1, RoutingStarts, RoutingGoesOn, RoutingImplies, PTL
        DEF RoutingSpec, RoutingIsTrue, RestRespected
=============================================================================
