-------------------------------- MODULE Feed ---------------------------------
(***************************************************************************)
(* The feeds of pipitor (src/feed.rs): what an Atom or RSS document says,  *)
(* as the sender sees it.                                                  *)
(*                                                                         *)
(* A document is [atom, rss]: what the reader of each format makes of its  *)
(* bytes, {} if that format's reader refuses them.  As in Manifest, an     *)
(* optional value is a set of at most one element.                         *)
(***************************************************************************)
EXTENDS Manifest

\* The first option that is there.
FirstPresent(options) ==
    LET there == {i \in DOMAIN options : options[i] # {}}
    IN  IF there = {} THEN {} ELSE options[Min(there)]

OrElse(option, other) == IF option # {} THEN option ELSE other

------------------------------------------------------------------------------
(* Media RSS.  The extensions of an item are a sequence over the namespace   *)
(* prefixes; an element has a `value`, and a `media:content` or a child      *)
(* `description`, each the sequence of the elements of that name.            *)

TakeDescription(elms) == FirstPresent([i \in DOMAIN elms |-> elms[i].value])

\* Only the first element with a description counts, even if that has no value.
TakeContentDescription(elms) ==
    LET described == {i \in DOMAIN elms : elms[i].description # <<>>}
    IN  IF described = {} THEN {} ELSE TakeDescription(elms[Min(described)].description)

\* What the prefixes that stand for Media RSS say: an item has `content`, `description` and
\* `group`, and a group has the first two.
FirstOf(extensions, Take(_)) ==
    FirstPresent([i \in DOMAIN extensions |->
        IF extensions[i].mrss THEN Take(extensions[i]) ELSE {}])

ContentDescription(m) ==
    OrElse(TakeContentDescription(m.content),
           FirstPresent([j \in DOMAIN m.group |-> TakeContentDescription(m.group[j].content)]))
GroupDescription(m) ==
    FirstPresent([j \in DOMAIN m.group |-> TakeDescription(m.group[j].description)])
EntryDescription(m) == TakeDescription(m.description)

\* Faulty variant: the description of the entry is preferred to those of its contents.
MediaDescription_entry(extensions) ==
    OrElse(FirstOf(extensions, EntryDescription),
           OrElse(FirstOf(extensions, ContentDescription), FirstOf(extensions, GroupDescription)))

\* `take_media_description`: a `media:content`'s description takes precedence over that of
\* a `media:group`, which takes precedence over that of the entry.
MediaDescription(extensions) ==
    OrElse(FirstOf(extensions, ContentDescription),
           OrElse(FirstOf(extensions, GroupDescription), FirstOf(extensions, EntryDescription)))

------------------------------------------------------------------------------
(* Entries.                                                                  *)

\* Faulty variant: the first link, whatever its relation.
AlternateLink_first(links) ==
    FirstPresent([i \in DOMAIN links |-> {links[i].href}])

\* The first alternate link, or the first link if there is no alternate one.
AlternateLink(links) ==
    LET alternate == {i \in DOMAIN links : links[i].rel = "alternate"}
    IN  IF alternate # {} THEN {links[Min(alternate)].href}
        ELSE FirstPresent([i \in DOMAIN links |-> {links[i].href}])

FromAtom(entry) ==
    [title |-> {entry.title}, id |-> {entry.id},
     link |-> AlternateLink(entry.links),
     summary |-> OrElse(entry.summary, MediaDescription(entry.extensions)),
     content |-> entry.content]

\* A `guid` serves as the link if it is a permalink.
FromRss(item) ==
    [title |-> item.title,
     id |-> {g.value : g \in item.guid},
     link |-> OrElse(item.link, {g.value : g \in {h \in item.guid : h.permalink}}),
     summary |-> OrElse(item.description, MediaDescription(item.extensions)),
     content |-> item.content]

------------------------------------------------------------------------------
(* Documents.                                                                *)

\* `MediaType::from_str` of a MIME type.
MediaType(mime) ==
    IF mime.type = "application" /\ mime.subtype = "atom" /\ mime.suffix = "xml"
        THEN {"Atom"}
    ELSE IF mime.type = "application" /\ mime.subtype \in {"rss", "rdf"} /\ mime.suffix = "xml"
        THEN {"Rss"}
    ELSE IF mime.type \in {"application", "text"} /\ mime.subtype = "xml"
        THEN {"Xml"}
    ELSE {}

AtomEntries(feed) == [i \in DOMAIN feed.entries |-> FromAtom(feed.entries[i])]
RssEntries(feed) == [i \in DOMAIN feed.entries |-> FromRss(feed.entries[i])]

\* `Feed::parse`: the entries of a document of this kind.  XML that is no Atom may be RSS.
Parse(kind, document) ==
    LET atom == {AtomEntries(f) : f \in document.atom}
        rss == {RssEntries(f) : f \in document.rss}
    IN  CASE kind = "Atom" -> atom
          [] kind = "Rss" -> rss
          [] kind = "Xml" -> OrElse(atom, rss)

==============================================================================
