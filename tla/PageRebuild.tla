------------------------------ MODULE PageRebuild ------------------------------
(***************************************************************************)
(* br4n6 reconstruct (cli.rs, run_reconstruct; browser-forensic-           *)
(* reconstruct): an index of what the caches hold, and from it cached      *)
(* pages with their sub-resources inlined and a manifest of what was found *)
(* and what was missing, an archive of responses, or a gallery.            *)
(*                                                                         *)
(* A page is the sequence of its elements, a body its length.  What an     *)
(* inlined stylesheet refers to is inlined in it first.  The text of       *)
(* references, resolved and normalised, is an address; an Embedded one is  *)
(* a data: address, and NoAddress one that does not resolve.               *)
(***************************************************************************)
EXTENDS Integers, Sequences, FiniteSets, SequencesExt

CONSTANTS MaxSubresources,    \* inlined into one page
          MaxOutputBytes,     \* budget of one page
          MaxCssUrls,         \* inlined into one style
          CachesGiven,        \* caches of a path: by backend, what it holds
          StemOf(_)           \* what becomes of an address in a file name

VARIABLES asked,      \* the path's caches, the address and the format
          stage,      \* where the run is
          index,      \* by address, the resource; and the order of addresses
          pages,      \* pages still to be written
          rest,       \* elements of the page that is rewritten
          page,       \* the state of its rewriting
          written    \* by name, the files

pageVars == <<asked, stage, index, pages, rest, page, written>>

Embedded == "data"
NoAddress == "none"

Backends == <<"simple", "blockfile", "firefox", "safari", "cachestorage">>
NoCaches == [isFile |-> FALSE, held |-> [b \in ToSet(Backends) |-> <<>>]]

\* What the caches hold, and what it refers to.
HeldIn(caches) ==
    UNION {{caches.held[b][n] : n \in DOMAIN caches.held[b]} : b \in ToSet(Backends)}
Resources == UNION {HeldIn(caches) : caches \in CachesGiven \cup {NoCaches}}
ElementsOf(res) == {res.elements[n] : n \in DOMAIN res.elements}
ElementsGiven == UNION {ElementsOf(res) : res \in Resources}
UrlsIn(x) == {x.urls[n] : n \in DOMAIN x.urls}
References ==
    {Embedded, NoAddress}
    \cup (UNION {{res.url} \cup UrlsIn(res) : res \in Resources})
    \cup (UNION {{e.url} \cup UrlsIn(e) : e \in ElementsGiven})

ElementKinds == {"stylesheet", "icon", "script", "media", "style"}
ASSUME PagesAssumption ==
    /\ {MaxSubresources, MaxOutputBytes, MaxCssUrls} \subseteq Nat
    /\ \A caches \in CachesGiven : \A b \in ToSet(Backends) :
          caches.held[b] \in Seq(HeldIn(caches))
    /\ \A res \in Resources :
          /\ res.len \in Nat /\ res.urls \in Seq(UrlsIn(res))
          /\ res.elements \in Seq(ElementsOf(res))
          /\ \A e \in ElementsOf(res) : e.is \in ElementKinds /\ e.urls \in Seq(UrlsIn(e))

-----------------------------------------------------------------------------
(* The index: backend after backend, and the last copy of an address stays, at the *)
(* place of the first.                                                             *)

\* A map with a value at a key.
With(map, key, value) ==
    [k \in DOMAIN map \cup {key} |-> IF k = key THEN value ELSE map[k]]

EmptyIndex == [order |-> <<>>, byUrl |-> <<>>]
Insert(idx, res) ==
    [order |-> IF res.url \in DOMAIN idx.byUrl THEN idx.order ELSE Append(idx.order, res.url),
     byUrl |-> With(idx.byUrl, res.url, res)]
\* A file can only be Safari's.
FromCacheDir(caches) ==
    LET tried == IF caches.isFile THEN <<"safari">> ELSE Backends
        found == FlattenSeq([n \in DOMAIN tried |-> caches.held[tried[n]]])
        after[n \in 0..Len(found)] ==
            IF n = 0 THEN EmptyIndex ELSE Insert(after[n - 1], found[n])
    IN  after[Len(found)]

Cached(url) == url \in DOMAIN index.byUrl
EntryIf(url, type) == IF index.byUrl[url].type = type THEN <<url>> ELSE <<>>
Entries(type) == FlattenSeq([n \in DOMAIN index.order |-> EntryIf(index.order[n], type)])

-----------------------------------------------------------------------------
(* Rewriting. *)

NewPage(url) ==
    [url |-> url, found |-> <<>>, missing |-> <<>>, seen |-> {}, emitted |-> 0, count |-> 0,
     inlined |-> {}]
NoPage == NewPage(NoAddress)

BudgetOk(p, len) == p.count < MaxSubresources /\ p.emitted + len <= MaxOutputBytes
\* A data: address is longer than what it holds.
DataUri(len) == len + 1

RecordFound(p, url) ==
    IF url \in p.seen THEN p ELSE [p EXCEPT !.found = Append(@, url), !.seen = @ \cup {url}]
RecordMissing(p, url) ==
    IF url = NoAddress \/ url \in p.seen THEN p
    ELSE [p EXCEPT !.missing = Append(@, url), !.seen = @ \cup {url}]
NoteEmitted(p, url, len) ==
    [p EXCEPT !.emitted = @ + DataUri(len), !.count = @ + 1, !.inlined = @ \cup {url}]

Fits(p, url) == Cached(url) /\ BudgetOk(p, index.byUrl[url].len)
Inline(p, url, len) == RecordFound(NoteEmitted(p, url, len), url)
InlineOrMark(p, url) ==
    IF Fits(p, url) THEN Inline(p, url, index.byUrl[url].len) ELSE RecordMissing(p, url)
InlineSrc(p, url) == IF url = Embedded THEN p ELSE InlineOrMark(p, url)
RewriteSrcset(p, urls) ==
    LET after[n \in 0..Len(urls)] ==
            IF n = 0 THEN p ELSE InlineSrc(after[n - 1], urls[n])
    IN  after[Len(urls)]

\* What is cached and does not fit stays as it is.
InlineCssUrl(s, url) ==
    IF url = Embedded \/ s.rewrites = MaxCssUrls THEN s
    ELSE IF Fits(s.page, url)
    THEN [page |-> Inline(s.page, url, index.byUrl[url].len), rewrites |-> s.rewrites + 1]
    ELSE IF ~Cached(url) THEN [s EXCEPT !.page = RecordMissing(@, url)] ELSE s
RewriteCssUrls(p, urls) ==
    LET after[n \in 0..Len(urls)] ==
            IF n = 0 THEN [page |-> p, rewrites |-> 0] ELSE InlineCssUrl(after[n - 1], urls[n])
    IN  after[Len(urls)].page

\* Mistake: a stylesheet is found before it is known whether it fits.
FoundBeforeItFits(p, url) ==
    IF ~Cached(url) THEN RecordMissing(p, url)
    ELSE LET q == RecordFound(p, url)
         IN  IF ~Fits(q, url) THEN q
             ELSE LET within == RewriteCssUrls(q, index.byUrl[url].urls)
                  IN  NoteEmitted(within, url, index.byUrl[url].len + within.emitted - q.emitted)

InlineStylesheet(p, url) ==
    IF ~Fits(p, url) THEN RecordMissing(p, url)
    ELSE LET within == RewriteCssUrls(p, index.byUrl[url].urls)
         IN  Inline(within, url, index.byUrl[url].len + within.emitted - p.emitted)

\* The handler of an element: of a link, a script, an image or source, a style.
Handle(p, element) ==
    CASE element.is = "stylesheet" -> InlineStylesheet(p, element.url)
      [] element.is = "icon" -> InlineOrMark(p, element.url)
      [] element.is = "script" -> InlineSrc(p, element.url)
      [] element.is = "media" -> RewriteSrcset(InlineSrc(p, element.url), element.urls)
      [] element.is = "style" -> RewriteCssUrls(p, element.urls)

-----------------------------------------------------------------------------
(* The run. *)

Formats == {"html", "warc", "gallery"}
Addressed(caches) ==
    UNION {{caches.held[b][n].url : n \in DOMAIN caches.held[b]} : b \in DOMAIN caches.held}

NothingAsked == [caches |-> NoCaches, url |-> NoAddress, format |-> "html"]

PagesInit ==
    /\ \E caches \in CachesGiven \cup {NoCaches}, format \in Formats :
       \E url \in Addressed(caches) \cup {NoAddress} :
          asked = [caches |-> caches, url |-> url, format |-> format]
    /\ stage = "start" /\ index = EmptyIndex /\ pages = <<>> /\ rest = <<>>
    /\ page = NoPage /\ written = <<>>

\* An address that is asked for must be cached, but for a gallery.
Bails(idx) ==
    \/ idx.order = <<>>
    \/ asked.url # NoAddress /\ asked.format # "gallery" /\ asked.url \notin DOMAIN idx.byUrl

FromCache ==
    /\ stage = "start"
    /\ index' = FromCacheDir(asked.caches)
    /\ stage' = IF Bails(index') THEN "failed" ELSE "indexed"
    /\ UNCHANGED <<asked, pages, rest, page, written>>

\* The pages are those asked for; for an archive of one page, it is rewritten for what it
\* finds.
PlanPages ==
    /\ stage = "indexed" /\ (asked.format = "html" \/ (asked.format = "warc" /\ asked.url # NoAddress))
    /\ pages' = IF asked.url # NoAddress THEN <<asked.url>> ELSE Entries("html")
    /\ stage' = "next"
    /\ UNCHANGED <<asked, index, rest, page, written>>

IsHtml(url) == Cached(url) /\ index.byUrl[url].type = "html"
BeginPage ==
    /\ stage = "next" /\ pages # <<>> /\ IsHtml(Head(pages))
    /\ page' = NewPage(Head(pages)) /\ rest' = index.byUrl[Head(pages)].elements
    /\ pages' = Tail(pages) /\ stage' = "rewriting"
    /\ UNCHANGED <<asked, index, written>>
SkipPage ==
    /\ stage = "next" /\ pages # <<>> /\ ~IsHtml(Head(pages))
    /\ pages' = Tail(pages)
    /\ UNCHANGED <<asked, stage, index, rest, page, written>>

RewriteElement ==
    /\ stage = "rewriting" /\ rest # <<>>
    /\ page' = Handle(page, Head(rest)) /\ rest' = Tail(rest)
    /\ UNCHANGED <<asked, stage, index, pages, written>>

\* A stem gets as many underscores as it takes.
FreeName(url) ==
    LET used(n) == <<StemOf(url), n>> \in DOMAIN written
    IN  <<StemOf(url), CHOOSE n \in 0..Cardinality(DOMAIN written) :
                           ~used(n) /\ \A m \in 0..(n - 1) : used(m)>>

\* The page and its manifest; the disk may be full.
WriteHtml ==
    /\ stage = "rewriting" /\ rest = <<>> /\ asked.format = "html"
    /\ \/ written' = With(written, FreeName(page.url), page) /\ stage' = "next"
       \/ stage' = "failed" /\ UNCHANGED written
    /\ page' = NoPage
    /\ UNCHANGED <<asked, index, pages, rest>>

\* The page's response and those it was found to need, or all of them; the images.
WriteAll(name, urls) ==
    /\ \/ written' = With(written, name, SelectSeq(urls, Cached)) /\ stage' = "done"
       \/ stage' = "failed" /\ UNCHANGED written
    /\ UNCHANGED <<asked, index, pages, rest, page>>
WriteWarc ==
    /\ asked.format = "warc"
    /\ \/ stage = "indexed" /\ asked.url = NoAddress /\ WriteAll("warc", index.order)
       \/ stage = "rewriting" /\ rest = <<>> /\ WriteAll("warc", <<page.url>> \o page.found)
       \/ stage = "next" /\ pages = <<>> /\ WriteAll("warc", <<asked.url>>)
WriteGallery ==
    stage = "indexed" /\ asked.format = "gallery" /\ WriteAll("gallery", Entries("image"))

\* A run that wrote no file failed.
AllWritten ==
    /\ stage = "next" /\ pages = <<>> /\ asked.format = "html"
    /\ stage' = IF written = <<>> THEN "failed" ELSE "done"
    /\ UNCHANGED <<asked, index, pages, rest, page, written>>

PagesNext ==
    FromCache \/ PlanPages \/ BeginPage \/ SkipPage \/ RewriteElement \/ WriteHtml \/ WriteWarc
    \/ WriteGallery \/ AllWritten
PagesSpec == PagesInit /\ [][PagesNext]_pageVars

-----------------------------------------------------------------------------
(* What the manifest says. *)

InOnePlace(p) ==
    /\ IsInjective(p.found \o p.missing)
    /\ ToSet(p.found) \cup ToSet(p.missing) = p.seen

\* What an element refers to, and whether it refers to a stylesheet as something else.
Reached(e) ==
    CASE e.is = "style" -> ToSet(e.urls)
      [] e.is = "media" -> {e.url} \cup ToSet(e.urls)
      [] OTHER -> {e.url}
IsOther(url, e) ==
    IF e.is = "stylesheet"
    THEN e.url # url /\ Cached(e.url) /\ url \in ToSet(index.byUrl[e.url].urls)
    ELSE url \in Reached(e)
IsMoreThanASheet(url, elements) == \E n \in DOMAIN elements : IsOther(url, elements[n])

\* The addresses that the page needs: an inlined style needs what it refers to, up to its
\* cap; a stylesheet that was inlined as an image may be left out as a stylesheet.
StyleNeeds(p, urls) ==
    IF Cardinality({n \in DOMAIN urls : urls[n] \in p.inlined}) >= MaxCssUrls THEN {}
    ELSE ToSet(urls)
Needs(p, e, elements) ==
    CASE e.is = "style" -> StyleNeeds(p, e.urls)
      [] e.is = "stylesheet" /\ e.url \in p.inlined /\ ~IsMoreThanASheet(e.url, elements) ->
            {e.url} \cup StyleNeeds(p, index.byUrl[e.url].urls)
      [] OTHER -> Reached(e)
NeededBy(p, elements) ==
    (UNION {Needs(p, elements[n], elements) : n \in DOMAIN elements}) \ {Embedded, NoAddress}

\* The manifest is what a reader goes by: each address is in it at most once, as found if
\* and only if its body is in the page, however often and in whatever kinds of element it
\* is referred to; and what the page needs is in it, but for what a style refers to beyond
\* a budget.  The number of bodies keeps to its cap but for a stylesheet around the last
\* (singlefile.rs 6-13, 27-33).
PageIsAccountedFor ==
    /\ InOnePlace(page)
    /\ ToSet(page.found) = page.inlined
    /\ page.count <= MaxSubresources + 1
    /\ stage = "rewriting" =>
          LET all == index.byUrl[page.url].elements
              done == SubSeq(all, 1, Len(all) - Len(rest))
          IN  \A url \in NeededBy(page, done) \ page.seen : Cached(url) /\ ~Fits(page, url)
    /\ stage = "done" /\ asked.format = "html" /\ asked.url = NoAddress =>
          /\ {written[name].url : name \in DOMAIN written} = ToSet(Entries("html"))
          /\ Cardinality(DOMAIN written) = Len(Entries("html"))

=============================================================================
