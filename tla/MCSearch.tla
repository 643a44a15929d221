------------------------------- MODULE MCSearch -------------------------------
(* Two videos of three and two frames; the second frame of the first video  *)
(* was embedded last.  Score 100 is one.                                    *)
EXTENDS SearchService

Frame(f) == [video |-> <<1, 1, 1, 2, 2>>[f], idx |-> <<0, 2, 1, 0, 1>>[f],
             time |-> <<0, 4, 2, 0, 3>>[f]]
Over(F, field) == [f \in F |-> Frame(f)[field]]

\* "say" has a cue word for speech, "read" one for on-screen text; "pic" is an image.
Texts == {"man", "say", "read"}
MCCuesOf == [t \in Texts |->
                CASE t = "say" -> {"speech", "visual"} [] t = "read" -> {"ocr"} [] OTHER -> {}]
Row5(a, b, c, d, e) == [f \in 1..5 |-> <<a, b, c, d, e>>[f]]

MCVisual == [man |-> Row5(90, 20, 70, 40, 60), say |-> Row5(10, 80, 85, 30, 95),
             read |-> Row5(50, 50, 20, 70, 10), pic |-> Row5(15, 5, 60, 90, 40)]
MCContext == [man |-> Row5(60, 30, 30, 10, 80), say |-> Row5(20, 90, 10, 60, 70),
              read |-> Row5(0, 0, 0, 0, 0)]
Segment(video, start, end, man, say, words) ==
    [video |-> video, start |-> start, end |-> end,
     sim |-> [man |-> man, say |-> say, read |-> 10], words |-> words]
MCSegments == {Segment(1, 1, 4, 30, 80, {"hello"}), Segment(1, 5, 7, 20, 10, {}),
               Segment(2, 3, 5, 40, 90, {"bye"}), Segment(2, 9, 11, 10, 20, {})}
MCBm25 == [title |-> [man |-> Row5(0, 0, 0, 3, 3), say |-> Row5(0, 0, 0, 0, 0),
                      read |-> Row5(0, 0, 0, 0, 0)],
           caption |-> [man |-> Row5(5, 0, 2, 0, 0), say |-> Row5(0, 0, 4, 0, 0),
                        read |-> Row5(0, 1, 0, 0, 0)],
           ocr |-> [man |-> Row5(0, 0, 0, 0, 0), say |-> Row5(0, 0, 0, 2, 0),
                    read |-> Row5(6, 0, 0, 0, 3)],
           asr |-> [man |-> Row5(0, 1, 1, 0, 2), say |-> Row5(0, 3, 0, 0, 0),
                    read |-> Row5(0, 0, 0, 0, 0)]]
MCWords == [ocr |-> <<{"exit"}, {}, {"exit"}, {}, {"exit"}>>]
MCObjects == <<[Car |-> 1, car |-> 1], [Car |-> 1], [dog |-> 2], [car |-> 3], [dog |-> 1]>>
MCPlain == [Car |-> "car", car |-> "car", dog |-> "dog"]

Whole == [video |-> Over(1..5, "video"), idx |-> Over(1..5, "idx"),
          time |-> Over(1..5, "time"), dense |-> TRUE, visual |-> MCVisual,
          context |-> MCContext, segments |-> MCSegments, bm25 |-> MCBm25,
          words |-> MCWords, objects |-> MCObjects]
Silent == [Whole EXCEPT !.segments = Absent, !.context = Absent]
Literal == [Whole EXCEPT !.bm25 = Absent, !.words = <<>>, !.objects = Absent]
Shifted == [Whole EXCEPT !.time[5] = 9]
Renumbered == [Whole EXCEPT !.video = [f \in {1, 2, 3, 4, 6} |-> Frame(IF f = 6 THEN 5 ELSE f).video],
    !.idx = [f \in {1, 2, 3, 4, 6} |-> Frame(IF f = 6 THEN 5 ELSE f).idx],
    !.time = [f \in {1, 2, 3, 4, 6} |-> Frame(IF f = 6 THEN 5 ELSE f).time],
    !.visual = [t \in DOMAIN MCVisual |-> [f \in {1, 2, 3, 4, 6} |-> MCVisual[t][IF f = 6 THEN 5 ELSE f]]],
    !.context = Absent, !.segments = Absent, !.bm25 = Absent]

Base == [visual_dense |-> 2, context_dense |-> 1, asr_dense |-> 2, bm25_title |-> 1,
         bm25_caption |-> 1, bm25_ocr |-> 1, bm25_asr |-> 1, visual_image |-> 2]
Adaptive == [robust |-> TRUE, gating |-> TRUE, routing |-> TRUE, base |-> Base,
             speechBoost |-> 2, ocrBoost |-> 3, visualBoost |-> 2, qLow |-> 5, qHigh |-> 95,
             topPercent |-> 20, topMax |-> 2, interval |-> TRUE, mode |-> "adaptive",
             legacy |-> [visual |-> 2, context |-> 1, asr |-> 1],
             fields |-> [title |-> 1, caption |-> 2, ocr |-> 1, asr |-> 1],
             halves |-> [dense |-> 1, bm25 |-> 1]]
PlainFusion == [Adaptive EXCEPT !.robust = FALSE, !.gating = FALSE, !.routing = FALSE,
                                !.interval = FALSE]
Fixed == [PlainFusion EXCEPT !.mode = "legacy"]

Decoder(gap, power, delta, separation, paths) ==
    [gap |-> gap, power |-> power, delta |-> delta, separation |-> separation,
     paths |-> paths, k |-> 2, weight |-> 1]
Spread == Decoder(25, 1, 0, 2, 1)
Clustered == Decoder(1, 1, 15, 0, 2)
Rooted == Decoder(25, 2, 0, 2, 1)
Rrf(required, normalize) ==
    [weights |-> [visual |-> 2, context |-> 1, asr |-> 1], k |-> 2, required |-> required,
     normalize |-> normalize]

Server(x, its, c, d, r, image) ==
    [x |-> x, corpus |-> its, c |-> c, d |-> d, r |-> r, imageScorer |-> image,
     imageSearch |-> image, imageLimit |-> 2]
MCBuildOf == <<
    Server(Whole, Whole, Adaptive, Spread, Rrf({"visual"}, TRUE), TRUE),
    Server(Silent, Whole, PlainFusion, Clustered, Rrf({}, FALSE), FALSE),
    Server(Literal, Whole, Fixed, Rooted, Rrf({}, FALSE), TRUE),
    Server(Shifted, Shifted, Fixed, Clustered, Rrf({}, TRUE), TRUE),
    Server(Shifted, Whole, Adaptive, Spread, Rrf({}, TRUE), TRUE),
    Server(Renumbered, Renumbered, Adaptive, Spread, Rrf({}, TRUE), TRUE),
    Server(Renumbered, Whole, Adaptive, Spread, Rrf({}, TRUE), TRUE)>>
MCCorpusOf == <<Whole, Literal>>

Event(text, images) ==
    [text |-> text, translation |-> Absent, denseOverride |-> Absent, bm25Override |-> Absent,
     images |-> images]
Words(text) == Event(text, {})
Picture == Event(Absent, {"pic"})
Flags(dense, bm25) == [dense |-> dense, bm25 |-> bm25]
KisRequest(events, foreign, flags, top) ==
    [kind |-> "kis", events |-> events, foreign |-> foreign, flags |-> flags, top |-> top]
TrakeRequest(events, flags) ==
    [kind |-> "trake", originals |-> events, retrieval |-> events, flags |-> flags, top |-> 2]
ImageRequest(media, size, readable) ==
    [kind |-> "image", media |-> media, size |-> size, readable |-> readable,
     image |-> "pic", top |-> 2]
Filter(words, objects, video, page, size) ==
    [kind |-> "filter", words |-> words, objects |-> objects, video |-> video,
     page |-> page, size |-> size]

MCRequestOf == <<
    KisRequest(<<Words("man"), Words("say")>>, FALSE, Flags(TRUE, TRUE), 2),
    KisRequest(<<Picture, [Words("read") EXCEPT !.translation = "man"]>>, FALSE,
               Flags(TRUE, FALSE), 3),
    KisRequest(<<Words("read"), Picture>>, FALSE, Flags(FALSE, TRUE), 1),
    KisRequest(<<Words("man")>>, TRUE, Flags(TRUE, FALSE), 1),
    KisRequest(<<Words("man")>>, FALSE, Flags(FALSE, FALSE), 1),
    TrakeRequest(<<"man", "say">>, Flags(TRUE, TRUE)),
    TrakeRequest(<<"man", "say", "read", "man">>, Flags(TRUE, TRUE)),
    [kind |-> "avs", text |-> "say", page |-> 4],
    [kind |-> "avs", text |-> "say", page |-> 9],
    ImageRequest(TRUE, 1, TRUE), ImageRequest(TRUE, 1, FALSE), ImageRequest(TRUE, 3, TRUE),
    ImageRequest(FALSE, 1, TRUE), ImageRequest(TRUE, 9, TRUE),
    Filter([ocr |-> "exit", asr |-> "hello"], [Car |-> 2], Absent, 1, 2),
    Filter([ocr |-> Absent], <<>>, 2, 2, 1)>>
MCAvs == [window |-> 2, page |-> 4, pool |-> 5]
MCOutages == {{}, {"text encoder"}, {"visual"}, {"context"}}

\* Everything two calls can do under one load each; then more calls and loads.
Scene(corpus, builds, requests, n, k) ==
    [corpus |-> corpus, builds |-> builds, requests |-> requests, calls |-> n, loads |-> k]
MCScenes == {Scene(1, 1..7, 1..16, 2, 1), Scene(2, {1, 3, 6}, {1, 6, 8, 15}, 2, 1),
             Scene(1, {1, 2, 5}, {1, 2, 3}, 3, 2), Scene(1, {1}, {1}, 4, 1)}
ThreadSymmetry == Permutations(Threads)
=============================================================================
