---------------------------- MODULE MCDoclingPasses ----------------------------
(* DoclingPasses on small papers, one for each of what the passes repair.   *)
EXTENDS DoclingPasses

I(kind, page) == [kind |-> kind, page |-> page, level |-> 0, within |-> 0, of |-> "none", sound |-> TRUE, numbered |-> FALSE]
H(level, page) == [I("heading", page) EXCEPT !.level = level]
In(item, v) == [item EXCEPT !.within = v]
Of(item, kind) == [item EXCEPT !.of = kind]
Numbered0(item) == [item EXCEPT !.numbered = TRUE]
Unsound(item) == [item EXCEPT !.sound = FALSE]

FrontPaper == <<I("title", 1), I("footnote", 1), I("paragraph", 1), H(1, 1), I("paragraph", 2)>>
UntitledPaper == <<H(1, 1), I("header", 1), H(1, 1), I("paragraph", 1)>>
BlankPaper == <<H(1, 1), I("paragraph", 1), H(2, 2), I("figure", 2), H(2, 2), I("figure", 2)>>
PanelPaper == <<H(1, 1), I("footnote", 1), H(2, 1), H(3, 1), I("figure", 1), I("footnote", 1)>>
NestedPaper == <<H(1, 1), H(2, 1), H(3, 1), I("paragraph", 1)>>
ProsePaper == <<H(1, 1), I("paragraph", 1), I("equation", 1), I("paragraph", 1), I("paragraph", 2)>>
SignPaper == <<I("footnote", 1), I("sign", 1), I("equation", 1)>>
OverlayPaper == <<I("footnote", 1), Numbered0(I("equation", 1)), Numbered0(I("equation", 1)), I("equation", 1)>>
PicturePaper == <<H(1, 1), I("figure", 1), Of(In(I("caption", 1), 2), "figure"), In(I("paragraph", 1), 2),
                  In(I("paragraph", 1), 2), I("paragraph", 2)>>
FormulaPaper == <<I("figure", 1), I("footnote", 1), Of(In(I("caption", 1), 1), "figure"), In(I("sign", 1), 1),
                  In(I("sign", 1), 1), In(I("sign", 1), 1)>>
SplitPaper == <<I("paragraph", 1), I("figure", 1), I("figure", 1), Of(I("caption", 1), "figure"), Numbered0(H(1, 1)),
                I("footnote", 1), I("paragraph", 1)>>
ParentPaper == <<I("figure", 1), I("figure", 1), Of(I("caption", 1), "figure"), Numbered0(H(1, 1)), I("footnote", 1),
                 Numbered0(H(2, 1))>>
TablePaper == <<I("footnote", 1), I("table", 1), Of(I("caption", 1), "table"), Of(I("caption", 1), "table")>>
CodePaper == <<I("paragraph", 1), Unsound(I("code", 1)), I("references", 2), I("paragraph", 2), I("figure", 2)>>
\* A picture at the foot of a page has swallowed its caption and the text below; the next page
\* begins with a heading.
NextPaper == <<H(1, 1), I("figure", 1), Of(In(I("caption", 1), 2), "figure"), In(I("paragraph", 1), 2), H(1, 2), I("paragraph", 2)>>
\* A cover that is a picture, and then text.
CoverPaper == <<I("figure", 1), H(1, 2), I("paragraph", 2)>>
\* A picture before all text of its page has swallowed its caption, and beside another picture is
\* a header over a heading and the heading below it.
RingPaper == <<I("figure", 1), Of(In(I("caption", 1), 1), "figure"), I("figure", 1), I("header", 1), H(1, 1), H(2, 1)>>
\* A printed link may run from a heading into a caption.
HeadPaper == <<I("title", 1), H(1, 1), I("figure", 1), Of(I("caption", 1), "figure"), I("paragraph", 1)>>
Papers == {FrontPaper, UntitledPaper, BlankPaper, PanelPaper, NestedPaper, ProsePaper, SignPaper, OverlayPaper,
           PicturePaper, FormulaPaper, SplitPaper, ParentPaper, TablePaper, CodePaper, NextPaper, CoverPaper, RingPaper, HeadPaper}
================================================================================
