-------------------------- MODULE MCRequestStream --------------------------
EXTENDS RequestStream

Get     == [method |-> "GET", valid |-> TRUE, lines |-> 1, framing |-> "none",
            body |-> <<>>, trailers |-> 0, form |-> FALSE, keep |-> TRUE]
Post(f, chunks) == [Get EXCEPT !.method = "POST", !.framing = f, !.body = chunks]

Closing == [Get EXCEPT !.keep = FALSE]
Bad     == [Get EXCEPT !.valid = FALSE]
Long    == [Get EXCEPT !.lines = 14]
Form    == [Post("length", <<4>>) EXCEPT !.form = TRUE]
Trailed(n) == [Post("chunked", <<1>>) EXCEPT !.trailers = n]
Plain   == {Get, Post("length", <<2>>), Post("chunked", <<1, 2>>)}
Others  == {Closing, Bad, Long, Post("length", <<5>>), Post("chunked", <<2, 3>>),
            [Post("length", <<1, 3>>) EXCEPT !.lines = 2],
            Post("length", <<>>), Post("chunked", <<>>), Trailed(1), Trailed(2)}

\* Any two or three requests that can be served, and each of the others alone,
\* before and after one; two that pile up behind a third.  A form is the last: nothing arrives while it is written.
PlainStreams ==
    LET all == Plain \cup Others IN
    {<<a, b>> : a \in all, b \in all \cup {Form}}
        \cup {<<a, b, Get>> : a \in Plain, b \in Plain}
        \cup {<<a, Post("chunked", <<1, 2>>), Post("chunked", <<2>>)>> : a \in Plain}

\* A request follows a form.
FormStreams == {<<Form, Get>>}

\* A request follows a body with trailers.
TrailerStreams == {<<Trailed(n), Get>> : n \in 1..2}
=============================================================================
