--------------------------- MODULE MCProviderCalls ---------------------------
EXTENDS ProviderCalls

Call(id, args) == [id |-> id, args |-> args]
MCAnswers ==
    {[text |-> text, calls |-> calls] :
        text \in {<<>>, <<"a", "b">>},
        calls \in {<<>>, <<Call(1, <<"x", "y">>)>>, <<Call(1, <<"x">>), Call(2, <<"y", "z">>)>>,
                   <<Call(1, <<>>), Call(2, <<"x">>)>>}}
=============================================================================
