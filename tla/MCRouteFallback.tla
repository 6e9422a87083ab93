-------------------------- MODULE MCRouteFallback --------------------------
EXTENDS RouteFallback, TLC
MCOrder == <<"openai", "anthropic", "google">>
MCTwo == <<"openai", "anthropic">>
MCDefault == <<"anthropic", "default">>
MCUpstreams == {{<<"openai", "default">>}, {<<"openai", "stripped">>}, {<<"anthropic", "default">>}}
MCMoved == {{<<"anthropic", "default">>}, {<<"openai", "default">>}}
Alike == Permutations(Request)
=============================================================================
