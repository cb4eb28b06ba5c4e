------------------------------- MODULE MCCalls ------------------------------
(* A call of the API from the command line to the reply: in a behaviour either the
   arguments of one command are put in order, or commands share a token file, or one
   request passes through the server, or a server serves its connections and stops.
   Three connections, each free to send any request, and to send another when it has
   been answered: enough for one to hang while two race for the lock or for the
   shutdown. *)
EXTENDS Arguments, Tokens, Replies, Lifecycle

CONSTANTS s1, s2, ann, Ann, pAnn, bob   \* Ann: in capitals, pAnn: and padded

VARIABLE part

MCAccounts == {<<s1, ann>>, <<s1, bob>>, <<s2, ann>>}
MCLower == [e \in Spellings |-> IF e = Ann THEN ann ELSE e]
MCTrim == [e \in Spellings |-> IF e = pAnn THEN Ann ELSE e]

MCCalls ==
  {<<"login", s1, pAnn>>, <<"login", s1, bob>>, <<"login", s2, ann>>,
   <<"logout", s1, None>>, <<"logout", s1, Ann>>, <<"impersonate", s1, Ann>>,
   <<"request", s1, None>>, <<"request", s2, Ann>>, <<"anonymous", s1, None>>}

ArgumentsIdle ==
  args = <<>> /\ section = "idle" /\ place = 1 /\ out = <<>> /\ flags = <<>>
    /\ positionals = <<>>

RepliesIdle ==
  operation = "none" /\ at = 1 /\ stage = "idle" /\ recorder = None /\ sent = Unsent
    /\ logged = 0

(* A server that is gone: nothing of it is enabled, as nothing of Tokens is while no
   command runs, so that their fairness can be asked for whatever the part. *)
LifecycleIdle ==
  dev = FALSE /\ runs = "exited" /\ result = Nobody /\ listener = "closed"
    /\ signalled = FALSE /\ closes = 0 /\ elapsed = FALSE
    /\ conn = [c \in Conns |-> "none"] /\ lock = Nobody
    /\ cached = FALSE /\ reads = 0

MCInit ==
  /\ Init
  /\ \/ part = "arguments" /\ ArgumentsInit /\ RepliesIdle /\ LifecycleIdle
     \/ part = "tokens" /\ ArgumentsIdle /\ RepliesIdle /\ LifecycleIdle
     \/ part = "replies" /\ ArgumentsIdle /\ RepliesInit /\ LifecycleIdle
     \/ part = "server" /\ ArgumentsIdle /\ RepliesIdle /\ LifecycleInit

MCVars == <<part, vars, arguments, replies, lifecycle>>

MCNext ==
  \/ part = "arguments" /\ ArgumentsNext /\ UNCHANGED <<part, vars, replies, lifecycle>>
  \/ part = "tokens" /\ Next /\ UNCHANGED <<part, arguments, replies, lifecycle>>
  \/ part = "replies" /\ RepliesNext /\ UNCHANGED <<part, vars, arguments, lifecycle>>
  \/ part = "server" /\ LifecycleNext /\ UNCHANGED <<part, vars, arguments, replies>>

MCSpec == MCInit /\ [][MCNext]_MCVars /\ Fairness /\ LifecycleFairness
=============================================================================
