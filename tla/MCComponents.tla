------------------------------- MODULE MCComponents -------------------------------
(***************************************************************************)
(* The components behind the pages whose safety is checked one by one: the *)
(* file and SQLite adapters, the administration pages with their           *)
(* repositories, the read models of runs and documents, signing in, the    *)
(* guards of pages and APIs, the hybrid search, the collection of the      *)
(* vector index, the tool calls, the module registry, the answer of the    *)
(* Python backend, the shopping engines and what a turn is grounded on.    *)
(* They share nothing: part says which of them a behaviour is about, the   *)
(* others stay in one state that satisfies their properties.               *)
(***************************************************************************)
EXTENDS FileStorage, AdminPages, RequestGuards, HybridSearch, QdrantCollection, McpRuntime, ModuleRegistry, ReadModels, PythonAnswer, ProductSearch, Grounding

CONSTANTS p1, p2, c1, c2, c3

\* A circle of parents takes three changes, everything else two.
AdminWrites == [p \in Kinds |-> IF p = "intent tree" THEN 3 ELSE 2]

\* Two of the calls are made in one process, one in the other.
HomeOf == [c \in Callers |-> IF c = c3 THEN p2 ELSE p1]

DefaultModules == <<"ecommerce">>
Contribution(registry, name, class) == [registry |-> registry, name |-> name, class |-> class]
Contributions ==
  {Contribution("tools", "n1", "pack"),
   Contribution("blocks", "n1", "k1"), Contribution("blocks", "n1", "k2"), Contribution("blocks", "n1", "untyped")}

\* As the shop registers them, with one of another module.
Pattern(name, module, weight) == [name |-> name, module |-> module, weight |-> weight]
IntentPatterns ==
  <<Pattern("consult", "ecommerce", 1), Pattern("compare", "ecommerce", 2), Pattern("buy", "ecommerce", 3),
    Pattern("other", "demo_corpus", 3)>>

FallbackChains == {<<"openai", "mock">>, <<"mock", "openai">>, <<"anthropic">>}

\* Five of the eighteen products of the file, with an earlier and a later, a light and a heavy one.
Product(name, brand, category, price, year, ram, storage, battery, weight, rtx, words) ==
  [name |-> name, brand |-> brand, category |-> category, price |-> price, year |-> year, ram |-> ram,
   storage |-> storage, battery |-> battery, weight |-> weight, screen |-> TRUE, rtx |-> rtx, words |-> words]
ProductsFile ==
  <<Product(3, "Apple", "laptop", 1999, 2023, 18, 512, 70, 1610, FALSE, {"pro"}),
    Product(1, "Dell", "laptop", 2199, 2024, 32, 1024, 86, 1860, TRUE, {"oled"}),
    Product(2, "Apple", "phone", 999, 2023, 8, 128, 13, 187, FALSE, {"pro"}),
    Product(5, "Google", "phone", 999, 2023, 12, 128, 19, 213, FALSE, {"pro", "oled"}),
    Product(4, "LG", "monitor", 599, 2021, NoValue, NoValue, NoValue, 9500, FALSE, {})>>

PriceBands == {<<0, 9999>>, <<0, 1000>>, <<900, 9999>>}

\* Four questions at once, one that goes on from the turn before it, one about tools.
QuestionAsked == <<"leave">>
TextsSearched ==
  {<<"leave">>, <<"it", "pto">>, <<"sla", Gap, "leave", Gap, "pto", Gap, "wiki">>, <<"weather", "wiki", "sla">>}
Uttered(role, text) == [role |-> role, text |-> text]
TurnsBefore == {<<>>, <<Uttered("user", <<"sla">>), Uttered("assistant", <<"leave">>)>>}
Mapping(source, target, enabled) == [source |-> source, target |-> target, enabled |-> enabled]
TermMappings == <<Mapping("pto", "vacation", TRUE), Mapping("vacation", "leave", TRUE), Mapping("sla", "wiki", FALSE)>>
KeywordsOfBases == [policy |-> {"leave"}, ops |-> {"sla"}]
Piece(base, words) == [base |-> base, words |-> words]
OwnKnowledge == <<Piece("policy", {"leave"}), Piece("ops", {"sla"}), Piece("ops", {"wiki", "sla"})>>
IntentsOfScope == {{}, {[term |-> "wiki", bases |-> {"policy"}, enabled |-> TRUE]}}
AnswersOfService ==
  {[chunks |-> <<>>, source |-> Unnamed],
   [chunks |-> <<[id |-> 99, base |-> "policy", score |-> 2]>>, source |-> "service"]}

\* Servers for production and for development, with a provider and without.
Server(m, production, fallback, headers, role) ==
  [mode |-> m, production |-> production, fallback |-> fallback, headers |-> headers, role |-> role, user |-> "e1"]
ServersRun ==
  {Server("oidc", TRUE, Unset, Unset, Unset), Server("oidc", TRUE, "true", "true", "admin"),
   Server("oidc", FALSE, Unset, Unset, "user"), Server("oidc", FALSE, "false", "true", "user"),
   Server("mock", FALSE, Unset, Unset, "admin"), Server("mock", TRUE, "true", "false", "user")}
Member(role) == [role |-> role, tenant |-> "acme", org |-> DefaultTenant]
DirectoriesKept ==
  {[e1 |-> Unknown, e2 |-> Unknown], [e1 |-> Member("admin"), e2 |-> Member("user")], [e1 |-> Member("user"), e2 |-> Unknown]}
Bearer(user, role, tenant, org) == [user |-> user, role |-> role, tenant |-> tenant, org |-> org]
BearersSeen ==
  {Bearer("e1", "admin", "acme", "acme"), Bearer("e1", "admin", "acme", Unset), Bearer("e2", "user", "acme", Unset),
   Bearer("e2", "user", Unset, Unset), Bearer("e2", Unset, "acme", "acme")}

VARIABLE part

FilesStay == backend = "json" /\ file = {SeedState}
AdminStays == page = "settings"
LoginStays == mode = "mock"
GuardsStay ==
  /\ env = CHOOSE e \in Environments : TRUE
  /\ directory = CHOOSE d \in Directories : TRUE
  /\ gateway = {} /\ cookie = {}

HybridStays ==
  /\ titles = [q \in Terms |-> {}] /\ texts = [q \in Terms |-> {}]
  /\ stage = "dense" /\ dense = <<>> /\ keyword = <<>> /\ fused = <<>> /\ found = <<>>
  /\ scored = <<>>

CollectionStays == exists = FALSE

McpStays ==
  /\ side = "web" /\ actor = [admin |-> FALSE, tenant |-> Nil, org |-> Nil] /\ plan = <<>>
  /\ owner = [r \in Records |-> Gone]
  /\ taken = 0 /\ running = FALSE /\ log = <<>> /\ stages = <<>> /\ given = <<>>

RegistryStays ==
  /\ offer = [m \in ModuleNames |-> <<>>]
  /\ modules = <<>> /\ bootstrapped = {} /\ contributed = {}
  /\ applying = FALSE /\ bootOutcome = "none" /\ clears = 0

ReadModelsStay == readKind = CHOOSE k \in ReadModelKinds : TRUE

AnswerStays ==
  /\ question = Blank /\ step = "begin" /\ model = [said |-> <<>>, fate |-> "open"]
  /\ buffer = <<>> /\ closed = FALSE /\ finish = "stop" /\ wire = <<>>

ShoppingStays == engine = "python"

GroundingStays ==
  /\ setup = CHOOSE s \in Setups : TRUE
  /\ turn = "gathering" /\ looked = <<>> /\ evidence = <<>> /\ toolUses = <<>>
  /\ finalPlans = <<>> /\ execution = Nothing /\ strays = <<>> /\ prepared = <<>>

Init ==
  /\ part \in {"files", "admin", "login", "guards", "hybrid", "collection", "mcp", "registry", "read models", "answer", "shopping", "grounding"}
  /\ FilesInit /\ (part # "files" => FilesStay)
  /\ AdminInit /\ (part # "admin" => AdminStays)
  /\ LoginInit /\ (part # "login" => LoginStays)
  /\ GuardInit /\ (part # "guards" => GuardsStay)
  /\ CollectionInit /\ (part # "collection" => CollectionStays)
  /\ IF part = "hybrid" THEN HybridInit ELSE HybridStays
  /\ IF part = "mcp" THEN McpInit ELSE McpStays
  /\ IF part = "registry" THEN RegistryInit ELSE RegistryStays
  /\ ReadModelInit /\ (part # "read models" => ReadModelsStay)
  /\ IF part = "answer" THEN AnswerInit ELSE AnswerStays
  /\ ShoppingInit /\ (part # "shopping" => ShoppingStays)
  /\ IF part = "grounding" THEN GroundingInit ELSE GroundingStays

vars == <<filesVars, adminVars, loginVars, guardVars, hybridVars, collectionVars, mcpVars, registryVars, readModelVars, answerVars, shoppingVars, groundingVars>>

Next ==
  /\ part' = part
  /\ \/ part = "files" /\ FilesNext
        /\ UNCHANGED <<adminVars, loginVars, guardVars, hybridVars, collectionVars, mcpVars, registryVars, readModelVars, answerVars, shoppingVars, groundingVars>>
     \/ part = "admin" /\ AdminNext
        /\ UNCHANGED <<filesVars, loginVars, guardVars, hybridVars, collectionVars, mcpVars, registryVars, readModelVars, answerVars, shoppingVars, groundingVars>>
     \/ part = "login" /\ LoginNext
        /\ UNCHANGED <<filesVars, adminVars, guardVars, hybridVars, collectionVars, mcpVars, registryVars, readModelVars, answerVars, shoppingVars, groundingVars>>
     \/ part = "guards" /\ GuardNext
        /\ UNCHANGED <<filesVars, adminVars, loginVars, hybridVars, collectionVars, mcpVars, registryVars, readModelVars, answerVars, shoppingVars, groundingVars>>
     \/ part = "hybrid" /\ HybridNext
        /\ UNCHANGED <<filesVars, adminVars, loginVars, guardVars, collectionVars, mcpVars, registryVars, readModelVars, answerVars, shoppingVars, groundingVars>>
     \/ part = "collection" /\ CollectionNext
        /\ UNCHANGED <<filesVars, adminVars, loginVars, guardVars, hybridVars, mcpVars, registryVars, readModelVars, answerVars, shoppingVars, groundingVars>>
     \/ part = "mcp" /\ McpNext
        /\ UNCHANGED <<filesVars, adminVars, loginVars, guardVars, hybridVars, collectionVars, registryVars, readModelVars, answerVars, shoppingVars, groundingVars>>
     \/ part = "registry" /\ RegistryNext
        /\ UNCHANGED <<filesVars, adminVars, loginVars, guardVars, hybridVars, collectionVars, mcpVars, readModelVars, answerVars, shoppingVars, groundingVars>>
     \/ part = "read models" /\ ReadModelNext
        /\ UNCHANGED <<filesVars, adminVars, loginVars, guardVars, hybridVars, collectionVars, mcpVars, registryVars, answerVars, shoppingVars, groundingVars>>
     \/ part = "answer" /\ AnswerNext
        /\ UNCHANGED <<filesVars, adminVars, loginVars, guardVars, hybridVars, collectionVars, mcpVars, registryVars, readModelVars, shoppingVars, groundingVars>>
     \/ part = "shopping" /\ ShoppingNext
        /\ UNCHANGED <<filesVars, adminVars, loginVars, guardVars, hybridVars, collectionVars, mcpVars, registryVars, readModelVars, answerVars, groundingVars>>
     \/ part = "grounding" /\ GroundingNext
        /\ UNCHANGED <<filesVars, adminVars, loginVars, guardVars, hybridVars, collectionVars, mcpVars, registryVars, readModelVars, answerVars, shoppingVars>>

Spec == Init /\ [][Next]_<<part, vars>>

\* Of the component the behaviour is about; the others rest in a state they may begin in.
ComponentTypesOK ==
  /\ part = "files" => FilesTypeOK
  /\ part = "admin" => AdminTypeOK
  /\ part = "login" => LoginTypeOK
  /\ part = "guards" => GuardTypeOK
  /\ part = "hybrid" => HybridTypeOK
  /\ part = "collection" => CollectionTypeOK
  /\ part = "mcp" => McpTypeOK
  /\ part = "registry" => RegistryTypeOK
  /\ part = "read models" => ReadModelTypeOK
  /\ part = "answer" => AnswerTypeOK
  /\ part = "shopping" => ShoppingTypeOK
  /\ part = "grounding" => GroundingTypeOK
=============================================================================
