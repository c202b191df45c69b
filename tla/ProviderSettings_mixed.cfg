\* The default model against the default provider, two updates at a time.
SPECIFICATION Spec
CONSTANTS
    openai = openai
    xai = xai
    gpt = gpt
    grok = grok
    OpenAI = OpenAI
    XAI = XAI
    None = None
    BuiltIn <- BuiltInDef
    Custom = {c1}
    First = openai
    Keyless = {}
    Env = {xai}
    Models = {gpt, grok}
    Options <- OptionsDef
    AnyModel = {}
    Fallback <- FallbackDef
    Names = {OpenAI, XAI, Mine}
    BuiltInName <- BuiltInNameDef
    Clients = {a, b}
    Tasks = {t}
SYMMETRY Symmetry
INVARIANT ModelsFitProvider
