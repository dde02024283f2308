CONSTANTS
  Chars <- MCChars
  Blank = {" "}
  GeneratedNs <- MCGeneratedNs
  Dot = "."
  Public <- MCPublic
  BufLen = 5
  Undefined = Undefined
  Namespaces <- MCAnyNamespaces
  Tables <- MCIdents
SPECIFICATION Spec
INVARIANTS TopicNameMatchesSpec
