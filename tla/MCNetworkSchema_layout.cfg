\* A factory without a declaration inherits its public class over a base that is
\* found by classname, for which there are two candidates of different size.
CONSTANTS
  Factories = {"fx", "g", "b1", "b2"}
  ClientFactories = {}
  Names = {"x"}
  Stock = "s"
  Declarations <- Declares
  Derive <- ByClassname
  Classname <- Classnames
  Size <- Sizes
  Sends = {"fx"}
  Unfinished = {}
  Props = {"p"}
  IntProps = {"p"}
  Requests = {}
  Consumers = {}
SPECIFICATION Spec
INVARIANT CreatedFits
CHECK_DEADLOCK FALSE
