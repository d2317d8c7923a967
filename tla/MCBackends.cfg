SPECIFICATION Spec
 
PROPERTY NumbersAreFresh
